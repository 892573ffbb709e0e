----------------------------- MODULE TradeProofs -----------------------------
(***************************************************************************)
(* Proofs about Trade, for any players, items, slots and balances.          *)
(***************************************************************************)
EXTENDS Trade, FiniteSetTheorems, TLAPS

\* Only acceptances that stand are remembered.
SeenAccepted ==
    \A p \in Players : seen[p] # None => trade[p] # None /\ trade[p].accepted

\* The inductive invariant.
TradeInv == PairsMatch /\ AcceptedIsSeen /\ SeenAccepted

-----------------------------------------------------------------------------
(***************************************************************************)
(* Lemmas on trades                                                         *)
(***************************************************************************)

\* The trader of a trading player trades with him.
LEMMA Partner ==
    ASSUME PairsMatch, NEW p \in Players, trade[p] # None
    PROVE  /\ trade[p] \in TradeData
           /\ trade[p].trader \in Players \ {p}
           /\ trade[trade[p].trader] \in TradeData
           /\ trade[trade[p].trader].trader = p
           /\ {p, trade[p].trader} \subseteq online
  BY NullAssumption DEF PairsMatch, TypeOK, TradeData

\* The offers of a trade are an agreement, which is not null.
LEMMA OffersType ==
    ASSUME PairsMatch, NEW p \in Players, trade[p] # None
    PROVE  Offers(p) \in Agreement /\ Offers(p) # None
<1>1. trade[p] \in TradeData /\ trade[trade[p].trader] \in TradeData
  BY Partner
<1>2. Offer(p) \in OfferData /\ Offer(trade[p].trader) \in OfferData
  BY <1>1 DEF Offer, OfferData, TradeData
<1>3. Offers(p) \in Agreement
  BY <1>2 DEF Offers, Agreement
<1> QED BY <1>3, NullAssumption

\* What a change of the trades may do: each player's trade is over, or it is as
\* it was but for acceptances that are taken back, or both offers are void.
Kept(p) ==
    /\ trade'[p] \in TradeData /\ trade[p] # None
    /\ trade'[p].trader = trade[p].trader
    /\ trade'[p].accepted =>
          /\ trade[p].accepted
          /\ trade'[p].money = trade[p].money
          /\ trade'[p].items = trade[p].items
          /\ trade'[trade[p].trader].money = trade[trade[p].trader].money
          /\ trade'[trade[p].trader].items = trade[trade[p].trader].items

\* A step that only takes acceptances back, or ends or starts trades, keeps what
\* Remember(seen) keeps.
LEMMA RememberKept ==
    ASSUME TradeInv, Remember(seen),
           \A p \in Players :
              \/ trade'[p] = None
              \/ trade'[p] \in TradeData /\ ~trade'[p].accepted
              \/ Kept(p)
    PROVE  /\ seen' \in [Players -> Agreement \cup {None}]
           /\ AcceptedIsSeen' /\ SeenAccepted'
<1>1. seen \in [Players -> Agreement \cup {None}]
  BY DEF TradeInv, PairsMatch, TypeOK
<1>2. seen' \in [Players -> Agreement \cup {None}]
  BY <1>1 DEF Remember
<1>3. SeenAccepted'
  BY DEF Remember, SeenAccepted
<1>4. ASSUME NEW p \in Players, trade'[p] # None, trade'[p].accepted
      PROVE  seen'[p] = Offers(p)'
  <2>1. Kept(p)
    BY <1>4
  <2>2. seen'[p] = seen[p]
    BY <1>4 DEF Remember
  <2>3. seen[p] = Offers(p)
    BY <2>1, <1>4 DEF TradeInv, AcceptedIsSeen, Kept
  <2> QED BY <2>1, <2>2, <2>3, <1>4 DEF Kept, Offers, Offer
<1> QED BY <1>2, <1>3, <1>4 DEF AcceptedIsSeen

\* A new offer voids both acceptances and nothing else.
LEMMA SetOfferKeeps ==
    ASSUME TradeInv, NEW p \in Players, trade[p] # None,
           NEW data \in TradeData, data.trader = trade[p].trader,
           ~data.accepted, SetOffer(p, data), Remember(seen),
           UNCHANGED <<online, inv, money, bound>>
    PROVE  TradeInv'
<1> DEFINE q == trade[p].trader
<1>1. /\ trade[p] \in TradeData /\ q \in Players \ {p}
      /\ trade[q] \in TradeData /\ trade[q].trader = p
      /\ {p, q} \subseteq online
  BY Partner DEF TradeInv
<1> HIDE DEF q
<1>2. /\ trade' = [trade EXCEPT ![p] = data, ![q] = [trade[q] EXCEPT !.accepted = FALSE]]
      /\ trade \in [Players -> TradeData \cup {None}]
  BY <1>1 DEF SetOffer, q, TradeInv, PairsMatch, TypeOK
<1>3. [trade[q] EXCEPT !.accepted = FALSE] \in TradeData
  BY <1>1 DEF TradeData
<1>4. /\ trade' \in [Players -> TradeData \cup {None}]
      /\ trade'[p] = data /\ trade'[q] = [trade[q] EXCEPT !.accepted = FALSE]
      /\ \A r \in Players \ {p, q} : trade'[r] = trade[r]
  BY <1>1, <1>2, <1>3
<1>5. ~trade'[q].accepted /\ trade'[q].trader = p
  BY <1>4, <1>1 DEF TradeData
<1>6. ASSUME NEW r \in Players \ {p, q}, trade[r] # None
      PROVE  trade[r].trader \notin {p, q}
  BY <1>1, <1>6, Partner DEF q, TradeInv
<1>7. \A r \in Players : \/ trade'[r] = None
                         \/ trade'[r] \in TradeData /\ ~trade'[r].accepted
                         \/ Kept(r)
  <2> SUFFICES ASSUME NEW r \in Players \ {p, q}, trade[r] # None
               PROVE  Kept(r)
    BY <1>1, <1>3, <1>4, <1>5
  <2>1. /\ trade[r] \in TradeData /\ trade[r].trader \in Players \ {p, q}
    BY <1>6, Partner DEF TradeInv
  <2> QED BY <2>1, <1>4 DEF Kept
<1>8. /\ seen' \in [Players -> Agreement \cup {None}]
      /\ AcceptedIsSeen' /\ SeenAccepted'
  BY <1>7, RememberKept
<1>9. TypeOK'
  BY <1>4, <1>8 DEF TradeInv, PairsMatch, TypeOK
<1>10. ASSUME NEW r \in Players, trade'[r] # None
       PROVE  LET t == trade'[r].trader
              IN  /\ {r, t} \subseteq online' /\ t # r
                  /\ trade'[t] # None /\ trade'[t].trader = r
  <2>1. CASE r = p
    BY <2>1, <1>1, <1>3, <1>4, <1>5, NullAssumption, ZenonT(40) DEF q
  <2>2. CASE r = q
    BY <2>2, <1>1, <1>4, <1>5, NullAssumption DEF q
  <2>3. CASE r \notin {p, q}
    <3>1. /\ trade[r].trader \in Players \ {p, q, r} /\ trade[r] # None
          /\ trade[trade[r].trader] \in TradeData
          /\ trade[trade[r].trader].trader = r
          /\ {r, trade[r].trader} \subseteq online
      BY <2>3, <1>4, <1>6, <1>10, Partner DEF TradeInv
    <3> QED BY <2>3, <3>1, <1>4, NullAssumption
  <2> QED BY <2>1, <2>2, <2>3
<1> QED BY <1>8, <1>9, <1>10 DEF TradeInv, PairsMatch

\* A trade ends for both players and for nobody else.
LEMMA EndTradeKeeps ==
    ASSUME TradeInv, NEW p \in Players, trade[p] # None, EndTrade(p),
           Remember(seen), online' \in {online, online \ {p}},
           inv' \in [Players -> SUBSET Items],
           money' \in [Players -> 0..(MaxMoney - 1)], UNCHANGED bound
    PROVE  TradeInv'
<1> DEFINE q == trade[p].trader
<1>1. /\ q \in Players \ {p} /\ trade[q].trader = p /\ trade[q] # None
  BY Partner, NullAssumption DEF TradeInv
<1> HIDE DEF q
<1>2. /\ trade' = [trade EXCEPT ![p] = None, ![q] = None]
      /\ trade \in [Players -> TradeData \cup {None}]
  BY DEF EndTrade, q, TradeInv, PairsMatch, TypeOK
<1>3. /\ trade' \in [Players -> TradeData \cup {None}]
      /\ trade'[p] = None /\ trade'[q] = None
      /\ \A r \in Players \ {p, q} : trade'[r] = trade[r]
  BY <1>1, <1>2
<1>4. ASSUME NEW r \in Players \ {p, q}, trade[r] # None
      PROVE  /\ trade[r] \in TradeData
             /\ trade[r].trader \in Players \ {p, q, r}
             /\ trade[trade[r].trader] \in TradeData
             /\ trade[trade[r].trader].trader = r
             /\ {r, trade[r].trader} \subseteq online
  BY <1>1, <1>4, Partner DEF q, TradeInv
<1>5. \A r \in Players : trade'[r] = None \/ Kept(r)
  <2> SUFFICES ASSUME NEW r \in Players \ {p, q}, trade[r] # None
               PROVE  Kept(r)
    BY <1>3
  <2> QED BY <1>3, <1>4 DEF Kept
<1>6. /\ seen' \in [Players -> Agreement \cup {None}]
      /\ AcceptedIsSeen' /\ SeenAccepted'
  BY <1>5, RememberKept
<1>7. TypeOK'
  BY <1>3, <1>6 DEF TradeInv, PairsMatch, TypeOK
<1>8. ASSUME NEW r \in Players, trade'[r] # None
      PROVE  LET t == trade'[r].trader
             IN  /\ {r, t} \subseteq online' /\ t # r
                 /\ trade'[t] # None /\ trade'[t].trader = r
  <2>1. r \in Players \ {p, q} /\ trade[r] # None
    BY <1>3, <1>8
  <2> QED BY <2>1, <1>3, <1>4, NullAssumption
<1> QED BY <1>6, <1>7, <1>8 DEF TradeInv, PairsMatch

\* The answer to CMSG_ACCEPT_TRADE that leaves the trade open: the offers stay,
\* and an acceptance of p is for what they are now.
LEMMA AcceptedKeeps ==
    ASSUME TradeInv, NEW p \in Players, trade[p] # None,
           NEW a \in BOOLEAN, NEW b \in {FALSE, trade[trade[p].trader].accepted},
           Accepted(p, a, b)
    PROVE  TradeInv'
<1> DEFINE q == trade[p].trader
           mine == [trade[p] EXCEPT !.accepted = a]
           his  == [trade[q] EXCEPT !.accepted = b]
<1>1. /\ trade[p] \in TradeData /\ q \in Players \ {p}
      /\ trade[q] \in TradeData /\ trade[q].trader = p
      /\ {p, q} \subseteq online
  BY Partner DEF TradeInv
<1> HIDE DEF q
<1>2. /\ trade' = [trade EXCEPT ![p] = mine, ![q] = his]
      /\ trade \in [Players -> TradeData \cup {None}]
      /\ seen \in [Players -> Agreement \cup {None}]
      /\ UNCHANGED <<online, inv, money, bound>>
      /\ Remember([seen EXCEPT ![p] = Offers(p)])
  BY <1>1 DEF Accepted, q, TradeInv, PairsMatch, TypeOK
<1>3. trade[q].accepted \in BOOLEAN
  BY <1>1 DEF TradeData
<1>4. /\ mine \in TradeData /\ mine.trader = q
      /\ mine.money = trade[p].money /\ mine.items = trade[p].items
      /\ his \in TradeData /\ his.trader = p
      /\ his.money = trade[q].money /\ his.items = trade[q].items
      /\ his.accepted => trade[q].accepted
  BY <1>1, <1>3 DEF TradeData, q
<1> HIDE DEF mine, his
<1>5. /\ trade' \in [Players -> TradeData \cup {None}]
      /\ trade'[p] = mine /\ trade'[q] = his
      /\ \A r \in Players \ {p, q} : trade'[r] = trade[r]
  BY <1>1, <1>2, <1>4
<1>6. ASSUME NEW r \in Players \ {p, q}, trade[r] # None
      PROVE  /\ trade[r] \in TradeData
             /\ trade[r].trader \in Players \ {p, q, r}
             /\ trade[trade[r].trader] \in TradeData
             /\ trade[trade[r].trader].trader = r
             /\ {r, trade[r].trader} \subseteq online
  BY <1>1, <1>6, Partner DEF q, TradeInv
<1>7. Offers(p) \in Agreement
  BY OffersType DEF TradeInv
<1>8. /\ seen' \in [Players -> Agreement \cup {None}]
      /\ SeenAccepted'
  BY <1>2, <1>7 DEF Remember, SeenAccepted
<1>9. TypeOK'
  BY <1>2, <1>5, <1>8 DEF TradeInv, PairsMatch, TypeOK
<1>10. ASSUME NEW r \in Players, trade'[r] # None
       PROVE  LET t == trade'[r].trader
              IN  /\ {r, t} \subseteq online' /\ t # r
                  /\ trade'[t] # None /\ trade'[t].trader = r
  <2>1. CASE r \in {p, q}
    BY <2>1, <1>1, <1>2, <1>4, <1>5, NullAssumption
  <2>2. CASE r \notin {p, q}
    BY <2>2, <1>2, <1>5, <1>6, <1>10, NullAssumption
  <2> QED BY <2>1, <2>2
<1>11. ASSUME NEW r \in Players, trade'[r] # None, trade'[r].accepted
       PROVE  seen'[r] = Offers(r)'
  <2>1. CASE r = p
    <3>1. seen'[p] = Offers(p)
      BY <2>1, <1>2, <1>11 DEF Remember
    <3>2. /\ trade'[p].trader = q /\ trade[p].trader = q
          /\ trade'[p].money = trade[p].money /\ trade'[p].items = trade[p].items
          /\ trade'[q].money = trade[q].money /\ trade'[q].items = trade[q].items
      BY <1>4, <1>5 DEF q
    <3> QED BY <2>1, <3>1, <3>2 DEF Offers, Offer
  <2>2. CASE r = q
    <3>1. seen'[q] = seen[q]
      BY <2>2, <1>1, <1>2, <1>11 DEF Remember
    <3>2. seen[q] = Offers(q)
      BY <2>2, <1>1, <1>4, <1>5, <1>11, NullAssumption
      DEF TradeInv, AcceptedIsSeen
    <3>3. /\ trade'[q].trader = p /\ trade[q].trader = p
          /\ trade'[p].money = trade[p].money /\ trade'[p].items = trade[p].items
          /\ trade'[q].money = trade[q].money /\ trade'[q].items = trade[q].items
      BY <1>1, <1>4, <1>5
    <3> QED BY <2>2, <3>1, <3>2, <3>3 DEF Offers, Offer
  <2>3. CASE r \notin {p, q}
    <3>1. seen'[r] = seen[r] /\ trade'[r] = trade[r]
      BY <2>3, <1>2, <1>5, <1>11 DEF Remember
    <3>2. seen[r] = Offers(r)
      BY <3>1, <1>11 DEF TradeInv, AcceptedIsSeen
    <3>3. trade'[trade[r].trader] = trade[trade[r].trader]
      BY <2>3, <3>1, <1>5, <1>6, <1>11
    <3> QED BY <3>1, <3>2, <3>3 DEF Offers, Offer
  <2> QED BY <2>1, <2>2, <2>3
<1> QED BY <1>8, <1>9, <1>10, <1>11 DEF TradeInv, PairsMatch, AcceptedIsSeen

\* A new trade is between two players who had none.
LEMMA InitiateKeeps ==
    ASSUME TradeInv, NEW p \in Players, NEW q \in Players, HandleInitiateTrade(p, q)
    PROVE  TradeInv'
<1>1. /\ trade \in [Players -> TradeData \cup {None}]
      /\ p # q /\ {p, q} \subseteq online /\ trade[p] = None /\ trade[q] = None
  BY DEF HandleInitiateTrade, TradeInv, PairsMatch, TypeOK
<1>2. /\ NewTrade(p) \in TradeData /\ NewTrade(p).trader = p /\ ~NewTrade(p).accepted
      /\ NewTrade(q) \in TradeData /\ NewTrade(q).trader = q /\ ~NewTrade(q).accepted
  BY TradeAssumption DEF NewTrade, TradeData, Empty
<1>3. /\ trade' \in [Players -> TradeData \cup {None}]
      /\ trade'[p] = NewTrade(q) /\ trade'[q] = NewTrade(p)
      /\ \A r \in Players \ {p, q} : trade'[r] = trade[r]
  BY <1>1, <1>2 DEF HandleInitiateTrade
<1>4. ASSUME NEW r \in Players \ {p, q}, trade[r] # None
      PROVE  /\ trade[r] \in TradeData
             /\ trade[r].trader \in Players \ {p, q, r}
             /\ trade[trade[r].trader] \in TradeData
             /\ trade[trade[r].trader].trader = r
             /\ {r, trade[r].trader} \subseteq online
  BY <1>1, <1>4, Partner, NullAssumption DEF TradeInv
<1>5. \A r \in Players : \/ trade'[r] = None
                         \/ trade'[r] \in TradeData /\ ~trade'[r].accepted
                         \/ Kept(r)
  <2> SUFFICES ASSUME NEW r \in Players \ {p, q}, trade[r] # None
               PROVE  Kept(r)
    BY <1>2, <1>3
  <2> QED BY <1>3, <1>4 DEF Kept
<1>6. /\ seen' \in [Players -> Agreement \cup {None}]
      /\ AcceptedIsSeen' /\ SeenAccepted'
  BY <1>5, RememberKept DEF HandleInitiateTrade
<1>7. TypeOK'
  BY <1>3, <1>6 DEF HandleInitiateTrade, TradeInv, PairsMatch, TypeOK
<1>8. ASSUME NEW r \in Players, trade'[r] # None
      PROVE  LET t == trade'[r].trader
             IN  /\ {r, t} \subseteq online' /\ t # r
                 /\ trade'[t] # None /\ trade'[t].trader = r
  <2>0. online' = online
    BY DEF HandleInitiateTrade
  <2>1. CASE r \in {p, q}
    BY <2>0, <2>1, <1>1, <1>2, <1>3, NullAssumption
  <2>2. CASE r \notin {p, q}
    BY <2>0, <2>2, <1>3, <1>4, <1>8, NullAssumption
  <2> QED BY <2>1, <2>2
<1> QED BY <1>6, <1>7, <1>8 DEF TradeInv, PairsMatch

-----------------------------------------------------------------------------
(***************************************************************************)
(* The exchange                                                             *)
(***************************************************************************)

\* The checks that HandleAcceptTrade has made when it comes to the exchange.
Checked(p) ==
    LET q == trade[p].trader
    IN  /\ HasEnoughMoney(p) /\ HasEnoughMoney(q)
        /\ ~TooMuchGold(p) /\ ~TooMuchGold(q)
        /\ (TradedItems(p) \cup TradedItems(q)) \cap bound = {}
        /\ trade[q].accepted
        /\ CanStoreItems(p) /\ CanStoreItems(q)

\* HandleAcceptTrade either leaves the trade open or has made all its checks.
LEMMA AcceptCases ==
    ASSUME TradeInv, NEW p \in Players, NEW far \in BOOLEAN, HandleAcceptTrade(p, far)
    PROVE  \/ \E a \in BOOLEAN, b \in {FALSE, trade[trade[p].trader].accepted} :
                 Accepted(p, a, b)
           \/ Checked(p) /\ Execute(p)
  BY DEF HandleAcceptTrade, Checked

\* Paying and being paid within the limits adds up.
LEMMA ModifyMoneyAdds ==
    ASSUME NEW m \in 0..(MaxMoney - 1), NEW given \in 0..MaxMoney,
           NEW received \in 0..MaxMoney, m >= given, ~(m >= MaxMoney - received)
    PROVE  /\ ModifyMoney(m, given, received) = m - given + received
           /\ ModifyMoney(m, given, received) \in 0..(MaxMoney - 1)
  BY TradeAssumption DEF ModifyMoney

\* What the exchange does to either of the two players.
LEMMA ExecuteEffect ==
    ASSUME TradeInv, NEW e \in Players, trade[e] # None, Checked(e), Execute(e),
           NEW p \in {e, trade[e].trader}
    PROVE  LET q == trade[p].trader
           IN  /\ inv'[p] = (inv[p] \ TradedItems(p)) \cup TradedItems(q)
               /\ money'[p] = money[p] - trade[p].money + trade[q].money
               /\ money'[p] \in 0..(MaxMoney - 1)
               /\ CanStoreItems(p)
               /\ (TradedItems(p) \cup TradedItems(q)) \cap bound = {}
<1> DEFINE f == trade[e].trader
<1>1. /\ trade[e] \in TradeData /\ f \in Players \ {e}
      /\ trade[f] \in TradeData /\ trade[f].trader = e
  BY Partner DEF TradeInv
<1> HIDE DEF f
<1>2. /\ inv \in [Players -> SUBSET Items] /\ money \in [Players -> 0..(MaxMoney - 1)]
  BY DEF TradeInv, PairsMatch, TypeOK
<1>3. /\ inv'[e] = (inv[e] \ TradedItems(e)) \cup TradedItems(f)
      /\ inv'[f] = (inv[f] \ TradedItems(f)) \cup TradedItems(e)
      /\ money'[e] = ModifyMoney(money[e], trade[e].money, trade[f].money)
      /\ money'[f] = ModifyMoney(money[f], trade[f].money, trade[e].money)
  BY <1>1, <1>2 DEF Execute, f
<1>4. /\ trade[e].money \in 0..MaxMoney /\ trade[f].money \in 0..MaxMoney
  BY <1>1 DEF TradeData
<1>5. /\ money[e] >= trade[e].money /\ money[f] >= trade[f].money
      /\ ~(money[e] >= MaxMoney - trade[f].money)
      /\ ~(money[f] >= MaxMoney - trade[e].money)
  BY <1>1 DEF Checked, HasEnoughMoney, TooMuchGold, f
<1>6. money[e] \in 0..(MaxMoney - 1) /\ money[f] \in 0..(MaxMoney - 1)
  BY <1>1, <1>2
<1>7. /\ money'[e] = money[e] - trade[e].money + trade[f].money
      /\ money'[e] \in 0..(MaxMoney - 1)
  BY <1>3, <1>4, <1>5, <1>6, ModifyMoneyAdds
<1>8. /\ money'[f] = money[f] - trade[f].money + trade[e].money
      /\ money'[f] \in 0..(MaxMoney - 1)
  BY <1>3, <1>4, <1>5, <1>6, ModifyMoneyAdds
<1>9. /\ CanStoreItems(e) /\ CanStoreItems(f)
      /\ (TradedItems(e) \cup TradedItems(f)) \cap bound = {}
  BY DEF Checked, f
<1>10. CASE p = e
  BY <1>10, <1>3, <1>7, <1>9 DEF f
<1>11. CASE p = f
  BY <1>11, <1>1, <1>3, <1>8, <1>9 DEF f
<1> QED BY <1>10, <1>11 DEF f

\* Nobody else has a part in it.
LEMMA ExecuteOthers ==
    ASSUME TradeInv, NEW e \in Players, trade[e] # None, Execute(e),
           NEW p \in Players \ {e, trade[e].trader}
    PROVE  inv'[p] = inv[p] /\ money'[p] = money[p] /\ trade'[p] = trade[p]
  BY DEF Execute, EndTrade, TradeInv, PairsMatch, TypeOK

\* The exchange keeps the types of inventories and balances.
LEMMA ExecuteTypes ==
    ASSUME TradeInv, NEW e \in Players, trade[e] # None, Checked(e), Execute(e)
    PROVE  /\ inv' \in [Players -> SUBSET Items]
           /\ money' \in [Players -> 0..(MaxMoney - 1)]
<1>1. /\ inv \in [Players -> SUBSET Items] /\ money \in [Players -> 0..(MaxMoney - 1)]
  BY DEF TradeInv, PairsMatch, TypeOK
<1>2. \A p \in Players : TradedItems(p) \subseteq Items
  BY <1>1 DEF TradedItems
<1>3. \A p \in Players : trade[p] # None => trade[p].trader \in Players
  BY Partner DEF TradeInv
<1>4. ASSUME NEW p \in Players
      PROVE  inv'[p] \subseteq Items /\ money'[p] \in 0..(MaxMoney - 1)
  <2>1. CASE p \in {e, trade[e].trader}
    <3>1. trade[p].trader \in Players
      BY <2>1, Partner DEF TradeInv
    <3> QED BY <2>1, <3>1, <1>1, <1>2, ExecuteEffect
  <2>2. CASE p \notin {e, trade[e].trader}
    BY <2>2, <1>1, ExecuteOthers
  <2> QED BY <2>1, <2>2
<1>5. /\ inv' = [p \in Players |-> inv'[p]] /\ money' = [p \in Players |-> money'[p]]
  BY <1>1 DEF Execute
<1> QED BY <1>4, <1>5

-----------------------------------------------------------------------------
(***************************************************************************)
(* The invariant                                                            *)
(***************************************************************************)

\* Nobody trades at first.
LEMMA TradeInvInit == Init => TradeInv
<1> SUFFICES ASSUME Init PROVE TradeInv
  OBVIOUS
<1>1. TypeOK
  BY DEF Init, TypeOK
<1> QED BY <1>1 DEF Init, TradeInv, PairsMatch, AcceptedIsSeen, SeenAccepted

\* Steps that leave the trades alone.
LEMMA OutsideKeeps ==
    ASSUME TradeInv, TypeOK', online \subseteq online', UNCHANGED <<trade, seen>>
    PROVE  TradeInv'
<1>1. PairsMatch'
  BY DEF TradeInv, PairsMatch
<1>2. AcceptedIsSeen' /\ SeenAccepted'
  BY DEF TradeInv, AcceptedIsSeen, SeenAccepted, Offers, Offer
<1> QED BY <1>1, <1>2 DEF TradeInv

\* Each handler keeps the invariant.
LEMMA TradeInvNext == TradeInv /\ [Next]_vars => TradeInv'
<1> SUFFICES ASSUME TradeInv, [Next]_vars PROVE TradeInv'
  OBVIOUS
<1> USE DEF Trading
<1>0. TypeOK /\ PairsMatch
  BY DEF TradeInv, PairsMatch
<1>1. CASE UNCHANGED vars
  <2>1. TypeOK' /\ online \subseteq online' /\ UNCHANGED <<trade, seen>>
    BY <1>0, <1>1 DEF vars, TypeOK
  <2> QED BY <2>1, OutsideKeeps
<1>2. CASE Next
  <2> PICK p \in Players :
        \/ \E q \in Players : HandleInitiateTrade(p, q)
        \/ \E g \in 0..MaxMoney : HandleSetTradeGold(p, g)
        \/ \E s \in TradeSlots : \E i \in Items : HandleSetTradeItem(p, s, i)
        \/ \E s \in TradeSlots : HandleClearTradeItem(p, s)
        \/ HandleUnacceptTrade(p) \/ TradeCancel(p)
        \/ \E far \in BOOLEAN : HandleAcceptTrade(p, far)
        \/ LogoutPlayer(p) \/ LoginPlayer(p)
        \/ \E i \in Items : LoseItem(p, i) \/ BindItem(p, i)
        \/ \E m \in 0..(MaxMoney - 1) : ChangeMoney(p, m)
    BY <1>2 DEF Next
  <2>1. CASE \E q \in Players : HandleInitiateTrade(p, q)
    BY <2>1, InitiateKeeps
  <2>2. ASSUME NEW g \in 0..MaxMoney, HandleSetTradeGold(p, g)
        PROVE  TradeInv'
    <3> DEFINE data == [trade[p] EXCEPT !.money = g, !.accepted = FALSE]
    <3>1. trade[p] # None /\ trade[p] \in TradeData
      BY <2>2, <1>0, Partner DEF HandleSetTradeGold
    <3>2. data \in TradeData /\ data.trader = trade[p].trader /\ ~data.accepted
      BY <3>1 DEF TradeData
    <3>3. SetOffer(p, data) /\ Remember(seen) /\ UNCHANGED <<online, inv, money, bound>>
      BY <2>2 DEF HandleSetTradeGold
    <3> QED BY <3>1, <3>2, <3>3, SetOfferKeeps
  <2>3. ASSUME NEW s \in TradeSlots, NEW i \in Items \cup {None},
               trade[p] # None, SetItem(p, s, i)
        PROVE  TradeInv'
    <3> DEFINE data == [trade[p] EXCEPT !.items[s] = i, !.accepted = FALSE]
    <3>1. trade[p] \in TradeData
      BY <2>3, <1>0, Partner
    <3>2. data \in TradeData /\ data.trader = trade[p].trader /\ ~data.accepted
      BY <3>1 DEF TradeData
    <3>3. SetOffer(p, data) /\ Remember(seen) /\ UNCHANGED <<online, inv, money, bound>>
      BY <2>3 DEF SetItem
    <3> QED BY <2>3, <3>2, <3>3, SetOfferKeeps
  <2>4. CASE \E s \in TradeSlots : \E i \in Items : HandleSetTradeItem(p, s, i)
    BY <2>3, <2>4 DEF HandleSetTradeItem
  <2>5. CASE \E s \in TradeSlots : HandleClearTradeItem(p, s)
    BY <2>3, <2>5 DEF HandleClearTradeItem
  <2>6. CASE HandleUnacceptTrade(p)
    <3> DEFINE q == trade[p].trader
    <3>1. /\ trade[p] # None /\ trade[p] \in TradeData /\ q \in Players \ {p}
          /\ trade[q] \in TradeData /\ trade[q].trader = p /\ {p, q} \subseteq online
      BY <2>6, <1>0, Partner DEF HandleUnacceptTrade
    <3> HIDE DEF q
    <3>2. /\ trade' = [trade EXCEPT ![p] = [trade[p] EXCEPT !.accepted = FALSE]]
          /\ trade \in [Players -> TradeData \cup {None}]
      BY <2>6, <3>1, <1>0 DEF HandleUnacceptTrade, TypeOK
    <3>3. /\ trade' \in [Players -> TradeData \cup {None}]
          /\ trade'[p] \in TradeData /\ ~trade'[p].accepted
          /\ trade'[p].trader = q
          /\ trade'[p].money = trade[p].money /\ trade'[p].items = trade[p].items
          /\ \A r \in Players \ {p} : trade'[r] = trade[r]
      BY <3>1, <3>2 DEF TradeData, q
    <3>4. ASSUME NEW r \in Players \ {p}, trade[r] # None
          PROVE  Kept(r)
      <4>1. trade[r] \in TradeData /\ trade[r].trader \in Players
        BY <3>4, <1>0, Partner
      <4> QED BY <4>1, <3>4, <3>3 DEF Kept
    <3>5. \A r \in Players : \/ trade'[r] = None
                             \/ trade'[r] \in TradeData /\ ~trade'[r].accepted
                             \/ Kept(r)
      BY <3>3, <3>4
    <3>6. /\ seen' \in [Players -> Agreement \cup {None}]
          /\ AcceptedIsSeen' /\ SeenAccepted'
      BY <2>6, <3>5, RememberKept DEF HandleUnacceptTrade
    <3>7. TypeOK'
      BY <2>6, <3>3, <3>6, <1>0 DEF HandleUnacceptTrade, TypeOK
    <3>8. ASSUME NEW r \in Players, trade'[r] # None
          PROVE  LET t == trade'[r].trader
                 IN  /\ {r, t} \subseteq online' /\ t # r
                     /\ trade'[t] # None /\ trade'[t].trader = r
      <4>1. online' = online
        BY <2>6 DEF HandleUnacceptTrade
      <4>2. CASE r = p
        BY <4>1, <4>2, <3>1, <3>3, NullAssumption
      <4>3. CASE r # p
        <5>1. /\ trade[r] # None /\ trade[r].trader \in Players \ {r}
              /\ trade[trade[r].trader] \in TradeData
              /\ trade[trade[r].trader].trader = r
              /\ {r, trade[r].trader} \subseteq online
          BY <4>3, <3>3, <3>8, <1>0, Partner
        <5> QED BY <4>1, <4>3, <5>1, <3>3, NullAssumption DEF q
      <4> QED BY <4>2, <4>3
    <3> QED BY <3>6, <3>7, <3>8 DEF TradeInv, PairsMatch
  <2>7. CASE TradeCancel(p)
    <3>1. trade[p] # None /\ EndTrade(p) /\ Remember(seen) /\ online' = online
      BY <2>7 DEF TradeCancel
    <3>2. /\ inv' \in [Players -> SUBSET Items]
          /\ money' \in [Players -> 0..(MaxMoney - 1)] /\ UNCHANGED bound
      BY <2>7, <1>0 DEF TradeCancel, TypeOK
    <3> QED BY <3>1, <3>2, EndTradeKeeps
  <2>8. ASSUME NEW far \in BOOLEAN, HandleAcceptTrade(p, far)
        PROVE  TradeInv'
    <3>0. trade[p] # None
      BY <2>8 DEF HandleAcceptTrade
    <3>1. ASSUME NEW a \in BOOLEAN,
                 NEW b \in {FALSE, trade[trade[p].trader].accepted}, Accepted(p, a, b)
          PROVE  TradeInv'
      BY <3>0, <3>1, AcceptedKeeps
    <3>2. ASSUME Checked(p), Execute(p)
          PROVE  TradeInv'
      <4>1. /\ inv' \in [Players -> SUBSET Items]
            /\ money' \in [Players -> 0..(MaxMoney - 1)]
        BY <3>0, <3>2, ExecuteTypes
      <4>2. EndTrade(p) /\ Remember(seen) /\ online' = online /\ UNCHANGED bound
        BY <3>2 DEF Execute
      <4> QED BY <3>0, <4>1, <4>2, EndTradeKeeps
    <3> QED BY <2>8, <3>1, <3>2, AcceptCases
  <2>9. CASE LogoutPlayer(p)
    <3>1. /\ inv' \in [Players -> SUBSET Items]
          /\ money' \in [Players -> 0..(MaxMoney - 1)] /\ UNCHANGED bound
          /\ online' = online \ {p} /\ Remember(seen)
      BY <2>9, <1>0 DEF LogoutPlayer, TypeOK
    <3>2. CASE trade[p] # None
      BY <2>9, <3>1, <3>2, EndTradeKeeps DEF LogoutPlayer
    <3>3. CASE trade[p] = None
      <4>1. trade' = trade /\ trade \in [Players -> TradeData \cup {None}]
        BY <2>9, <3>3, <1>0 DEF LogoutPlayer, TypeOK
      <4>2. ASSUME NEW r \in Players, trade[r] # None
            PROVE  /\ trade[r] \in TradeData
                   /\ trade[r].trader \in Players \ {p, r} /\ r # p
                   /\ trade[trade[r].trader] \in TradeData
                   /\ trade[trade[r].trader].trader = r
                   /\ {r, trade[r].trader} \subseteq online
        BY <3>3, <4>2, <1>0, Partner, NullAssumption
      <4>3. \A r \in Players : trade'[r] = None \/ Kept(r)
        BY <4>1, <4>2 DEF Kept
      <4>4. /\ seen' \in [Players -> Agreement \cup {None}]
            /\ AcceptedIsSeen' /\ SeenAccepted'
        BY <3>1, <4>3, RememberKept
      <4>5. TypeOK'
        BY <3>1, <4>1, <4>4, <1>0 DEF TypeOK
      <4>6. PairsMatch'
        BY <3>1, <4>1, <4>2, <4>5, NullAssumption DEF PairsMatch
      <4> QED BY <4>4, <4>6 DEF TradeInv
    <3> QED BY <3>2, <3>3
  <2>10. CASE LoginPlayer(p)
    <3>1. TypeOK' /\ online \subseteq online' /\ UNCHANGED <<trade, seen>>
      BY <2>10, <1>0 DEF LoginPlayer, TypeOK
    <3> QED BY <3>1, OutsideKeeps
  <2>11. CASE \E i \in Items : LoseItem(p, i) \/ BindItem(p, i)
    <3>1. TypeOK' /\ online \subseteq online' /\ UNCHANGED <<trade, seen>>
      BY <2>11, <1>0 DEF LoseItem, BindItem, TypeOK
    <3> QED BY <3>1, OutsideKeeps
  <2>12. CASE \E m \in 0..(MaxMoney - 1) : ChangeMoney(p, m)
    <3>1. TypeOK' /\ online \subseteq online' /\ UNCHANGED <<trade, seen>>
      BY <2>12, <1>0 DEF ChangeMoney, TypeOK
    <3> QED BY <3>1, OutsideKeeps
  <2> QED BY <2>1, <2>2, <2>4, <2>5, <2>6, <2>7, <2>8, <2>9, <2>10, <2>11, <2>12
<1> QED BY <1>1, <1>2

\* In every reachable state.
LEMMA TradeInvHolds == Spec => []TradeInv
  BY TradeInvInit, TradeInvNext, PTL DEF Spec

\* Whatever handlers run in whatever order, m_trade of two players point to each
\* other and both are in the world: GetTraderData never meets a null pointer.
THEOREM PairsMatched == Spec => []PairsMatch
<1>1. TradeInv => PairsMatch
  BY DEF TradeInv
<1> QED BY <1>1, TradeInvHolds, PTL

\* An acceptance stands only for the offers it was given for.
THEOREM AcceptanceSound == Spec => []AcceptedIsSeen
<1>1. TradeInv => AcceptedIsSeen
  BY DEF TradeInv
<1> QED BY <1>1, TradeInvHolds, PTL

-----------------------------------------------------------------------------
(***************************************************************************)
(* Fairness of the exchange                                                 *)
(***************************************************************************)

\* No item is in two inventories.
OwnedOnce == \A p, q \in Players : p # q => inv[p] \cap inv[q] = {}

\* The exchange leaves every item with at most one owner.
LEMMA ExecuteOwnedOnce ==
    ASSUME TradeInv, OwnedOnce, NEW e \in Players, trade[e] # None, Checked(e), Execute(e)
    PROVE  OwnedOnce'
<1> DEFINE f == trade[e].trader
<1>1. f \in Players \ {e} /\ trade[f].trader = e
  BY Partner DEF TradeInv
<1>2. /\ inv'[e] = (inv[e] \ TradedItems(e)) \cup TradedItems(f)
      /\ inv'[f] = (inv[f] \ TradedItems(f)) \cup TradedItems(e)
  BY <1>1, ExecuteEffect
<1>3. \A p \in Players \ {e, f} : inv'[p] = inv[p]
  BY ExecuteOthers
<1> HIDE DEF f
<1>4. TradedItems(e) \subseteq inv[e] /\ TradedItems(f) \subseteq inv[f]
  BY DEF TradedItems
<1>5. ASSUME NEW p \in Players, NEW q \in Players, p # q
      PROVE  inv'[p] \cap inv'[q] = {}
  <2>1. /\ inv[e] \cap inv[f] = {} /\ inv[p] \cap inv[q] = {}
        /\ p # e => inv[p] \cap inv[e] = {}
        /\ p # f => inv[p] \cap inv[f] = {}
        /\ q # e => inv[q] \cap inv[e] = {}
        /\ q # f => inv[q] \cap inv[f] = {}
    BY <1>1, <1>5 DEF OwnedOnce
  <2>2. CASE p \in {e, f} /\ q \in {e, f}
    BY <2>1, <2>2, <1>2, <1>4, <1>5
  <2>3. CASE p \in {e, f} /\ q \notin {e, f}
    BY <2>1, <2>3, <1>2, <1>3, <1>4
  <2>4. CASE p \notin {e, f} /\ q \in {e, f}
    BY <2>1, <2>4, <1>2, <1>3, <1>4
  <2>5. CASE p \notin {e, f} /\ q \notin {e, f}
    BY <2>1, <2>5, <1>3
  <2> QED BY <2>2, <2>3, <2>4, <2>5
<1> QED BY <1>5 DEF OwnedOnce

\* Every step but the exchange leaves the inventories as they are or takes an
\* item out of one.
LEMMA StepCases ==
    ASSUME TradeInv, [Next]_vars
    PROVE  \/ \E e \in Players : trade[e] # None /\ Checked(e) /\ Execute(e)
           \/ UNCHANGED <<inv, money>>
           \/ UNCHANGED trade /\ \A p \in Players : inv'[p] \subseteq inv[p]
<1> USE DEF Trading
<1>0. inv \in [Players -> SUBSET Items]
  BY DEF TradeInv, PairsMatch, TypeOK
<1>1. CASE UNCHANGED vars
  BY <1>1 DEF vars
<1>2. ASSUME NEW p \in Players, NEW far \in BOOLEAN, HandleAcceptTrade(p, far)
      PROVE  \/ \E e \in Players : trade[e] # None /\ Checked(e) /\ Execute(e)
             \/ UNCHANGED <<inv, money>>
  <2>1. trade[p] # None
    BY <1>2 DEF HandleAcceptTrade
  <2> QED BY <1>2, <2>1, AcceptCases DEF Accepted
<1>3. ASSUME NEW p \in Players, NEW i \in Items, LoseItem(p, i)
      PROVE  UNCHANGED trade /\ \A q \in Players : inv'[q] \subseteq inv[q]
  BY <1>0, <1>3 DEF LoseItem
<1>4. ASSUME NEW p \in Players, NEW m \in 0..(MaxMoney - 1), ChangeMoney(p, m)
      PROVE  UNCHANGED trade /\ \A q \in Players : inv'[q] \subseteq inv[q]
  BY <1>0, <1>4 DEF ChangeMoney
<1> QED
  BY <1>1, <1>2, <1>3, <1>4
  DEF Next, HandleInitiateTrade, HandleSetTradeGold, HandleSetTradeItem,
      HandleClearTradeItem, SetItem, HandleUnacceptTrade, TradeCancel,
      LogoutPlayer, LoginPlayer, BindItem

\* No item has two owners.
LEMMA OwnedOnceHolds == Spec => []OwnedOnce
<1>1. Init => OwnedOnce
  BY DEF Init, OwnedOnce
<1>2. TradeInv /\ OwnedOnce /\ [Next]_vars => OwnedOnce'
  <2> SUFFICES ASSUME TradeInv, OwnedOnce, [Next]_vars PROVE OwnedOnce'
    OBVIOUS
  <2>1. CASE \E e \in Players : trade[e] # None /\ Checked(e) /\ Execute(e)
    BY <2>1, ExecuteOwnedOnce
  <2>2. CASE UNCHANGED <<inv, money>>
    BY <2>2 DEF OwnedOnce
  <2>3. CASE \A p \in Players : inv'[p] \subseteq inv[p]
    BY <2>3 DEF OwnedOnce
  <2> QED BY <2>1, <2>2, <2>3, StepCases
<1> QED BY <1>1, <1>2, TradeInvHolds, PTL DEF Spec

\* What was agreed on is what is on offer when the exchange is made.
LEMMA AgreedOffers ==
    ASSUME TradeInv, NEW e \in Players, trade[e] # None,
           trade[trade[e].trader].accepted, NEW p \in {e, trade[e].trader}
    PROVE  LET q == trade[p].trader
           IN  /\ seen[p] # None \/ seen[q] # None
               /\ Agreed(p, q) = [mine |-> Offer(p), his |-> Offer(q)]
<1> DEFINE f == trade[e].trader
<1>1. /\ f \in Players \ {e} /\ trade[f] # None /\ trade[f].trader = e
  BY Partner, NullAssumption DEF TradeInv
<1>2. seen[f] = Offers(f) /\ Offers(f) # None
  BY <1>1, OffersType DEF TradeInv, AcceptedIsSeen
<1>3. Offers(f) = [mine |-> Offer(f), his |-> Offer(e)]
  BY <1>1 DEF Offers
<1>4. seen[e] # None => seen[e] = [mine |-> Offer(e), his |-> Offer(f)]
  BY DEF TradeInv, SeenAccepted, AcceptedIsSeen, Offers
<1> HIDE DEF f
<1>5. CASE p = e
  <2>1. trade[p].trader = f
    BY <1>5 DEF f
  <2> QED BY <2>1, <1>2, <1>3, <1>4, <1>5 DEF Agreed
<1>6. CASE p = f
  BY <1>1, <1>2, <1>3, <1>6 DEF Agreed
<1> QED BY <1>5, <1>6 DEF f

\* The exchange hands over what was agreed on.
LEMMA ExecuteHonours ==
    ASSUME TradeInv, OwnedOnce, NEW e \in Players, trade[e] # None, Checked(e),
           Execute(e), NEW p \in {e, trade[e].trader}
    PROVE  LET q == trade[p].trader IN Honoured(Agreed(p, q), p, q)
<1> DEFINE q == trade[p].trader
<1>1. /\ p \in Players /\ q \in Players \ {p}
      /\ trade[p] # None /\ trade[q] \in TradeData /\ trade[p] \in TradeData
  BY Partner, NullAssumption DEF TradeInv
<1>2. Agreed(p, q) = [mine |-> Offer(p), his |-> Offer(q)]
  BY AgreedOffers DEF Checked
<1>3. /\ inv'[p] = (inv[p] \ TradedItems(p)) \cup TradedItems(q)
      /\ money'[p] = money[p] - trade[p].money + trade[q].money
      /\ CanStoreItems(p)
      /\ (TradedItems(p) \cup TradedItems(q)) \cap bound = {}
  BY ExecuteEffect
<1> HIDE DEF q
<1>4. /\ Agreed(p, q).mine.money = trade[p].money
      /\ Agreed(p, q).his.money = trade[q].money
      /\ Agreed(p, q).mine.items = trade[p].items
      /\ Agreed(p, q).his.items = trade[q].items
  BY <1>2 DEF Offer
<1>5. /\ TradedItems(p) = inv[p] \cap {trade[p].items[s] : s \in Slots}
      /\ TradedItems(q) = inv[q] \cap {trade[q].items[s] : s \in Slots}
  BY DEF TradedItems
<1>6. inv[p] \cap inv[q] = {}
  BY <1>1 DEF OwnedOnce
<1>7. inv'[p] \ inv[p] = TradedItems(q) /\ inv[p] \ inv'[p] = TradedItems(p)
  BY <1>3, <1>5, <1>6
<1>8. Cardinality(inv'[p]) <= Capacity
  <2>1. inv \in [Players -> SUBSET Items] /\ IsFiniteSet(Items)
    BY TradeAssumption DEF TradeInv, PairsMatch, TypeOK
  <2>2. IsFiniteSet(inv[p] \ TradedItems(p)) /\ IsFiniteSet(TradedItems(q))
    <3>1. inv[p] \ TradedItems(p) \subseteq Items /\ TradedItems(q) \subseteq Items
      BY <1>1, <1>5, <2>1
    <3> QED BY <2>1, <3>1, FS_Subset
  <2> DEFINE A == inv[p] \ TradedItems(p)
             B == TradedItems(q)
  <2>3. Cardinality(A) + Cardinality(B) <= Capacity
    BY <1>3 DEF CanStoreItems, q
  <2>4. /\ IsFiniteSet(A) /\ IsFiniteSet(B)
    BY <2>2
  <2> HIDE DEF A, B
  <2>5. /\ IsFiniteSet(A \cap B)
    BY <2>4, FS_Intersection
  <2>6. Cardinality(A \cup B) = Cardinality(A) + Cardinality(B) - Cardinality(A \cap B)
    BY <2>4, FS_Union
  <2>7. /\ Cardinality(A) \in Nat /\ Cardinality(B) \in Nat /\ Cardinality(A \cap B) \in Nat
        /\ Capacity \in Nat
    BY <2>4, <2>5, FS_CardinalityType, TradeAssumption
  <2>8. Cardinality(A \cup B) <= Capacity
    BY <2>3, <2>6, <2>7
  <2>9. inv'[p] = A \cup B
    BY <1>3 DEF A, B
  <2> QED BY <2>8, <2>9
<1>9. Honoured(Agreed(p, q), p, q)
  BY <1>3, <1>4, <1>5, <1>7, <1>8 DEF Honoured
<1> QED BY <1>9 DEF q

\* When items and money change hands, each player gets what the first to accept
\* saw, less what has left the inventories since, with room for it, no soulbound
\* item among it, and no money lost at the maximum (HandleAcceptTradeOpcode).
THEOREM TradesFair == Spec => FairExchange
<1>1. TradeInv /\ OwnedOnce /\ [Next]_vars =>
        [\A p, q \in Players : Exchanged(p, q) =>
            /\ seen[p] # None \/ seen[q] # None
            /\ Honoured(Agreed(p, q), p, q)]_vars
  <2> SUFFICES ASSUME TradeInv, OwnedOnce, [Next]_vars,
                      NEW p \in Players, NEW q \in Players, Exchanged(p, q)
               PROVE  /\ seen[p] # None \/ seen[q] # None
                      /\ Honoured(Agreed(p, q), p, q)
    OBVIOUS
  <2>1. PICK e \in Players : trade[e] # None /\ Checked(e) /\ Execute(e)
    BY StepCases DEF Exchanged
  <2>2. p \in {e, trade[e].trader} /\ trade[p].trader = q
    BY <2>1, ExecuteOthers DEF Exchanged
  <2>3. trade[trade[e].trader].accepted
    BY <2>1 DEF Checked
  <2> QED BY <2>1, <2>2, <2>3, AgreedOffers, ExecuteHonours
<1> QED BY <1>1, TradeInvHolds, OwnedOnceHolds, PTL DEF Spec, FairExchange

=============================================================================
