------------------------------- MODULE Trade -------------------------------
(***************************************************************************)
(* Trades between two players: TradeData and the opcode handlers of         *)
(* TradeHandler.cpp.  All of them are PROCESS_THREADUNSAFE, so that each    *)
(* handler is one step of the world thread; the packets of the players, and *)
(* what else happens to their items and money, come in any order.           *)
(*                                                                          *)
(* An inventory is a set of items of bounded size.  _spell is left out:     *)
(* nothing sets it to anything but 0.                                       *)
(***************************************************************************)
EXTENDS Integers, FiniteSets

CONSTANTS
    Players, Items,
    Slots,          \* the slots whose items change hands, TRADE_SLOT_TRADED_COUNT
    Nontraded,      \* TRADE_SLOT_NONTRADED
    Capacity,       \* room in an inventory
    MaxMoney,       \* MAX_MONEY_AMOUNT
    None

ASSUME TradeAssumption ==
    /\ Nontraded \notin Slots
    /\ None \notin Items /\ None \notin Players /\ IsFiniteSet(Items)
    /\ Capacity \in Nat /\ MaxMoney \in Nat \ {0}

VARIABLES
    online,     \* the players in the world
    trade,      \* m_trade: None or a TradeData
    inv,        \* the items a player carries
    money,      \* PLAYER_FIELD_COINAGE
    bound,      \* the items that are soulbound
    seen        \* the offers a player accepted, None while he accepts nothing

vars == <<online, trade, inv, money, bound, seen>>

TradeSlots == Slots \cup {Nontraded}

Empty == [s \in TradeSlots |-> None]

TradeData == [trader : Players, accepted : BOOLEAN, money : 0..MaxMoney,
              items : [TradeSlots -> Items \cup {None}]]

\* What two players offer each other.
OfferData == [money : 0..MaxMoney, items : [TradeSlots -> Items \cup {None}]]
Agreement == [mine : OfferData, his : OfferData]

\* A null pointer is not an object.
ASSUME NullAssumption == None \notin TradeData /\ None \notin Agreement

Init ==
    /\ online = Players
    /\ trade = [p \in Players |-> None]
    /\ inv \in [Players -> SUBSET Items]
    /\ \A p, q \in Players : p # q => inv[p] \cap inv[q] = {}
    /\ \A p \in Players : Cardinality(inv[p]) <= Capacity
    /\ money \in [Players -> 0..(MaxMoney - 1)]
    /\ bound = {}
    /\ seen = [p \in Players |-> None]

-----------------------------------------------------------------------------
(***************************************************************************)
(* TradeData                                                                *)
(***************************************************************************)

Trading(p) == p \in online /\ trade[p] # None

Offer(p) == [money |-> trade[p].money, items |-> trade[p].items]

Offers(p) == [mine |-> Offer(p), his |-> Offer(trade[p].trader)]

\* The items that change hands: GetItem finds those the player still carries.
TradedItems(p) == {trade[p].items[s] : s \in Slots} \cap inv[p]

\* An acceptance that is taken back, or whose trade is over, is forgotten.
Remember(agreed) ==
    seen' = [p \in Players |->
               IF trade'[p] # None /\ trade'[p].accepted THEN agreed[p] ELSE None]

\* Mutant: the trader's acceptance stands.
SetOfferMutant(p, data) == trade' = [trade EXCEPT ![p] = data]

\* What SetItem and SetMoney do in the end: both acceptances are void.
SetOffer(p, data) ==
    trade' = [trade EXCEPT ![p] = data, ![trade[p].trader].accepted = FALSE]

\* SetItem: nothing happens if the slot already holds it.
SetItem(p, s, i) ==
    /\ trade[p].items[s] # i
    /\ SetOffer(p, [trade[p] EXCEPT !.items[s] = i, !.accepted = FALSE])
    /\ Remember(seen)
    /\ UNCHANGED <<online, inv, money, bound>>

-----------------------------------------------------------------------------
(***************************************************************************)
(* The handlers                                                             *)
(***************************************************************************)

NewTrade(q) == [trader |-> q, accepted |-> FALSE, money |-> 0, items |-> Empty]

\* Nobody who is trading gets into another trade.  The other conditions (alive,
\* not stunned, near, of one faction, not ignored) may hold at any time.
HandleInitiateTrade(p, q) ==
    /\ p \in online /\ trade[p] = None
    /\ q \in online /\ q # p /\ trade[q] = None
    /\ trade' = [trade EXCEPT ![p] = NewTrade(q), ![q] = NewTrade(p)]
    /\ Remember(seen)
    /\ UNCHANGED <<online, inv, money, bound>>

HandleSetTradeGold(p, g) ==
    /\ Trading(p)
    /\ trade[p].money # g /\ money[p] >= g
    /\ SetOffer(p, [trade[p] EXCEPT !.money = g, !.accepted = FALSE])
    /\ Remember(seen)
    /\ UNCHANGED <<online, inv, money, bound>>

\* An item is offered in one slot only.
HandleSetTradeItem(p, s, i) ==
    /\ Trading(p)
    /\ i \in inv[p] /\ (s # Nontraded => i \notin bound)
    /\ \A t \in TradeSlots : trade[p].items[t] # i
    /\ SetItem(p, s, i)

HandleClearTradeItem(p, s) ==
    /\ Trading(p)
    /\ SetItem(p, s, None)

HandleUnacceptTrade(p) ==
    /\ Trading(p)
    /\ trade' = [trade EXCEPT ![p].accepted = FALSE]
    /\ Remember(seen)
    /\ UNCHANGED <<online, inv, money, bound>>

\* Player::TradeCancel.
EndTrade(p) == trade' = [trade EXCEPT ![p] = None, ![trade[p].trader] = None]

\* HandleCancelTradeOpcode, also when a flight starts.
TradeCancel(p) ==
    /\ Trading(p)
    /\ EndTrade(p)
    /\ Remember(seen)
    /\ UNCHANGED <<online, inv, money, bound>>

\* HandleAcceptTradeOpcode sets my acceptance first; a check that refuses leaves
\* a and b as the acceptances of the two.
Accepted(p, a, b) ==
    /\ trade' = [trade EXCEPT ![p].accepted = a, ![trade[p].trader].accepted = b]
    /\ Remember([seen EXCEPT ![p] = Offers(p)])
    /\ UNCHANGED <<online, inv, money, bound>>

HasEnoughMoney(p) == money[p] >= trade[p].money

\* Mutant: an off-by-one at the maximum.
TooMuchGoldMutant(p) == money[p] > MaxMoney - trade[trade[p].trader].money

TooMuchGold(p) == money[p] >= MaxMoney - trade[trade[p].trader].money

\* Player::CanStoreItems: the items that are in the trade give up their room.
CanStoreItems(p) ==
    Cardinality(inv[p] \ TradedItems(p)) + Cardinality(TradedItems(trade[p].trader))
        <= Capacity

\* Player::ModifyMoney twice: what is given, then what is received, which is
\* refused if it would reach the maximum.
ModifyMoney(m, given, received) ==
    IF m - given < MaxMoney - received THEN m - given + received ELSE m - given

\* Items and money change hands.  CanStoreItems has made sure that moveItems
\* finds room for every item, so that its way back is never taken.
Execute(p) ==
    LET q == trade[p].trader
    IN  /\ inv' = [inv EXCEPT
                     ![p] = (@ \ TradedItems(p)) \cup TradedItems(q),
                     ![q] = (@ \ TradedItems(q)) \cup TradedItems(p)]
        /\ money' = [money EXCEPT
                       ![p] = ModifyMoney(@, trade[p].money, trade[q].money),
                       ![q] = ModifyMoney(@, trade[q].money, trade[p].money)]
        /\ EndTrade(p)
        /\ Remember(seen)
        /\ UNCHANGED <<online, bound>>

\* The checks, in their order; far: the players are too far apart.
HandleAcceptTrade(p, far) ==
    /\ Trading(p)
    /\ LET q   == trade[p].trader
           his == trade[q].accepted
       IN  IF far \/ ~HasEnoughMoney(p) THEN Accepted(p, FALSE, his)
           ELSE IF ~HasEnoughMoney(q)   THEN Accepted(p, TRUE, FALSE)
           ELSE IF TooMuchGold(p)       THEN Accepted(p, FALSE, his)
           ELSE IF TooMuchGold(q)       THEN Accepted(p, TRUE, FALSE)
           ELSE IF (TradedItems(p) \cup TradedItems(q)) \cap bound # {} \/ ~his
                                        THEN Accepted(p, TRUE, his)
           ELSE IF CanStoreItems(p) /\ CanStoreItems(q)
                                        THEN Execute(p)
           ELSE Accepted(p, FALSE, FALSE)

-----------------------------------------------------------------------------
(***************************************************************************)
(* What happens besides                                                     *)
(***************************************************************************)

\* Mutant: CleanupsBeforeDelete forgets the trade.
LogoutPlayerMutant(p) ==
    /\ p \in online
    /\ online' = online \ {p}
    /\ trade' = [trade EXCEPT ![p] = None]
    /\ Remember(seen)
    /\ UNCHANGED <<inv, money, bound>>

LogoutPlayer(p) ==
    /\ p \in online
    /\ online' = online \ {p}
    /\ IF trade[p] = None THEN UNCHANGED trade ELSE EndTrade(p)
    /\ Remember(seen)
    /\ UNCHANGED <<inv, money, bound>>

LoginPlayer(p) ==
    /\ p \notin online
    /\ online' = online \cup {p}
    /\ UNCHANGED <<trade, inv, money, bound, seen>>

\* An item is sold, mailed, used up or destroyed; no trade hears of it.
LoseItem(p, i) ==
    /\ p \in online /\ i \in inv[p]
    /\ inv' = [inv EXCEPT ![p] = @ \ {i}]
    /\ UNCHANGED <<online, trade, money, bound, seen>>

\* An item becomes soulbound when it is equipped or enchanted.
BindItem(p, i) ==
    /\ p \in online /\ i \in inv[p] \ bound
    /\ bound' = bound \cup {i}
    /\ UNCHANGED <<online, trade, inv, money, seen>>

\* Money is spent or found elsewhere.
ChangeMoney(p, m) ==
    /\ p \in online /\ m # money[p]
    /\ money' = [money EXCEPT ![p] = m]
    /\ UNCHANGED <<online, trade, inv, bound, seen>>

Next ==
    \E p \in Players :
        \/ \E q \in Players : HandleInitiateTrade(p, q)
        \/ \E g \in 0..MaxMoney : HandleSetTradeGold(p, g)
        \/ \E s \in TradeSlots : \E i \in Items : HandleSetTradeItem(p, s, i)
        \/ \E s \in TradeSlots : HandleClearTradeItem(p, s)
        \/ HandleUnacceptTrade(p) \/ TradeCancel(p)
        \/ \E far \in BOOLEAN : HandleAcceptTrade(p, far)
        \/ LogoutPlayer(p) \/ LoginPlayer(p)
        \/ \E i \in Items : LoseItem(p, i) \/ BindItem(p, i)
        \/ \E m \in 0..(MaxMoney - 1) : ChangeMoney(p, m)

Spec == Init /\ [][Next]_vars

-----------------------------------------------------------------------------
(***************************************************************************)
(* Properties                                                               *)
(***************************************************************************)

\* The variables have their types; a balance stays below MAX_MONEY_AMOUNT.
TypeOK ==
    /\ online \subseteq Players
    /\ trade \in [Players -> TradeData \cup {None}]
    /\ inv \in [Players -> SUBSET Items]
    /\ money \in [Players -> 0..(MaxMoney - 1)]
    /\ bound \subseteq Items
    /\ seen \in [Players -> Agreement \cup {None}]

\* GetTraderData and GetTrader are followed without a check: the trader of a
\* trading player is in the world and trades with him.
PairsMatch ==
    /\ TypeOK
    /\ \A p \in Players :
          trade[p] # None =>
              LET q == trade[p].trader
              IN  /\ {p, q} \subseteq online /\ q # p
                  /\ trade[q] # None /\ trade[q].trader = p

\* An acceptance is for the offers as they were when it was given: whatever
\* either player changes afterwards takes both acceptances back.
AcceptedIsSeen ==
    \A p \in Players :
        trade[p] # None /\ trade[p].accepted => seen[p] = Offers(p)

\* What p and his trader q agreed on, as the first of the two to accept saw it.
Agreed(p, q) ==
    IF seen[p] # None THEN seen[p] ELSE [mine |-> seen[q].his, his |-> seen[q].mine]

\* Items or money change hands in the trade of p and q.
Exchanged(p, q) ==
    /\ p # q /\ trade[p] # None /\ trade[p].trader = q
    /\ trade'[p] # trade[p] /\ <<inv, money>>' # <<inv, money>>

\* What p has afterwards, if both get what deal says.
Honoured(deal, p, q) ==
    /\ money'[p] = money[p] - deal.mine.money + deal.his.money
    /\ inv'[p] \ inv[p] = inv[q] \cap {deal.his.items[s] : s \in Slots}
    /\ inv[p] \ inv'[p] = inv[p] \cap {deal.mine.items[s] : s \in Slots}
    /\ (inv'[p] \ inv[p]) \cap bound = {}
    /\ Cardinality(inv'[p]) <= Capacity

\* What changes hands when a trade ends is what the player who accepted first
\* had before him, less what its owner has parted with since; money is neither
\* made nor lost on the way, also next to the maximum, no soulbound item leaves
\* its owner, and each has room for what he gets (HandleAcceptTradeOpcode).
FairExchange ==
    [][\A p, q \in Players : Exchanged(p, q) =>
          /\ seen[p] # None \/ seen[q] # None
          /\ Honoured(Agreed(p, q), p, q)]_vars

=============================================================================
