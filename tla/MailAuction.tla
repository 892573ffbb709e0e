----------------------------- MODULE MailAuction -----------------------------
(***************************************************************************)
(* Mail, auctions and inventories, in memory and in the character database. *)
(*                                                                          *)
(* Every handler runs in the world thread (PROCESS_THREADUNSAFE) and is one *)
(* step: it changes memory and commits one transaction, which waits in the  *)
(* queue of the asynchronous connection until a database worker executes    *)
(* it.  CharacterDatabase.WorkerThreads is 1: transactions execute in the   *)
(* order in which they were committed.  Mailboxes are read past the queue,  *)
(* on a synchronous connection.  A crash loses memory and queue.            *)
(*                                                                          *)
(* Stacks, bags, subjects, faction and level checks, and the time at which  *)
(* a mail is delivered or an auction runs out, are left out: both may       *)
(* happen at any time.                                                      *)
(***************************************************************************)
EXTENDS Integers, FiniteSets, Sequences, SequencesExt, FiniteSetsExt

CONSTANTS
    Players, Items,
    MailIds,        \* ids of mails, positive integers; their number bounds the
                    \* mails that exist at one time
    Capacity,       \* room in an inventory
    Away,           \* players who do not log in
    InitialMoney,   \* what a player owns when the server starts
    MaxPrice,       \* bound on the bids
    Postage, Deposit,
    CutPercent,     \* the cut of the auction house; at the default rate 5 or 15
    Buyouts,        \* the buyout prices sellers ask; 0: none
    MaxSent,        \* bound on the money and the COD of a mail
    MaxQueue,       \* bound on the transactions that wait
    PostToOnline,   \* whether items are posted to players who are in the world
    None

ASSUME MailAuctionAssumption ==
    /\ IsFiniteSet(Players) /\ IsFiniteSet(Items)
    /\ MailIds \subseteq Nat \ {0} /\ IsFiniteSet(MailIds)
    /\ Away \subseteq Players /\ InitialMoney \in [Players -> Nat]
    /\ {Capacity, MaxPrice, Postage, Deposit} \subseteq Nat /\ CutPercent \in 0..100
    /\ Buyouts \subseteq Nat /\ {MaxSent, MaxQueue} \subseteq Nat
    /\ PostToOnline \in BOOLEAN

VARIABLES
    online,     \* the players in the world
    inv,        \* the items of a player's inventory
    money,      \* his money
    updateQueue, \* m_itemUpdateQueue
    uState,     \* Item::uState of the items in inventories and update queues
    mails,      \* m_mail: the mails of a player who has opened his mailbox
    loaded,     \* m_mailsLoaded
    trash,      \* the mails in MAIL_STATE_DELETED
    auctions,   \* AuctionsMap, by the item that is for sale
    queue,      \* transactions and logins that wait for a database worker
    db,         \* the tables
    future,     \* the tables as they will be once all that waits is executed
    refused     \* a statement met a duplicate key; its transaction was rolled back

memory == <<online, inv, money, updateQueue, uState, mails, loaded, trash, auctions>>
vars == <<memory, queue, db, future, refused>>

Mail == [from : Players \cup {None},    \* None: the auction house
         to : Players, money : Nat, cod : Nat, items : SUBSET Items]

Auction == [owner : Players, bidder : Players \cup {None}, bid : Nat,
            buyout : Nat, deposit : Nat]

\* The tables a transaction writes.
Tables ==
    [inventory : [Items -> Players \cup {None}],   \* character_inventory
     instances : SUBSET Items,                     \* item_instance
     money     : [Players -> Nat],                 \* characters.money
     mail      : [MailIds -> Mail \cup {None}],    \* mail and mail_items
     auction   : [Items -> Auction \cup {None}]]   \* auctionhouse

ASSUME NullAssumption == None \notin Players \cup MailIds \cup Mail \cup Auction \cup Tables

NoMails == [m \in MailIds |-> None]

\* The auctions that may be under way when the server starts: players who are
\* away have bid for them.
Auctioned ==
    {[owner |-> p, bidder |-> q, bid |-> 1, buyout |-> b, deposit |-> Deposit] :
        p \in Players \ Away, q \in Away, b \in Buyouts \ {1}}

Init ==
    /\ online = {}
    /\ inv = [p \in Players |-> {}]
    /\ money = [p \in Players |-> 0]
    /\ updateQueue = [p \in Players |-> {}]
    /\ uState = [i \in Items |-> "unchanged"]
    /\ mails = [p \in Players |-> NoMails]
    /\ loaded = {} /\ trash = {}
    /\ auctions \in [Items -> Auctioned \cup {None}]
    /\ queue = <<>>
    /\ db = [inventory |-> [i \in Items |-> None],
             instances |-> {i \in Items : auctions[i] # None},
             money     |-> InitialMoney,
             mail      |-> NoMails,
             auction   |-> auctions]
    /\ future = db
    /\ refused = FALSE

-----------------------------------------------------------------------------
(***************************************************************************)
(* Statements and their execution                                           *)
(***************************************************************************)

Gold(p, m)           == [op |-> "gold", player |-> p, money |-> m]
Inventory(p, new, changed, removed) ==
    [op |-> "inventory", player |-> p, new |-> new, changed |-> changed,
     removed |-> removed]
Detach(i, new)       == [op |-> "detach", item |-> i, new |-> new]
InsertMail(id, mail) == [op |-> "insertMail", id |-> id, mail |-> mail]

\* Mutant: the row in mail_items stays.
UpdateMailMutant(id, mail, removed) ==
    [op |-> "updateMail", id |-> id, mail |-> mail, removed |-> {}]

UpdateMail(id, mail, removed) ==
    [op |-> "updateMail", id |-> id, mail |-> mail, removed |-> removed]

DeleteMails(ids, items) == [op |-> "deleteMails", ids |-> ids, items |-> items]
InsertAuction(i, a)  == [op |-> "insertAuction", item |-> i, auction |-> a]
UpdateAuction(i, a)  == [op |-> "updateAuction", item |-> i, auction |-> a]
DeleteAuction(i)     == [op |-> "deleteAuction", item |-> i]

\* A duplicate key: character_inventory has the primary key item, auctionhouse
\* the unique key itemguid.
Duplicate(d, s) ==
    \/ s.op = "inventory" /\ \E i \in s.new : d.inventory[i] # None
    \/ s.op = "insertMail" /\ d.mail[s.id] # None
    \/ s.op = "insertAuction" /\ d.auction[s.item] # None

\* What a statement, or the statements of one helper, does to the tables.  An
\* UPDATE or DELETE of a row that is not there does nothing.
Apply(d, s) ==
    CASE s.op = "gold" -> [d EXCEPT !.money[s.player] = s.money]
      [] s.op = "inventory" ->
           [d EXCEPT
              !.inventory = [i \in Items |->
                 IF i \in s.new \/ (i \in s.changed /\ d.inventory[i] # None)
                   THEN s.player
                   ELSE IF i \in s.removed THEN None ELSE d.inventory[i]],
              !.instances = (@ \cup s.new) \ s.removed]
      [] s.op = "detach" ->
           [d EXCEPT !.inventory[s.item] = None,
                     !.instances = IF s.new THEN @ \cup {s.item} ELSE @]
      [] s.op = "insertMail" -> [d EXCEPT !.mail[s.id] = s.mail]
      [] s.op = "updateMail" ->
           [d EXCEPT !.mail = [id \in MailIds |->
              IF d.mail[id] = None THEN None
              ELSE IF id = s.id
                THEN [d.mail[id] EXCEPT !.money = s.mail.money, !.cod = s.mail.cod,
                                        !.items = @ \ s.removed]
                ELSE [d.mail[id] EXCEPT !.items = @ \ s.removed]]]
      [] s.op = "deleteMails" ->
           [d EXCEPT !.mail = [id \in MailIds |->
                                 IF id \in s.ids THEN None ELSE d.mail[id]],
                     !.instances = @ \ s.items]
      [] s.op = "insertAuction" -> [d EXCEPT !.auction[s.item] = s.auction]
      [] s.op = "updateAuction" ->
           [d EXCEPT !.auction[s.item] = IF @ = None THEN None ELSE s.auction]
      [] s.op = "deleteAuction" -> [d EXCEPT !.auction[s.item] = None]

\* A transaction: all of its statements or, after a duplicate key, none.
Execute(d, trans) ==
    LET after[n \in 0..Len(trans)] ==
            IF n = 0 THEN d
            ELSE IF after[n - 1] = None \/ Duplicate(after[n - 1], trans[n]) THEN None
            ELSE Apply(after[n - 1], trans[n])
    IN  after[Len(trans)]

\* CommitTransaction.  MaxQueue bounds the transactions that wait.
Commit(trans) ==
    /\ Cardinality({k \in DOMAIN queue : queue[k].login = None}) < MaxQueue
    /\ queue' = Append(queue, [trans |-> trans, login |-> None])
    /\ future' = LET d == Execute(future, trans) IN IF d = None THEN future ELSE d

-----------------------------------------------------------------------------
(***************************************************************************)
(* Inventories and the update queue                                         *)
(***************************************************************************)

HasEnoughMoney(p, m) == money[p] >= m

\* Item::SetState for an item that is saved later: a new item stays new.
Touched(state) == IF state = "new" THEN "new" ELSE "changed"

\* _SaveInventory writes what is in the update queue and empties it.  Its check
\* for a corrupt queue finds nothing: UpdateQueueSound.  The caller says in
\* pending what is in the queue when it is called.
SaveInventory(p, pending, state) ==
    IF pending = {} THEN <<>>
    ELSE << Inventory(p, {i \in pending : state[i] = "new"},
                         {i \in pending : state[i] = "changed"},
                         {i \in pending : state[i] = "removed"}) >>

SaveInventoryAndGold(p, pending, state, m) ==
    SaveInventory(p, pending, state) \o << Gold(p, m) >>

\* What is in the update queues of ps is saved and unchanged from then on.
Saved(ps, pending, state) ==
    /\ updateQueue' = [p \in Players |-> IF p \in ps THEN {} ELSE pending[p]]
    /\ uState' = [i \in Items |->
                    IF \E p \in ps : i \in pending[p] THEN "unchanged" ELSE state[i]]

\* _SaveMail writes the deleted mails out; the changed one is the caller's.
Deleted(p) == {id \in trash : mails[p][id] # None}

SaveMail(p) ==
    IF Deleted(p) = {} THEN <<>>
    ELSE << DeleteMails(Deleted(p), UNION {mails[p][id].items : id \in Deleted(p)}) >>

-----------------------------------------------------------------------------
(***************************************************************************)
(* MailDraft                                                                *)
(***************************************************************************)

InUse(id) ==
    \/ db.mail[id] # None
    \/ \E p \in Players : mails[p][id] # None
    \/ \E k \in DOMAIN queue : \E n \in DOMAIN queue[k].trans :
          LET s == queue[k].trans[n] IN s.op = "insertMail" /\ s.id = id

\* GenerateMailID: ids that nothing refers to.
FreeIds == SetToSeq({id \in MailIds : ~InUse(id)})

Draft(from, to, m, cod, items) ==
    [from |-> from, to |-> to, money |-> m, cod |-> cod, items |-> items]

\* SendMailTo: a row, and an entry in the list of a receiver who has opened his
\* mailbox; any other receiver reads the row when he opens it.
InsertMails(ids, drafts) == [k \in DOMAIN drafts |-> InsertMail(ids[k], drafts[k])]

SendMailTo(boxes, ids, drafts) ==
    /\ Len(drafts) <= Len(ids)
    /\ mails' = [p \in Players |-> [id \in MailIds |->
           LET sent == {k \in DOMAIN drafts : ids[k] = id /\ drafts[k].to = p}
           IN  IF p \in loaded /\ sent # {} THEN drafts[CHOOSE k \in sent : TRUE]
                                            ELSE boxes[p][id]]]

-----------------------------------------------------------------------------
(***************************************************************************)
(* The mail handlers                                                        *)
(***************************************************************************)

\* The sender pays for the money and the postage, and the item leaves his
\* inventory.  SetState is called when the item has its new owner: one who is in
\* the world gets it into his update queue, where SaveToDB leaves it.
HandleSendMail(p, q, items, m, cod) ==
    LET ids     == FreeIds
        drafts  == << Draft(p, q, m, cod, items) >>
        pending == [updateQueue EXCEPT
                      ![p] = @ \ items,
                      ![q] = IF q \in online THEN @ \cup items ELSE @]
        state   == [i \in Items |-> IF i \in items THEN "unchanged" ELSE uState[i]]
    IN  /\ p \in online /\ q # p
        /\ items \subseteq inv[p] /\ (items = {} => cod = 0)
        /\ items # {} /\ q \in online => PostToOnline
        /\ HasEnoughMoney(p, Postage + m)
        /\ inv' = [inv EXCEPT ![p] = @ \ items]
        /\ money' = [money EXCEPT ![p] = @ - Postage - m]
        /\ SendMailTo(mails, ids, drafts)
        /\ Saved({p}, pending, state)
        /\ Commit(   SetToSeq({Detach(i, uState[i] = "new") : i \in items})
                  \o InsertMails(ids, drafts)
                  \o SaveInventoryAndGold(p, pending[p], state, money'[p]))
        /\ UNCHANGED <<online, loaded, trash, auctions, db, refused>>

Readable(p, id) == p \in loaded /\ mails[p][id] # None /\ id \notin trash

\* The mailbox after _SaveMail, with mail at id.
Emptied(p, id, mail) ==
    [mails EXCEPT ![p] = [k \in MailIds |->
        IF k \in Deleted(p) THEN None ELSE IF k = id THEN mail ELSE @[k]]]

\* Mutant: the item keeps its state, as if it had a row.
TakenStateMutant(i) == [uState EXCEPT ![i] = "changed"]

\* MoveItemToInventory: an item that comes from outside the inventories is new.
TakenState(i) == [uState EXCEPT ![i] = "new"]

\* A COD is paid with a mail to the sender.
HandleMailTakeItem(p, id, i) ==
    LET ids     == FreeIds
        mail    == mails[p][id]
        taken   == [mail EXCEPT !.cod = 0, !.items = @ \ {i}]
        drafts  == IF mail.cod > 0 THEN << Draft(p, mail.from, mail.cod, 0, {}) >>
                                   ELSE <<>>
        pending == [updateQueue EXCEPT ![p] = @ \cup {i}]
    IN  /\ Readable(p, id) /\ i \in mail.items
        /\ HasEnoughMoney(p, mail.cod)
        /\ Cardinality(inv[p]) < Capacity
        /\ inv' = [inv EXCEPT ![p] = @ \cup {i}]
        /\ money' = [money EXCEPT ![p] = @ - mail.cod]
        /\ SendMailTo(Emptied(p, id, taken), ids, drafts)
        /\ trash' = trash \ Deleted(p)
        /\ Saved({p}, pending, TakenState(i))
        /\ Commit(   InsertMails(ids, drafts)
                  \o SaveInventoryAndGold(p, pending[p], TakenState(i), money'[p])
                  \o << UpdateMail(id, taken, {i}) >> \o SaveMail(p))
        /\ UNCHANGED <<online, loaded, auctions, db, refused>>

\* Money and mail are saved together.
HandleMailTakeMoney(p, id) ==
    LET taken == [mails[p][id] EXCEPT !.money = 0]
    IN  /\ Readable(p, id) /\ mails[p][id].money > 0
        /\ money' = [money EXCEPT ![p] = @ + mails[p][id].money]
        /\ mails' = Emptied(p, id, taken)
        /\ trash' = trash \ Deleted(p)
        /\ Commit(<< Gold(p, money'[p]), UpdateMail(id, taken, {}) >> \o SaveMail(p))
        /\ UNCHANGED <<online, inv, updateQueue, uState, loaded, auctions, db,
                       refused>>

\* A mail of the auction house is not returned: it is gone with what is in it.
HandleMailReturnToSender(p, id) ==
    LET ids    == FreeIds
        mail   == mails[p][id]
        drafts == IF mail.from = None THEN <<>>
                  ELSE << Draft(p, mail.from, mail.money, 0, mail.items) >>
    IN  /\ Readable(p, id)
        /\ SendMailTo([mails EXCEPT ![p][id] = None], ids, drafts)
        /\ Commit(<< DeleteMails({id}, {}) >> \o InsertMails(ids, drafts))
        /\ UNCHANGED <<online, inv, money, updateQueue, uState, loaded, trash,
                       auctions, db, refused>>

\* The row goes with the next _SaveMail.
HandleMailDelete(p, id) ==
    /\ Readable(p, id) /\ mails[p][id].cod = 0
    /\ trash' = trash \cup {id}
    /\ UNCHANGED <<online, inv, money, updateQueue, uState, mails, loaded, auctions,
                   queue, db, future,
                   refused>>

\* _LoadMail reads the tables as they are, past the transactions that wait.
HandleGetMailList(p) ==
    /\ p \in online \ loaded
    /\ loaded' = loaded \cup {p}
    /\ mails' = [mails EXCEPT ![p] = [id \in MailIds |->
           IF db.mail[id] # None /\ db.mail[id].to = p
             THEN [db.mail[id] EXCEPT !.items = @ \cap db.instances] ELSE None]]
    /\ UNCHANGED <<online, inv, money, updateQueue, uState, trash, auctions, queue,
                   db, future, refused>>

-----------------------------------------------------------------------------
(***************************************************************************)
(* The auction house                                                        *)
(***************************************************************************)

GetAuctionCut(bid) == (bid * CutPercent) \div 100

GetAuctionOutBid(bid) ==
    LET step == (bid \div 100) * 5 IN IF step = 0 THEN 1 ELSE step

HandleAuctionSellItem(p, i, buyout) ==
    LET auction == [owner |-> p, bidder |-> None, bid |-> 0, buyout |-> buyout,
                    deposit |-> Deposit]
        pending == [updateQueue EXCEPT ![p] = @ \ {i}]
        state   == [uState EXCEPT ![i] = "unchanged"]
    IN  /\ p \in online /\ i \in inv[p] /\ auctions[i] = None
        /\ HasEnoughMoney(p, Deposit)
        /\ inv' = [inv EXCEPT ![p] = @ \ {i}]
        /\ money' = [money EXCEPT ![p] = @ - Deposit]
        /\ auctions' = [auctions EXCEPT ![i] = auction]
        /\ Saved({p}, pending, state)
        /\ Commit(   << Detach(i, uState[i] = "new"), InsertAuction(i, auction) >>
                  \o SaveInventoryAndGold(p, pending[p], state, money'[p]))
        /\ UNCHANGED <<online, mails, loaded, trash, db, refused>>

\* Mutant: the last bidder is forgotten.
OutbiddedMailMutant(a, p) == <<>>

\* SendAuctionOutbiddedMail: the last bidder gets his money back, unless he bids
\* again himself.
OutbiddedMail(a, p) ==
    IF a.bidder \in {None, p} THEN <<>> ELSE << Draft(None, a.bidder, a.bid, 0, {}) >>

\* SendAuctionSuccessfulMail and SendAuctionWonMail.
SoldMails(a, i) ==
    << Draft(None, a.owner, a.bid + a.deposit - GetAuctionCut(a.bid), 0, {}),
       Draft(None, a.bidder, 0, 0, {i}) >>

\* A bid, or the buyout when the price reaches it.
HandleAuctionPlaceBid(p, i, price) ==
    LET ids    == FreeIds
        a      == auctions[i]
        buyout == a.buyout > 0 /\ price >= a.buyout
        bid    == [a EXCEPT !.bidder = p, !.bid = IF buyout THEN a.buyout ELSE price]
        drafts == OutbiddedMail(a, p) \o (IF buyout THEN SoldMails(bid, i) ELSE <<>>)
    IN  /\ p \in online /\ a # None /\ a.owner # p
        /\ price > a.bid /\ HasEnoughMoney(p, price)
        /\ buyout \/ price >= a.bid + GetAuctionOutBid(a.bid)
        /\ money' = [money EXCEPT
                       ![p] = @ - (IF a.bidder = p THEN bid.bid - a.bid ELSE bid.bid)]
        /\ auctions' = [auctions EXCEPT ![i] = IF buyout THEN None ELSE bid]
        /\ SendMailTo(mails, ids, drafts)
        /\ Saved({p}, updateQueue, uState)
        /\ Commit(   InsertMails(ids, drafts)
                  \o << IF buyout THEN DeleteAuction(i) ELSE UpdateAuction(i, bid) >>
                  \o SaveInventoryAndGold(p, updateQueue[p], uState, money'[p]))
        /\ UNCHANGED <<online, inv, loaded, trash, db, refused>>

\* The seller takes his item back; a bidder gets his money back at the seller's
\* expense of the auction house's cut.
HandleAuctionRemoveItem(p, i) ==
    LET ids    == FreeIds
        a      == auctions[i]
        cut    == IF a.bidder = None THEN 0 ELSE GetAuctionCut(a.bid)
        drafts == OutbiddedMail(a, None) \o << Draft(None, p, 0, 0, {i}) >>
    IN  /\ p \in online /\ a # None /\ a.owner = p
        /\ HasEnoughMoney(p, cut)
        /\ money' = [money EXCEPT ![p] = @ - cut]
        /\ auctions' = [auctions EXCEPT ![i] = None]
        /\ SendMailTo(mails, ids, drafts)
        /\ Saved({p}, updateQueue, uState)
        /\ Commit(   InsertMails(ids, drafts)
                  \o SaveInventoryAndGold(p, updateQueue[p], uState, money'[p])
                  \o << DeleteAuction(i) >>)
        /\ UNCHANGED <<online, inv, loaded, trash, db, refused>>

\* AuctionHouseObject::Update finds an auction over.
AuctionExpires(i) ==
    LET ids    == FreeIds
        a      == auctions[i]
        drafts == IF a.bidder = None THEN << Draft(None, a.owner, 0, 0, {i}) >>
                                     ELSE SoldMails(a, i)
    IN  /\ a # None
        /\ auctions' = [auctions EXCEPT ![i] = None]
        /\ SendMailTo(mails, ids, drafts)
        /\ Commit(InsertMails(ids, drafts) \o << DeleteAuction(i) >>)
        /\ UNCHANGED <<online, inv, money, updateQueue, uState, loaded, trash, db,
                       refused>>

-----------------------------------------------------------------------------
(***************************************************************************)
(* Items in play                                                            *)
(***************************************************************************)

\* An item that has a place: in memory or in the tables to come.
Known(i) ==
    \/ \E p \in Players : i \in inv[p] \cup updateQueue[p]
    \/ future.inventory[i] # None \/ future.auction[i] # None
    \/ \E id \in MailIds : future.mail[id] # None /\ i \in future.mail[id].items

\* A player finds, buys or makes an item.
StoreNewItem(p, i) ==
    /\ p \in online /\ Cardinality(inv[p]) < Capacity
    /\ ~Known(i) /\ db.inventory[i] = None /\ i \notin db.instances
    /\ inv' = [inv EXCEPT ![p] = @ \cup {i}]
    /\ uState' = [uState EXCEPT ![i] = "new"]
    /\ updateQueue' = [updateQueue EXCEPT ![p] = @ \cup {i}]
    /\ UNCHANGED <<online, money, mails, loaded, trash, auctions, queue, db, future,
                   refused>>

\* An item is moved, used or enchanted.
ChangeItem(p, i) ==
    /\ p \in online /\ i \in inv[p] /\ uState[i] = "unchanged"
    /\ uState' = [uState EXCEPT ![i] = "changed"]
    /\ updateQueue' = [updateQueue EXCEPT ![p] = @ \cup {i}]
    /\ UNCHANGED <<online, inv, money, mails, loaded, trash, auctions, queue, db, future,
                   refused>>

\* An item is sold or destroyed: SetState(ITEM_REMOVED).  A new one has left no
\* trace; the row of another goes with the next save.
DestroyItem(p, i) ==
    /\ p \in online /\ i \in inv[p]
    /\ inv' = [inv EXCEPT ![p] = @ \ {i}]
    /\ IF uState[i] = "new"
         THEN /\ uState' = [uState EXCEPT ![i] = "unchanged"]
              /\ updateQueue' = [updateQueue EXCEPT ![p] = @ \ {i}]
         ELSE /\ uState' = [uState EXCEPT ![i] = "removed"]
              /\ updateQueue' = [updateQueue EXCEPT ![p] = @ \cup {i}]
    /\ UNCHANGED <<online, money, mails, loaded, trash, auctions, queue, db, future,
                   refused>>

\* MoveItemToInventory: the row of a traded item is in another inventory, and a
\* new item has none yet.
TradedState(i) == [uState EXCEPT ![i] = Touched(@)]

\* What HandleAcceptTradeOpcode does in the end: p's item for q's money.
TradeItem(p, q, i, m) ==
    LET pending == [updateQueue EXCEPT ![p] = @ \ {i}, ![q] = @ \cup {i}]
        state   == TradedState(i)
    IN  /\ {p, q} \subseteq online /\ p # q
        /\ i \in inv[p] /\ Cardinality(inv[q]) < Capacity /\ HasEnoughMoney(q, m)
        /\ inv' = [inv EXCEPT ![p] = @ \ {i}, ![q] = @ \cup {i}]
        /\ money' = [money EXCEPT ![p] = @ + m, ![q] = @ - m]
        /\ Saved({p, q}, pending, state)
        /\ Commit(   SaveInventoryAndGold(p, pending[p], state, money'[p])
                  \o SaveInventoryAndGold(q, pending[q], state, money'[q]))
        /\ UNCHANGED <<online, mails, loaded, trash, auctions, db, refused>>

-----------------------------------------------------------------------------
(***************************************************************************)
(* Saving, leaving and coming back                                          *)
(***************************************************************************)

SaveAll(p) ==
    << Gold(p, money[p]) >> \o SaveMail(p) \o SaveInventory(p, updateQueue[p], uState)

\* Player::SaveToDB, from time to time.
SaveToDB(p) ==
    /\ p \in online
    /\ updateQueue[p] # {} \/ Deleted(p) # {}
    /\ Saved({p}, updateQueue, uState)
    /\ mails' = Emptied(p, None, None)
    /\ trash' = trash \ Deleted(p)
    /\ Commit(SaveAll(p))
    /\ UNCHANGED <<online, inv, money, loaded, auctions, db, refused>>

LogoutPlayer(p) ==
    /\ p \in online
    /\ online' = online \ {p} /\ loaded' = loaded \ {p}
    /\ inv' = [inv EXCEPT ![p] = {}]
    /\ money' = [money EXCEPT ![p] = 0]
    /\ mails' = [mails EXCEPT ![p] = NoMails]
    /\ trash' = trash \ Deleted(p)
    /\ Saved({p}, updateQueue, uState)
    /\ Commit(SaveAll(p))
    /\ UNCHANGED <<auctions, db, refused>>

\* HandlePlayerLoginOpcode: the LoginQueryHolder waits behind the transactions.
HandlePlayerLogin(p) ==
    /\ p \notin online \cup Away /\ \A k \in DOMAIN queue : queue[k].login # p
    /\ queue' = Append(queue, [trans |-> <<>>, login |-> p])
    /\ UNCHANGED <<memory, db, future, refused>>

\* What Player::LoadFromDB finds; nobody else writes these rows meanwhile.
LoadFromDB(p) ==
    /\ online' = online \cup {p}
    /\ inv' = [inv EXCEPT ![p] = {i \in db.instances : db.inventory[i] = p}]
    /\ money' = [money EXCEPT ![p] = db.money[p]]
    /\ UNCHANGED <<updateQueue, uState, mails, loaded, trash, auctions, db, refused>>

\* Mutant: with several worker threads any task may be executed first.
ExecuteTaskMutant ==
    \E k \in DOMAIN queue :
        /\ queue' = RemoveAt(queue, k)
        /\ IF queue[k].login # None
             THEN LoadFromDB(queue[k].login)
             ELSE LET d == Execute(db, queue[k].trans)
                  IN  /\ db' = IF d = None THEN db ELSE d
                      /\ refused' = (refused \/ d = None)
                      /\ UNCHANGED memory
        /\ UNCHANGED future

\* The database worker.
ExecuteTask ==
    /\ queue # <<>>
    /\ queue' = Tail(queue)
    /\ IF Head(queue).login # None
         THEN LoadFromDB(Head(queue).login)
         ELSE LET d == Execute(db, Head(queue).trans)
              IN  /\ db' = IF d = None THEN db ELSE d
                  /\ refused' = (refused \/ d = None)
                  /\ UNCHANGED memory
    /\ UNCHANGED future

\* The server dies and comes back: LoadAuctions reads the auctions whose items exist.
Crash ==
    /\ online' = {} /\ loaded' = {} /\ trash' = {} /\ queue' = <<>> /\ future' = db
    /\ inv' = [p \in Players |-> {}]
    /\ money' = [p \in Players |-> 0]
    /\ updateQueue' = [p \in Players |-> {}]
    /\ uState' = [i \in Items |-> "unchanged"]
    /\ mails' = [p \in Players |-> NoMails]
    /\ auctions' = [i \in Items |-> IF i \in db.instances THEN db.auction[i] ELSE None]
    /\ UNCHANGED <<db, refused>>

Next ==
    \/ \E p \in Players :
        \/ \E q \in Players : \E items \in {{}} \cup {{i} : i \in Items} :
              \E m, cod \in 0..MaxSent : HandleSendMail(p, q, items, m, cod)
        \/ \E id \in MailIds :
              \/ \E i \in Items : HandleMailTakeItem(p, id, i)
              \/ HandleMailTakeMoney(p, id) \/ HandleMailReturnToSender(p, id)
              \/ HandleMailDelete(p, id)
        \/ HandleGetMailList(p)
        \/ \E i \in Items :
              \/ \E buyout \in Buyouts : HandleAuctionSellItem(p, i, buyout)
              \/ \E price \in 1..MaxPrice : HandleAuctionPlaceBid(p, i, price)
              \/ HandleAuctionRemoveItem(p, i)
              \/ StoreNewItem(p, i) \/ ChangeItem(p, i) \/ DestroyItem(p, i)
              \/ \E q \in Players : \E m \in 0..MaxSent : TradeItem(p, q, i, m)
        \/ SaveToDB(p) \/ LogoutPlayer(p) \/ HandlePlayerLogin(p)
    \/ \E i \in Items : AuctionExpires(i)
    \/ ExecuteTask
    \/ Crash

Spec == Init /\ [][Next]_vars

-----------------------------------------------------------------------------
(***************************************************************************)
(* Properties                                                               *)
(***************************************************************************)

\* The variables have their types; no money is ever negative.
TypeOK ==
    /\ online \subseteq Players /\ loaded \subseteq online
    /\ inv \in [Players -> SUBSET Items]
    /\ money \in [Players -> Nat]
    /\ updateQueue \in [Players -> SUBSET Items]
    /\ uState \in [Items -> {"new", "changed", "removed", "unchanged"}]
    /\ \A p \in Players : \A id \in MailIds : mails[p][id] \in {None} \cup Mail
    /\ trash \subseteq MailIds
    /\ auctions \in [Items -> Auction \cup {None}]
    /\ db.money \in [Players -> Nat]
    /\ refused \in BOOLEAN

Places(d, i) ==
      (IF d.inventory[i] = None THEN 0 ELSE 1)
    + (IF d.auction[i] = None THEN 0 ELSE 1)
    + Cardinality({id \in MailIds : d.mail[id] # None /\ i \in d.mail[id].items})

\* In the tables, as they are whenever the server may die, an item is in one
\* inventory, one mail or one auction and never in two, and what has a place has
\* a row in item_instance.
OnePlace ==
    /\ TypeOK
    /\ \A i \in Items :
          Places(db, i) <= 1 /\ (Places(db, i) = 1 => i \in db.instances)

\* The item must be removed from the queue manually, says Item::SetState: what
\* is in an update queue belongs to that player, or was removed by him.
UpdateQueueSound ==
    \A p \in Players : \A i \in updateQueue[p] :
        i \in inv[p] \/ uState[i] = "removed"

\* Once the transactions that wait are executed, the tables hold what memory
\* holds: the money and the items of every player in the world, up to what his
\* update queue will say, the auctions, and every mail in an open mailbox.  No
\* transaction is rolled back for a duplicate key, and no update queue holds
\* another player's item, for which _SaveInventory would give up the rest.
Durable ==
    LET d == future
    IN  /\ ~refused /\ UpdateQueueSound
        /\ queue = <<>> => db = d
        /\ auctions = d.auction
        /\ \A p \in online :
              /\ money[p] = d.money[p]
              /\ {i \in Items : d.inventory[i] = p} =
                    {i \in inv[p] : uState[i] # "new"} \cup
                    {i \in updateQueue[p] : uState[i] = "removed"}
              /\ \A i \in inv[p] : uState[i] # "unchanged" => i \in updateQueue[p]
        /\ \A p \in loaded : \A id \in MailIds :
              mails[p][id] # None => d.mail[id] = mails[p][id]

\* Mails that a player throws away: deleted, or returned to the auction house.
Discarded ==
    {id \in MailIds :
        /\ future.mail[id] # None /\ future'.mail[id] = None
        /\ id \in trash \/ future.mail[id].from = None}

Wealth(d) ==
      MapThenSumSet(LAMBDA p : d.money[p], Players)
    + MapThenSumSet(LAMBDA id : IF d.mail[id] = None THEN 0 ELSE d.mail[id].money, MailIds)
    + MapThenSumSet(LAMBDA i : IF d.auction[i] = None THEN 0
                               ELSE d.auction[i].bid + d.auction[i].deposit, Items)

\* What a step may cost: the end of an auction its deposit or the cut, or both
\* if it is cancelled; a bid or a sale nothing; a mail its postage.
Fees ==
    LET ended == {i \in Items : future.auction[i] # None /\ future'.auction[i] = None}
    IN  IF ended # {}
          THEN UNION {LET a == future.auction[i]
                      IN  {a.deposit, a.deposit + GetAuctionCut(a.bid),
                           GetAuctionCut(a.bid), GetAuctionCut(a.buyout)} : i \in ended}
          ELSE IF future'.auction # future.auction THEN {0} ELSE {0, Postage}

\* Whatever is posted, bid, outbid, sold, taken back or returned, no money is made
\* and none is lost, but for the fees and what a player throws away; and a crash
\* pays nobody: the tables never hold more money than before.
MoneyConserved ==
    /\ [][future' # future /\ ~Crash =>
            \E fee \in Fees :
               Wealth(future) = Wealth(future') + fee +
                  MapThenSumSet(LAMBDA id : future.mail[id].money, Discarded)]_vars
    /\ [][db' # db => Wealth(db') <= Wealth(db)]_vars

\* An item that has a place before a step has one after it, unless it was
\* destroyed or is thrown away with a mail.
KeepsItems ==
    \A i \in Items : Known(i) /\ ~Known(i)' =>
        \/ uState[i] = "removed"
        \/ uState[i] = "new" /\ queue' = queue
        \/ \E id \in Discarded : i \in future.mail[id].items

\* Without a crash no item is lost, but those that are destroyed or thrown away
\* with a mail.
ItemsKept == [][<<future, inv>>' # <<future, inv>> /\ ~Crash => KeepsItems]_vars

=============================================================================
