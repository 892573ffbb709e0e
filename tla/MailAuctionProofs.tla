-------------------------- MODULE MailAuctionProofs --------------------------
(***************************************************************************)
(* Proofs about MailAuction: no item is ever in two places of the tables,   *)
(* once all that waits is executed the tables hold what memory holds, and   *)
(* no step but a crash loses an item.  They hold for any players, items,    *)
(* mails and prices, as long as no item is posted to a player who is in the *)
(* world.                                                                   *)
(***************************************************************************)
EXTENDS MailAuction, FiniteSetTheorems, SequenceTheorems, NaturalsInduction, TLAPS

-----------------------------------------------------------------------------
(***************************************************************************)
(* Where items are                                                          *)
(***************************************************************************)

\* The items that are in a mail or an auction.
Elsewhere(m, a) ==
    {i \in Items : a[i] # None \/ \E id \in MailIds : m[id] # None /\ i \in m[id].items}

\* No item is in two mails, or in a mail and an auction; a COD has a sender to
\* pay.
MailSound(m, a) ==
    /\ \A id \in MailIds : m[id] # None =>
          /\ m[id].cod > 0 => m[id].from # None
          /\ \A i \in m[id].items : a[i] = None
    /\ \A k, l \in MailIds : \A i \in Items :
          m[k] # None /\ m[l] # None /\ i \in m[k].items /\ i \in m[l].items => k = l

\* No item is in an inventory and elsewhere, and what has a place has an instance.
PlacesSound(inventory, instances, elsewhere) ==
    \A i \in Items :
        /\ inventory[i] # None => i \notin elsewhere
        /\ inventory[i] # None \/ i \in elsewhere => i \in instances

\* Tables in which every item has one place.
Sound(d) ==
    /\ MailSound(d.mail, d.auction)
    /\ PlacesSound(d.inventory, d.instances, Elsewhere(d.mail, d.auction))

\* What memory knows of the items, in inventories iv, update queues uq and states
\* us, and the inventory table V: an item belongs to one player; the queue of a
\* player holds what he changed; V has what he has, but for what is new, and for
\* what he removed; and what is new is nowhere else.
ItemSync(on, iv, uq, us, V, E) ==
    /\ \A p \in Players : p \notin on => iv[p] = {} /\ uq[p] = {}
    /\ \A p, q \in Players : \A i \in Items :
          i \in iv[p] \cup uq[p] /\ i \in iv[q] \cup uq[q] => p = q
    /\ \A p \in Players : \A i \in iv[p] :
          us[i] # "removed" /\ (us[i] # "unchanged" => i \in uq[p])
    /\ \A p \in Players : \A i \in uq[p] : i \in iv[p] \/ us[i] = "removed"
    /\ \A i \in Items : us[i] # "unchanged" => \E p \in Players : i \in uq[p]
    /\ \A p \in on : \A i \in Items :
          V[i] = p <=> \/ i \in iv[p] /\ us[i] # "new"
                       \/ i \in uq[p] /\ us[i] = "removed"
    /\ \A i \in Items : us[i] = "new" => V[i] = None /\ i \notin E

\* The types of these.
ItemTypes(iv, uq, us, V) ==
    /\ iv \in [Players -> SUBSET Items] /\ uq \in [Players -> SUBSET Items]
    /\ us \in [Items -> {"new", "changed", "removed", "unchanged"}]
    /\ V \in [Items -> Players \cup {None}]

\* A mail in an open mailbox is the row of the table.
MailSync(boxes, opened, m) ==
    \A p \in Players : \A id \in MailIds :
        boxes[p][id] # None =>
            p \in opened /\ m[id] = boxes[p][id] /\ m[id].to = p

-----------------------------------------------------------------------------
(***************************************************************************)
(* The queue                                                                *)
(***************************************************************************)

\* The queue and a transaction are sequences of whatever they hold.
IsList(q) == \E S : q \in Seq(S)

\* A statement of trans inserts a mail with this id.
Inserts(trans, id) ==
    \E n \in DOMAIN trans : trans[n].op = "insertMail" /\ trans[n].id = id

\* Mails to p that are in d are in e.
UnreadKept(d, e, p) ==
    \A id \in MailIds :
        d.mail[id] # None /\ d.mail[id].to = p => e.mail[id] = d.mail[id]

\* What p loads when he logs in is in d and e the same.
RowsKept(d, e, p) ==
    /\ \A i \in Items : d.inventory[i] = p <=> e.inventory[i] = p
    /\ d.money[p] = e.money[p]

\* st are the tables before and after each of the transactions that wait.
Linked(st) ==
    /\ IsList(queue)
    /\ st \in [0..Len(queue) -> Tables]
    /\ st[0] = db /\ st[Len(queue)] = future
    /\ \A k \in 0..Len(queue) : Sound(st[k])
    /\ \A k \in 1..Len(queue) : st[k] = Execute(st[k - 1], queue[k].trans)

\* A mail that will be there is there, or is inserted in between.
IdsSound(st) ==
    \A a, b \in 0..Len(queue) : \A id \in MailIds :
        a <= b /\ st[b].mail[id] # None =>
            st[a].mail[id] # None \/ \E k \in (a + 1)..b : Inserts(queue[k].trans, id)

\* From the login of a player on nothing that waits touches what he will load.
LoginsSound(st) ==
    \A k \in 1..Len(queue) : queue[k].login # None =>
        /\ queue[k].login \in Players \ online /\ queue[k].trans = <<>>
        /\ \A j \in 1..Len(queue) : queue[j].login = queue[k].login => j = k
        /\ \A j \in k..Len(queue) :
              /\ RowsKept(st[j], future, queue[k].login)
              /\ UnreadKept(st[j], future, queue[k].login)

\* Nor does it touch mails of a player who has not opened his mailbox.
MailboxesSound(st) ==
    \A p \in online \ loaded : \A j \in 0..Len(queue) : UnreadKept(st[j], future, p)

\* st[k] are the tables once the first k entries of the queue are executed.
Chain(st) == Linked(st) /\ IdsSound(st) /\ LoginsSound(st) /\ MailboxesSound(st)

\* The transactions that wait lead from the tables to those to come.
Chained == \E st : Chain(st)

-----------------------------------------------------------------------------
(***************************************************************************)
(* The inductive invariant                                                  *)
(***************************************************************************)

\* The types of memory; and no transaction has met a duplicate key.
Types ==
    /\ online \subseteq Players /\ loaded \subseteq online
    /\ money \in [Players -> Nat]
    /\ mails \in [Players -> [MailIds -> Mail \cup {None}]]
    /\ trash \subseteq MailIds
    /\ ItemTypes(inv, updateQueue, uState, future.inventory)
    /\ refused = FALSE

\* What is in an open mailbox, an auction or a purse is in the tables to come.
MemorySync ==
    /\ auctions = future.auction
    /\ \A p \in online : money[p] = future.money[p]
    /\ MailSync(mails, loaded, future.mail)
    /\ ItemSync(online, inv, updateQueue, uState, future.inventory,
                Elsewhere(future.mail, future.auction))

\* Memory agrees with the tables to come, and the queue leads to them.
MailInv == Types /\ MemorySync /\ Chained

-----------------------------------------------------------------------------
(***************************************************************************)
(* Transactions                                                             *)
(***************************************************************************)

\* The statements a transaction is made of.
Ops == {"gold", "inventory", "detach", "insertMail", "updateMail", "deleteMails",
        "insertAuction", "updateAuction", "deleteAuction"}

\* g are the tables before and after each statement.
Trace(d, trans, e, g) ==
    /\ g \in [0..Len(trans) -> Tables]
    /\ g[0] = d /\ g[Len(trans)] = e
    /\ \A n \in 1..Len(trans) :
          /\ trans[n].op \in Ops
          /\ ~Duplicate(g[n - 1], trans[n]) /\ g[n] = Apply(g[n - 1], trans[n])

\* trans turns d into e and meets no duplicate key.
Runs(d, trans, e) == IsList(trans) /\ \E g : Trace(d, trans, e, g)

\* A set of natural numbers that is not empty has a least member.
LEMMA LeastNat ==
    ASSUME NEW T \in SUBSET Nat, T # {}
    PROVE  \E n \in T : \A m \in T : n <= m
<1>1. PICK n \in T : \A m \in T : ~(<<m, n>> \in OpToRel(<, Nat))
  BY NatLessThanWellFounded, WFMin
<1>2. \A m \in T : ~(m < n)
  BY <1>1 DEF OpToRel
<1> QED BY <1>2

\* A sequence of anything.
LEMMA ListIs ==
    ASSUME NEW q, IsList(q)
    PROVE  Len(q) \in Nat /\ DOMAIN q = 1..Len(q)
BY LenProperties DEF IsList

\* Sequences of anything can be joined.
LEMMA ListConcat ==
    ASSUME NEW s, NEW t, IsList(s), IsList(t)
    PROVE  /\ IsList(s \o t)
           /\ Len(s \o t) = Len(s) + Len(t)
           /\ \A i \in 1..Len(s) : (s \o t)[i] = s[i]
           /\ \A i \in 1..Len(t) : (s \o t)[Len(s) + i] = t[i]
<1>1. PICK A : s \in Seq(A)
  BY DEF IsList
<1>2. PICK B : t \in Seq(B)
  BY DEF IsList
<1>3. s \in Seq(A \cup B) /\ t \in Seq(A \cup B)
  BY <1>1, <1>2
<1>4. /\ s \o t \in Seq(A \cup B)
      /\ Len(s \o t) = Len(s) + Len(t)
      /\ \A i \in 1..(Len(s) + Len(t)) :
            (s \o t)[i] = IF i <= Len(s) THEN s[i] ELSE t[i - Len(s)]
  BY <1>3, ConcatProperties
<1>5. Len(s) \in Nat /\ Len(t) \in Nat
  BY ListIs
<1>6. \A i \in 1..Len(s) : (s \o t)[i] = s[i]
  BY <1>4, <1>5
<1>7. ASSUME NEW i \in 1..Len(t)
      PROVE  (s \o t)[Len(s) + i] = t[i]
  <2>1. /\ Len(s) + i \in 1..(Len(s) + Len(t)) /\ ~(Len(s) + i <= Len(s))
        /\ (Len(s) + i) - Len(s) = i
    BY <1>5
  <2> QED BY <1>4, <2>1
<1> QED BY <1>4, <1>6, <1>7 DEF IsList

\* Literal sequences.
LEMMA ListLiteral ==
    ASSUME NEW x
    PROVE  IsList(<<x>>) /\ Len(<<x>>) = 1 /\ <<x>>[1] = x /\ IsList(<<>>) /\ Len(<<>>) = 0
<1>1. <<x>> \in Seq({x}) /\ <<>> \in Seq({x})
  OBVIOUS
<1> QED BY <1>1 DEF IsList

\* A function on 1..n is a sequence.
LEMMA ListFunction ==
    ASSUME NEW n \in Nat, NEW f, f = [i \in 1..n |-> f[i]]
    PROVE  IsList(f) /\ Len(f) = n
<1> DEFINE S == {f[i] : i \in 1..n}
<1>1. f \in [1..n -> S]
  OBVIOUS
<1>2. f \in Seq(S)
  BY <1>1, SeqDef
<1>3. Len(f) = n
  BY <1>1, <1>2, LenProperties
<1> QED BY <1>2, <1>3 DEF IsList

\* An empty transaction does nothing.
LEMMA RunsEmpty ==
    ASSUME NEW d \in Tables
    PROVE  Runs(d, <<>>, d)
<1> DEFINE g == [n \in 0..0 |-> d]
<1>1. IsList(<<>>) /\ Len(<<>>) = 0
  BY ListLiteral
<1>2. Trace(d, <<>>, d, g)
  BY <1>1 DEF Trace
<1> QED BY <1>1, <1>2 DEF Runs

\* One statement.
LEMMA RunsOne ==
    ASSUME NEW d \in Tables, NEW s, s.op \in Ops, ~Duplicate(d, s),
           NEW e \in Tables, e = Apply(d, s)
    PROVE  Runs(d, <<s>>, e)
<1> DEFINE g == [n \in 0..1 |-> IF n = 0 THEN d ELSE e]
<1>1. IsList(<<s>>) /\ Len(<<s>>) = 1 /\ <<s>>[1] = s
  BY ListLiteral
<1>2. g \in [0..1 -> Tables] /\ g[0] = d /\ g[1] = e
  OBVIOUS
<1> HIDE DEF g
<1>3. ASSUME NEW n \in 1..1
      PROVE  /\ <<s>>[n].op \in Ops
             /\ ~Duplicate(g[n - 1], <<s>>[n]) /\ g[n] = Apply(g[n - 1], <<s>>[n])
  <2>1. n = 1 /\ n - 1 = 0
    OBVIOUS
  <2> QED BY <1>1, <1>2, <2>1
<1>4. Trace(d, <<s>>, e, g)
  BY <1>1, <1>2, <1>3 DEF Trace
<1> QED BY <1>1, <1>4 DEF Runs

\* The statements of one part after those of another.
LEMMA RunsConcat ==
    ASSUME NEW d, NEW s, NEW e, NEW t, NEW f, Runs(d, s, e), Runs(e, t, f)
    PROVE  Runs(d, s \o t, f)
<1>1. PICK g : Trace(d, s, e, g)
  BY DEF Runs
<1>2. PICK h : Trace(e, t, f, h)
  BY DEF Runs
<1>3. IsList(s) /\ IsList(t)
  BY DEF Runs
<1>4. PICK u : u = s \o t
  OBVIOUS
<1>5. /\ IsList(u) /\ Len(u) = Len(s) + Len(t)
      /\ \A i \in 1..Len(s) : u[i] = s[i]
      /\ \A i \in 1..Len(t) : u[Len(s) + i] = t[i]
  BY <1>3, <1>4, ListConcat
<1>6. Len(s) \in Nat /\ Len(t) \in Nat
  BY <1>3, ListIs
<1> DEFINE k == [n \in 0..Len(u) |-> IF n <= Len(s) THEN g[n] ELSE h[n - Len(s)]]
<1>7. \A n \in 0..Len(s) : k[n] = g[n]
  BY <1>5, <1>6
<1>8. ASSUME NEW n \in 0..Len(t)
      PROVE  k[Len(s) + n] = h[n]
  <2>1. Len(s) + n \in 0..Len(u) /\ (Len(s) + n) - Len(s) = n
    BY <1>5, <1>6
  <2>2. CASE n = 0
    <3>1. Len(s) + n <= Len(s) /\ Len(s) + n = Len(s)
      BY <1>6, <2>2
    <3>2. g[Len(s)] = h[0]
      BY <1>1, <1>2 DEF Trace
    <3> QED BY <2>1, <2>2, <3>1, <3>2
  <2>3. CASE n # 0
    <3>1. ~(Len(s) + n <= Len(s))
      BY <1>6, <2>3
    <3> QED BY <2>1, <3>1
  <2> QED BY <2>2, <2>3
<1>9. k \in [0..Len(u) -> Tables]
  <2>1. ASSUME NEW n \in 0..Len(u) PROVE k[n] \in Tables
    <3>1. CASE n <= Len(s)
      <4>1. n \in 0..Len(s)
        BY <1>5, <1>6, <3>1
      <4> QED BY <1>1, <1>7, <4>1 DEF Trace
    <3>2. CASE ~(n <= Len(s))
      <4>1. n - Len(s) \in 0..Len(t)
        BY <1>5, <1>6, <3>2
      <4>2. h[n - Len(s)] \in Tables
        BY <1>2, <4>1 DEF Trace
      <4> QED BY <3>2, <4>2
    <3> QED BY <3>1, <3>2
  <2> QED BY <2>1
<1> HIDE DEF k
<1>10. k[0] = d /\ k[Len(u)] = f
  BY <1>1, <1>2, <1>5, <1>6, <1>7, <1>8 DEF Trace
<1>11. ASSUME NEW n \in 1..Len(u)
       PROVE  /\ u[n].op \in Ops
              /\ ~Duplicate(k[n - 1], u[n]) /\ k[n] = Apply(k[n - 1], u[n])
  <2>1. CASE n <= Len(s)
    <3>1. n \in 1..Len(s) /\ n \in 0..Len(s) /\ n - 1 \in 0..Len(s)
      BY <1>5, <1>6, <2>1
    <3>2. u[n] = s[n] /\ k[n] = g[n] /\ k[n - 1] = g[n - 1]
      BY <1>5, <1>7, <3>1
    <3> QED BY <1>1, <3>1, <3>2 DEF Trace
  <2>2. CASE ~(n <= Len(s))
    <3>1. PICK m \in 1..Len(t) : n = Len(s) + m
      <4>1. n - Len(s) \in 1..Len(t) /\ n = Len(s) + (n - Len(s))
        BY <1>5, <1>6, <2>2
      <4> QED BY <4>1
    <3>2. m \in 0..Len(t) /\ m - 1 \in 0..Len(t) /\ n - 1 = Len(s) + (m - 1)
      BY <1>6, <3>1
    <3>3. u[n] = t[m] /\ k[n] = h[m] /\ k[n - 1] = h[m - 1]
      BY <1>5, <1>8, <3>1, <3>2
    <3> QED BY <1>2, <3>3 DEF Trace
  <2> QED BY <2>1, <2>2
<1>12. Trace(d, u, f, k)
  BY <1>9, <1>10, <1>11 DEF Trace
<1> QED BY <1>4, <1>5, <1>12 DEF Runs

\* The function that Execute defines.
Executed(d, trans, f) ==
    f = [n \in 0..Len(trans) |->
            IF n = 0 THEN d
            ELSE IF f[n - 1] = None \/ Duplicate(f[n - 1], trans[n]) THEN None
            ELSE Apply(f[n - 1], trans[n])]

\* What runs is what Execute computes.
LEMMA RunsExecute ==
    ASSUME NEW d, NEW trans, NEW e, Runs(d, trans, e)
    PROVE  Execute(d, trans) = e /\ d \in Tables /\ e \in Tables /\ e # None
<1>1. PICK g : Trace(d, trans, e, g)
  BY DEF Runs
<1>2. Len(trans) \in Nat
  BY ListIs DEF Runs
<1>3. \A n \in 0..Len(trans) : g[n] \in Tables /\ g[n] # None
  BY <1>1, NullAssumption DEF Trace
<1>4. d \in Tables /\ e \in Tables /\ e # None
  <2>1. 0 \in 0..Len(trans) /\ Len(trans) \in 0..Len(trans)
    BY <1>2
  <2> QED BY <1>1, <1>3, <2>1 DEF Trace
<1>5. ASSUME NEW n \in 0..Len(trans)
      PROVE  g[n] = IF n = 0 THEN d
                    ELSE IF g[n - 1] = None \/ Duplicate(g[n - 1], trans[n]) THEN None
                    ELSE Apply(g[n - 1], trans[n])
  <2>1. CASE n = 0
    BY <1>1, <2>1 DEF Trace
  <2>2. CASE n # 0
    <3>1. n \in 1..Len(trans) /\ n - 1 \in 0..Len(trans)
      BY <1>2, <2>2
    <3>2. ~Duplicate(g[n - 1], trans[n]) /\ g[n] = Apply(g[n - 1], trans[n])
      BY <1>1, <3>1 DEF Trace
    <3> QED BY <1>3, <2>2, <3>1, <3>2
  <2> QED BY <2>1, <2>2
<1>6. Executed(d, trans, g)
  <2>1. g \in [0..Len(trans) -> Tables]
    BY <1>1 DEF Trace
  <2> QED BY <1>5, <2>1 DEF Executed
<1>7. PICK f : f = CHOOSE h : Executed(d, trans, h)
  OBVIOUS
<1>8. Executed(d, trans, f)
  BY <1>6, <1>7
<1>9. Execute(d, trans) = f[Len(trans)]
  BY <1>7 DEF Execute, Executed
<1>10. \A n \in 0..Len(trans) : f[n] = g[n]
  <2> DEFINE Bad == {n \in Nat : n \in 0..Len(trans) /\ f[n] # g[n]}
  <2>1. SUFFICES ASSUME Bad # {} PROVE FALSE
    BY <1>2
  <2>2. PICK m \in Bad : \A k \in Bad : m <= k
    BY <2>1, LeastNat
  <2>3. m \in 0..Len(trans) /\ f[m] # g[m]
    OBVIOUS
  <2>4. f[m] = IF m = 0 THEN d
               ELSE IF f[m - 1] = None \/ Duplicate(f[m - 1], trans[m]) THEN None
               ELSE Apply(f[m - 1], trans[m])
    BY <1>8, <2>3 DEF Executed
  <2>5. CASE m = 0
    BY <1>5, <2>3, <2>4, <2>5
  <2>6. CASE m # 0
    <3>1. m - 1 \in Nat /\ m - 1 \in 0..Len(trans) /\ m - 1 \notin Bad
      BY <1>2, <2>2, <2>3, <2>6
    <3>2. f[m - 1] = g[m - 1]
      BY <3>1
    <3> QED BY <1>5, <2>3, <2>4, <2>6, <3>2
  <2> QED BY <2>5, <2>6
<1>11. f[Len(trans)] = e
  <2>1. Len(trans) \in 0..Len(trans)
    BY <1>2
  <2> QED BY <1>1, <1>10, <2>1 DEF Trace
<1> QED BY <1>4, <1>9, <1>11

-----------------------------------------------------------------------------
(***************************************************************************)
(* Statements                                                               *)
(***************************************************************************)

\* SaveGoldToDB.
LEMMA GoldRuns ==
    ASSUME NEW d \in Tables, NEW p \in Players, NEW m \in Nat
    PROVE  \E e \in Tables :
              /\ Runs(d, << Gold(p, m) >>, e)
              /\ e.inventory = d.inventory /\ e.instances = d.instances
              /\ e.money = [d.money EXCEPT ![p] = m]
              /\ e.mail = d.mail /\ e.auction = d.auction
<1>1. PICK s : s = Gold(p, m)
  OBVIOUS
<1>2. s.op = "gold" /\ s.player = p /\ s.money = m
  BY <1>1 DEF Gold
<1>3. PICK e : e = [d EXCEPT !.money = [d.money EXCEPT ![p] = m]]
  OBVIOUS
<1>4. Apply(d, s) = e
  BY <1>2, <1>3 DEF Apply
<1>5. /\ e \in Tables
      /\ e.inventory = d.inventory /\ e.instances = d.instances
      /\ e.money = [d.money EXCEPT ![p] = m]
      /\ e.mail = d.mail /\ e.auction = d.auction
  BY <1>3 DEF Tables
<1>6. s.op \in Ops /\ ~Duplicate(d, s)
  BY <1>2 DEF Ops, Duplicate
<1>7. Runs(d, <<s>>, e)
  BY <1>4, <1>5, <1>6, RunsOne
<1> QED BY <1>1, <1>5, <1>7

\* What _SaveInventory writes.
Written(d, p, new, changed, removed, e) ==
    /\ Runs(d, << Inventory(p, new, changed, removed) >>, e)
    /\ e.inventory = [i \in Items |->
          IF i \in new \/ (i \in changed /\ d.inventory[i] # None) THEN p
          ELSE IF i \in removed THEN None ELSE d.inventory[i]]
    /\ e.instances = (d.instances \cup new) \ removed
    /\ e.money = d.money /\ e.mail = d.mail /\ e.auction = d.auction

\* The rows of character_inventory and item_instance that _SaveInventory writes.
LEMMA InventoryRuns ==
    ASSUME NEW d \in Tables, NEW p \in Players, NEW new \in SUBSET Items,
           NEW changed \in SUBSET Items, NEW removed \in SUBSET Items,
           \A i \in new : d.inventory[i] = None
    PROVE  \E e \in Tables : Written(d, p, new, changed, removed, e)
<1>1. PICK s : s = Inventory(p, new, changed, removed)
  OBVIOUS
<1>2. /\ s.op = "inventory" /\ s.player = p /\ s.new = new /\ s.changed = changed
      /\ s.removed = removed
  BY <1>1 DEF Inventory
<1>3. PICK V : V = [i \in Items |->
                    IF i \in new \/ (i \in changed /\ d.inventory[i] # None) THEN p
                    ELSE IF i \in removed THEN None ELSE d.inventory[i]]
  OBVIOUS
<1>4. V \in [Items -> Players \cup {None}]
  BY <1>3 DEF Tables
<1>5. PICK e : e = [d EXCEPT !.inventory = V, !.instances = (d.instances \cup new) \ removed]
  OBVIOUS
<1>6. Apply(d, s) = e
  BY <1>2, <1>3, <1>5 DEF Apply
<1>7. /\ e \in Tables
      /\ e.inventory = V /\ e.instances = (d.instances \cup new) \ removed
      /\ e.money = d.money /\ e.mail = d.mail /\ e.auction = d.auction
  BY <1>4, <1>5 DEF Tables
<1>8. s.op \in Ops /\ ~Duplicate(d, s)
  BY <1>2 DEF Ops, Duplicate
<1>9. Runs(d, <<s>>, e)
  BY <1>6, <1>7, <1>8, RunsOne
<1> QED BY <1>1, <1>3, <1>7, <1>9 DEF Written

\* DeleteFromInventoryDB, and the instance of an item that had none.
LEMMA DetachRuns ==
    ASSUME NEW d \in Tables, NEW i \in Items, NEW new \in BOOLEAN
    PROVE  \E e \in Tables :
              /\ Runs(d, << Detach(i, new) >>, e)
              /\ e.inventory = [d.inventory EXCEPT ![i] = None]
              /\ e.instances = IF new THEN d.instances \cup {i} ELSE d.instances
              /\ e.money = d.money /\ e.mail = d.mail /\ e.auction = d.auction
<1>1. PICK s : s = Detach(i, new)
  OBVIOUS
<1>2. s.op = "detach" /\ s.item = i /\ s.new = new
  BY <1>1 DEF Detach
<1>3. PICK V : V = [d.inventory EXCEPT ![i] = None]
  OBVIOUS
<1>4. PICK N : N = IF new THEN d.instances \cup {i} ELSE d.instances
  OBVIOUS
<1>5. V \in [Items -> Players \cup {None}] /\ N \in SUBSET Items
  BY <1>3, <1>4 DEF Tables
<1>6. PICK e : e = [d EXCEPT !.inventory = V, !.instances = N]
  OBVIOUS
<1>7. Apply(d, s) = e
  BY <1>2, <1>3, <1>4, <1>6 DEF Apply
<1>8. /\ e \in Tables
      /\ e.inventory = V /\ e.instances = N
      /\ e.money = d.money /\ e.mail = d.mail /\ e.auction = d.auction
  BY <1>5, <1>6 DEF Tables
<1>9. s.op \in Ops /\ ~Duplicate(d, s)
  BY <1>2 DEF Ops, Duplicate
<1>10. Runs(d, <<s>>, e)
  BY <1>7, <1>8, <1>9, RunsOne
<1> QED BY <1>1, <1>3, <1>4, <1>8, <1>10

\* The statement s makes x the row of auctionhouse of i, and writes nothing else.
RowSet(d, s, i, x, e) ==
    /\ Runs(d, <<s>>, e)
    /\ e.inventory = d.inventory /\ e.instances = d.instances
    /\ e.money = d.money /\ e.mail = d.mail
    /\ e.auction = [d.auction EXCEPT ![i] = x]

\* An auction, and its end.
LEMMA AuctionRuns ==
    ASSUME NEW d \in Tables, NEW i \in Items, NEW a \in Auction
    PROVE  /\ d.auction[i] = None => \E e \in Tables : RowSet(d, InsertAuction(i, a), i, a, e)
           /\ d.auction[i] # None => \E e \in Tables : RowSet(d, UpdateAuction(i, a), i, a, e)
<1>1. PICK e : e = [d EXCEPT !.auction = [d.auction EXCEPT ![i] = a]]
  OBVIOUS
<1>2. /\ e \in Tables
      /\ e.inventory = d.inventory /\ e.instances = d.instances
      /\ e.money = d.money /\ e.mail = d.mail
      /\ e.auction = [d.auction EXCEPT ![i] = a]
  BY <1>1 DEF Tables
<1>3. ASSUME d.auction[i] = None
      PROVE  Runs(d, << InsertAuction(i, a) >>, e)
  <2>1. PICK s : s = InsertAuction(i, a)
    OBVIOUS
  <2>2. s.op = "insertAuction" /\ s.item = i /\ s.auction = a
    BY <2>1 DEF InsertAuction
  <2>3. Apply(d, s) = e
    BY <1>1, <2>2 DEF Apply
  <2>4. s.op \in Ops /\ ~Duplicate(d, s)
    BY <1>3, <2>2 DEF Ops, Duplicate
  <2> QED BY <1>2, <2>1, <2>3, <2>4, RunsOne
<1>4. ASSUME d.auction[i] # None
      PROVE  Runs(d, << UpdateAuction(i, a) >>, e)
  <2>1. PICK s : s = UpdateAuction(i, a)
    OBVIOUS
  <2>2. s.op = "updateAuction" /\ s.item = i /\ s.auction = a
    BY <2>1 DEF UpdateAuction
  <2>3. Apply(d, s) = e
    BY <1>1, <1>4, <2>2 DEF Apply, Tables
  <2>4. s.op \in Ops /\ ~Duplicate(d, s)
    BY <2>2 DEF Ops, Duplicate
  <2> QED BY <1>2, <2>1, <2>3, <2>4, RunsOne
<1> QED BY <1>2, <1>3, <1>4 DEF RowSet

\* DeleteFromDB of an auction.
LEMMA AuctionEndRuns ==
    ASSUME NEW d \in Tables, NEW i \in Items
    PROVE  \E e \in Tables :
              /\ Runs(d, << DeleteAuction(i) >>, e)
              /\ e.inventory = d.inventory /\ e.instances = d.instances
              /\ e.money = d.money /\ e.mail = d.mail
              /\ e.auction = [d.auction EXCEPT ![i] = None]
<1>1. PICK e : e = [d EXCEPT !.auction = [d.auction EXCEPT ![i] = None]]
  OBVIOUS
<1>2. /\ e \in Tables
      /\ e.inventory = d.inventory /\ e.instances = d.instances
      /\ e.money = d.money /\ e.mail = d.mail
      /\ e.auction = [d.auction EXCEPT ![i] = None]
  BY <1>1 DEF Tables
<1>3. PICK s : s = DeleteAuction(i)
  OBVIOUS
<1>4. s.op = "deleteAuction" /\ s.item = i
  BY <1>3 DEF DeleteAuction
<1>5. Apply(d, s) = e
  BY <1>1, <1>4 DEF Apply
<1>6. s.op \in Ops /\ ~Duplicate(d, s)
  BY <1>4 DEF Ops, Duplicate
<1>7. Runs(d, <<s>>, e)
  BY <1>2, <1>5, <1>6, RunsOne
<1> QED BY <1>2, <1>3, <1>7

\* The rows of mails that are deleted.
LEMMA DeleteMailsRuns ==
    ASSUME NEW d \in Tables, NEW ids, NEW items
    PROVE  \E e \in Tables :
              /\ Runs(d, << DeleteMails(ids, items) >>, e)
              /\ e.inventory = d.inventory /\ e.instances = d.instances \ items
              /\ e.money = d.money /\ e.auction = d.auction
              /\ \A k \in MailIds : e.mail[k] = IF k \in ids THEN None ELSE d.mail[k]
<1>1. PICK m : m = [k \in MailIds |-> IF k \in ids THEN None ELSE d.mail[k]]
  OBVIOUS
<1>2. m \in [MailIds -> Mail \cup {None}]
  BY <1>1 DEF Tables
<1>3. PICK e : e = [d EXCEPT !.mail = m, !.instances = d.instances \ items]
  OBVIOUS
<1>4. /\ e \in Tables
      /\ e.inventory = d.inventory /\ e.instances = d.instances \ items
      /\ e.money = d.money /\ e.mail = m /\ e.auction = d.auction
  BY <1>2, <1>3 DEF Tables
<1>5. PICK s : s = DeleteMails(ids, items)
  OBVIOUS
<1>6. s.op = "deleteMails" /\ s.ids = ids /\ s.items = items
  BY <1>5 DEF DeleteMails
<1>7. Apply(d, s) = e
  BY <1>1, <1>3, <1>6 DEF Apply
<1>8. s.op \in Ops /\ ~Duplicate(d, s)
  BY <1>6 DEF Ops, Duplicate
<1>9. Runs(d, <<s>>, e)
  BY <1>4, <1>7, <1>8, RunsOne
<1> QED BY <1>1, <1>4, <1>5, <1>9

\* What UpdateMail makes of a mail.
Taken(r, mail, removed) ==
    mail = [r EXCEPT !.money = mail.money, !.cod = mail.cod, !.items = @ \ removed]

\* A mail whose money, COD or items were taken.  The items are in no other mail.
LEMMA UpdateMailRuns ==
    ASSUME NEW d \in Tables, NEW id \in MailIds, NEW mail \in Mail, NEW removed \in SUBSET Items,
           d.mail[id] # None, Taken(d.mail[id], mail, removed),
           \A k \in MailIds : k # id /\ d.mail[k] # None => d.mail[k].items \cap removed = {}
    PROVE  \E e \in Tables :
              /\ Runs(d, << UpdateMail(id, mail, removed) >>, e)
              /\ e.inventory = d.inventory /\ e.instances = d.instances
              /\ e.money = d.money /\ e.auction = d.auction
              /\ e.mail = [d.mail EXCEPT ![id] = mail]
<1>1. PICK m : m = [d.mail EXCEPT ![id] = mail]
  OBVIOUS
<1>2. m \in [MailIds -> Mail \cup {None}]
  BY <1>1 DEF Tables
<1>3. PICK e : e = [d EXCEPT !.mail = m]
  OBVIOUS
<1>4. /\ e \in Tables
      /\ e.inventory = d.inventory /\ e.instances = d.instances
      /\ e.money = d.money /\ e.mail = m /\ e.auction = d.auction
  BY <1>2, <1>3 DEF Tables
<1>5. PICK s : s = UpdateMail(id, mail, removed)
  OBVIOUS
<1>6. s.op = "updateMail" /\ s.id = id /\ s.mail = mail /\ s.removed = removed
  BY <1>5 DEF UpdateMail
<1>7. ASSUME NEW k \in MailIds
      PROVE  m[k] = IF d.mail[k] = None THEN None
                    ELSE IF k = id
                      THEN [d.mail[k] EXCEPT !.money = mail.money, !.cod = mail.cod,
                                             !.items = @ \ removed]
                      ELSE [d.mail[k] EXCEPT !.items = @ \ removed]
  <2>1. d.mail \in [MailIds -> Mail \cup {None}]
    BY DEF Tables
  <2>2. CASE k = id
    BY <1>1, <2>1, <2>2 DEF Taken
  <2>3. CASE k # id /\ d.mail[k] # None
    <3>1. PICK r : r = d.mail[k]
      OBVIOUS
    <3>2. r \in Mail /\ r.items \ removed = r.items
      BY <2>1, <2>3, <3>1
    <3>3. [r EXCEPT !.items = r.items \ removed] = r
      BY <3>2 DEF Mail
    <3> QED BY <1>1, <2>1, <2>3, <3>1, <3>3
  <2>4. CASE k # id /\ d.mail[k] = None
    BY <1>1, <2>1, <2>4
  <2> QED BY <2>2, <2>3, <2>4
<1>8. m = [k \in MailIds |->
              IF d.mail[k] = None THEN None
              ELSE IF k = id
                THEN [d.mail[k] EXCEPT !.money = mail.money, !.cod = mail.cod,
                                       !.items = @ \ removed]
                ELSE [d.mail[k] EXCEPT !.items = @ \ removed]]
  BY <1>2, <1>7
<1>9. Apply(d, s) = e
  BY <1>3, <1>6, <1>8 DEF Apply
<1>10. s.op \in Ops /\ ~Duplicate(d, s)
  BY <1>6 DEF Ops, Duplicate
<1>11. Runs(d, <<s>>, e)
  BY <1>4, <1>9, <1>10, RunsOne
<1> QED BY <1>1, <1>4, <1>5, <1>11

\* One row that is not there is inserted by an INSERT of that mail alone.
LEMMA ApplyMail ==
    ASSUME NEW d \in Tables, NEW s, s.op \in Ops, Apply(d, s) \in Tables, NEW id \in MailIds,
           d.mail[id] = None, Apply(d, s).mail[id] # None
    PROVE  s.op = "insertMail" /\ s.id = id
<1>1. d.mail \in [MailIds -> Mail \cup {None}]
  BY DEF Tables
<1>2. CASE s.op = "gold"
  <2>1. PICK M : M = [d.money EXCEPT ![s.player] = s.money]
    OBVIOUS
  <2>2. Apply(d, s) = [d EXCEPT !.money = M]
    BY <1>2, <2>1 DEF Apply
  <2> QED BY <2>2 DEF Tables
<1>3. CASE s.op = "inventory"
  <2>1. \E V, N : Apply(d, s) = [d EXCEPT !.inventory = V, !.instances = N]
    BY <1>3 DEF Apply
  <2> QED BY <2>1 DEF Tables
<1>4. CASE s.op = "detach"
  <2>1. \E V, N : Apply(d, s) = [d EXCEPT !.inventory = V, !.instances = N]
    BY <1>4 DEF Apply
  <2> QED BY <2>1 DEF Tables
<1>5. CASE s.op = "insertMail"
  <2>1. Apply(d, s) = [d EXCEPT !.mail = [d.mail EXCEPT ![s.id] = s.mail]]
    BY <1>5 DEF Apply
  <2>2. Apply(d, s).mail = [d.mail EXCEPT ![s.id] = s.mail]
    BY <2>1 DEF Tables
  <2> QED BY <1>1, <1>5, <2>2
<1>6. CASE s.op = "updateMail"
  <2>1. PICK m : m = [k \in MailIds |->
              IF d.mail[k] = None THEN None
              ELSE IF k = s.id
                THEN [d.mail[k] EXCEPT !.money = s.mail.money, !.cod = s.mail.cod,
                                        !.items = @ \ s.removed]
                ELSE [d.mail[k] EXCEPT !.items = @ \ s.removed]]
    OBVIOUS
  <2>2. Apply(d, s) = [d EXCEPT !.mail = m]
    BY <1>6, <2>1 DEF Apply
  <2>3. Apply(d, s).mail = m
    BY <2>2 DEF Tables
  <2> QED BY <2>1, <2>3
<1>7. CASE s.op = "deleteMails"
  <2>1. PICK m : m = [k \in MailIds |-> IF k \in s.ids THEN None ELSE d.mail[k]]
    OBVIOUS
  <2>2. Apply(d, s) = [d EXCEPT !.mail = m, !.instances = d.instances \ s.items]
    BY <1>7, <2>1 DEF Apply
  <2>3. Apply(d, s).mail = m
    BY <2>2 DEF Tables
  <2> QED BY <2>1, <2>3
<1>8. CASE s.op = "insertAuction" \/ s.op = "updateAuction" \/ s.op = "deleteAuction"
  <2>1. \E a : Apply(d, s) = [d EXCEPT !.auction = a]
    BY <1>8 DEF Apply
  <2> QED BY <2>1 DEF Tables
<1> QED BY <1>2, <1>3, <1>4, <1>5, <1>6, <1>7, <1>8 DEF Ops

\* Mails come into the tables by an INSERT.
LEMMA OnlyInserts ==
    ASSUME NEW d, NEW trans, NEW e, Runs(d, trans, e), NEW id \in MailIds, e.mail[id] # None
    PROVE  d.mail[id] # None \/ Inserts(trans, id)
<1>1. SUFFICES ASSUME d.mail[id] = None PROVE Inserts(trans, id)
  OBVIOUS
<1>2. PICK g : Trace(d, trans, e, g)
  BY DEF Runs
<1>3. Len(trans) \in Nat /\ DOMAIN trans = 1..Len(trans)
  BY ListIs DEF Runs
<1> DEFINE Rows == {n \in Nat : n \in 0..Len(trans) /\ g[n].mail[id] # None}
<1>4. Len(trans) \in Rows
  BY <1>2, <1>3 DEF Trace
<1>5. PICK n \in Rows : \A m \in Rows : n <= m
  BY <1>4, LeastNat
<1>6. n \in 0..Len(trans) /\ g[n].mail[id] # None
  OBVIOUS
<1>7. n # 0
  BY <1>1, <1>2, <1>6 DEF Trace
<1>8. n \in 1..Len(trans) /\ n - 1 \in 0..Len(trans) /\ n - 1 \in Nat /\ n - 1 \notin Rows
  BY <1>3, <1>5, <1>6, <1>7
<1>9. g[n - 1].mail[id] = None
  BY <1>8
<1> HIDE DEF Rows
<1>10. g[n - 1] \in Tables /\ g[n] \in Tables /\ trans[n].op \in Ops
  BY <1>2, <1>6, <1>8 DEF Trace
<1>11. g[n] = Apply(g[n - 1], trans[n])
  BY <1>2, <1>8 DEF Trace
<1>12. trans[n].op = "insertMail" /\ trans[n].id = id
  BY <1>6, <1>9, <1>10, <1>11, ApplyMail
<1> QED BY <1>3, <1>8, <1>12 DEF Inserts

\* The rows of m and, under their ids, those of the drafts.
Posted(m, ids, drafts, n) ==
    /\ \A k \in 1..Len(drafts) : n[ids[k]] = drafts[k]
    /\ \A id \in MailIds : (\A k \in 1..Len(drafts) : ids[k] # id) => n[id] = m[id]

\* Drafts, and ids for them.
Drafts(ids, drafts) ==
    /\ drafts \in Seq(Mail) /\ Len(ids) \in Nat /\ Len(drafts) <= Len(ids)
    /\ \A k \in 1..Len(ids) : ids[k] \in MailIds
    /\ \A k, l \in 1..Len(ids) : ids[k] = ids[l] => k = l

\* SendMailTo writes a row for each draft.
LEMMA InsertMailsRuns ==
    ASSUME NEW d \in Tables, NEW ids, NEW drafts, Drafts(ids, drafts),
           \A k \in 1..Len(drafts) : d.mail[ids[k]] = None
    PROVE  \E e \in Tables :
              /\ Runs(d, InsertMails(ids, drafts), e)
              /\ e.inventory = d.inventory /\ e.instances = d.instances
              /\ e.money = d.money /\ e.auction = d.auction
              /\ Posted(d.mail, ids, drafts, e.mail)
<1>1. PICK L : L = Len(drafts)
  OBVIOUS
<1>2. /\ L \in Nat /\ \A k \in 1..L : k \in 1..Len(ids) /\ ids[k] \in MailIds
      /\ \A k \in 1..L : drafts[k] \in Mail
      /\ DOMAIN drafts = 1..L
  BY <1>1, LenProperties, ElementOfSeq DEF Drafts
<1>3. \A k, l \in 1..L : ids[k] = ids[l] => k = l
  BY <1>2 DEF Drafts
<1>4. d.mail \in [MailIds -> Mail \cup {None}]
  BY DEF Tables
<1> DEFINE Row(n, id) == IF \E k \in 1..n : ids[k] = id
                           THEN drafts[CHOOSE k \in 1..n : ids[k] = id] ELSE d.mail[id]
           box == [n \in 0..L |-> [id \in MailIds |-> Row(n, id)]]
           g == [n \in 0..L |-> [d EXCEPT !.mail = box[n]]]
<1>5. ASSUME NEW n \in 0..L, NEW k \in 1..n
      PROVE  Row(n, ids[k]) = drafts[k]
  <2>1. \A l \in 1..n : ids[l] = ids[k] => l = k
    BY <1>2, <1>3
  <2>2. (CHOOSE l \in 1..n : ids[l] = ids[k]) = k
    BY <2>1
  <2> QED BY <2>2
<1>6. ASSUME NEW n \in 0..L, NEW id \in MailIds, \A k \in 1..n : ids[k] # id
      PROVE  Row(n, id) = d.mail[id]
  BY <1>6
<1>7. ASSUME NEW n \in 0..L
      PROVE  box[n] \in [MailIds -> Mail \cup {None}]
  <2>1. ASSUME NEW id \in MailIds PROVE Row(n, id) \in Mail \cup {None}
    <3>1. CASE \E k \in 1..n : ids[k] = id
      <4>1. PICK k \in 1..n : ids[k] = id
        BY <3>1
      <4>2. k \in 1..L
        BY <1>2
      <4>3. Row(n, id) = drafts[k]
        BY <1>5, <4>1
      <4> HIDE DEF Row
      <4> QED BY <1>2, <4>2, <4>3
    <3>2. CASE ~ \E k \in 1..n : ids[k] = id
      BY <1>4, <1>6, <3>2
    <3> QED BY <3>1, <3>2
  <2> HIDE DEF Row
  <2> QED BY <2>1
<1>8. ASSUME NEW n \in 0..L, NEW id \in MailIds
      PROVE  box[n][id] = Row(n, id)
  <2> HIDE DEF Row
  <2> QED OBVIOUS
<1> HIDE DEF Row, box
<1>9. ASSUME NEW n \in 0..L
      PROVE  /\ g[n] \in Tables /\ g[n].mail = box[n]
             /\ g[n].inventory = d.inventory /\ g[n].instances = d.instances
             /\ g[n].money = d.money /\ g[n].auction = d.auction
  <2>1. PICK b : b = box[n]
    OBVIOUS
  <2>2. b \in [MailIds -> Mail \cup {None}]
    BY <1>7, <2>1
  <2>3. g[n] = [d EXCEPT !.mail = b]
    BY <2>1
  <2> QED BY <2>1, <2>2, <2>3 DEF Tables
<1>10. box[0] = d.mail
  <2>1. 0 \in 0..L
    BY <1>2
  <2>2. \A id \in MailIds : box[0][id] = d.mail[id]
    BY <1>6, <1>8, <2>1
  <2>3. box[0] \in [MailIds -> Mail \cup {None}]
    BY <1>7, <2>1
  <2> QED BY <1>4, <2>2, <2>3
<1>11. g[0] = d
  <2>1. g[0] = [d EXCEPT !.mail = d.mail]
    BY <1>2, <1>10
  <2> QED BY <2>1 DEF Tables
<1>12. ASSUME NEW n \in 1..L
       PROVE  box[n] = [box[n - 1] EXCEPT ![ids[n]] = drafts[n]]
  <2>1. n \in 0..L /\ n - 1 \in 0..L /\ ids[n] \in MailIds
    BY <1>2
  <2>2. ASSUME NEW id \in MailIds
        PROVE  box[n][id] = IF id = ids[n] THEN drafts[n] ELSE box[n - 1][id]
    <3>1. CASE id = ids[n]
      <4>1. Row(n, ids[n]) = drafts[n]
        BY <1>2, <1>5, <2>1
      <4> QED BY <1>8, <2>1, <3>1, <4>1
    <3>2. CASE id # ids[n] /\ \E k \in 1..(n - 1) : ids[k] = id
      <4>1. PICK k \in 1..(n - 1) : ids[k] = id
        BY <3>2
      <4>2. k \in 1..n
        BY <1>2
      <4>3. Row(n, ids[k]) = drafts[k] /\ Row(n - 1, ids[k]) = drafts[k]
        BY <1>5, <2>1, <4>1, <4>2
      <4> QED BY <1>8, <2>1, <3>2, <4>1, <4>3
    <3>3. CASE id # ids[n] /\ ~ \E k \in 1..(n - 1) : ids[k] = id
      <4>1. ASSUME NEW k \in 1..n PROVE ids[k] # id
        <5>1. k = n \/ k \in 1..(n - 1)
          BY <1>2
        <5> QED BY <3>3, <5>1
      <4>2. Row(n, id) = d.mail[id] /\ Row(n - 1, id) = d.mail[id]
        BY <1>6, <2>1, <3>3, <4>1
      <4> QED BY <1>8, <2>1, <3>3, <4>2
    <3> QED BY <3>1, <3>2, <3>3
  <2>3. box[n] \in [MailIds -> Mail \cup {None}] /\ box[n - 1] \in [MailIds -> Mail \cup {None}]
    BY <1>7, <2>1
  <2> QED BY <2>1, <2>2, <2>3
<1>13. ASSUME NEW n \in 1..L
       PROVE  box[n - 1][ids[n]] = None
  <2>1. n - 1 \in 0..L /\ ids[n] \in MailIds
    BY <1>2
  <2>2. ASSUME NEW k \in 1..(n - 1) PROVE ids[k] # ids[n]
    <3>1. k \in 1..L /\ k # n
      BY <1>2
    <3> QED BY <1>3, <3>1
  <2>3. Row(n - 1, ids[n]) = d.mail[ids[n]]
    BY <1>6, <2>1, <2>2
  <2> QED BY <1>1, <1>8, <2>1, <2>3
<1>14. PICK trans : trans = InsertMails(ids, drafts)
  OBVIOUS
<1>15. trans = [k \in 1..L |-> InsertMail(ids[k], drafts[k])]
  BY <1>2, <1>14 DEF InsertMails
<1>16. IsList(trans) /\ Len(trans) = L
  BY <1>2, <1>15, ListFunction
<1>17. ASSUME NEW n \in 1..Len(trans)
       PROVE  /\ trans[n].op \in Ops
              /\ ~Duplicate(g[n - 1], trans[n]) /\ g[n] = Apply(g[n - 1], trans[n])
  <2>1. n \in 1..L /\ n \in 0..L /\ n - 1 \in 0..L
    BY <1>2, <1>16
  <2>2. PICK s : s = trans[n]
    OBVIOUS
  <2>3. s.op = "insertMail" /\ s.id = ids[n] /\ s.mail = drafts[n]
    BY <1>15, <2>1, <2>2 DEF InsertMail
  <2>4. PICK c : c = g[n - 1]
    OBVIOUS
  <2>5. c.mail = box[n - 1] /\ c = [d EXCEPT !.mail = box[n - 1]]
    BY <1>9, <2>1, <2>4
  <2>6. ~Duplicate(c, s)
    BY <1>13, <2>1, <2>3, <2>5 DEF Duplicate
  <2>7. Apply(c, s) = [c EXCEPT !.mail = [c.mail EXCEPT ![ids[n]] = drafts[n]]]
    BY <2>3 DEF Apply
  <2>8. [c.mail EXCEPT ![ids[n]] = drafts[n]] = box[n]
    BY <1>12, <2>1, <2>5
  <2>9. Apply(c, s) = [c EXCEPT !.mail = box[n]]
    BY <2>7, <2>8
  <2>10. g[n] = [d EXCEPT !.mail = box[n]]
    BY <2>1
  <2>11. [c EXCEPT !.mail = box[n]] = [d EXCEPT !.mail = box[n]]
    BY <2>5 DEF Tables
  <2> QED BY <2>2, <2>3, <2>4, <2>6, <2>9, <2>10, <2>11 DEF Ops
<1>18. g \in [0..L -> Tables]
  BY <1>9
<1> HIDE DEF g
<1>19. Trace(d, trans, g[L], g)
  BY <1>11, <1>16, <1>17, <1>18 DEF Trace
<1>20. Posted(d.mail, ids, drafts, g[L].mail)
  <2>1. L \in 0..L /\ g[L].mail = box[L]
    BY <1>2, <1>9
  <2>2. \A k \in 1..L : box[L][ids[k]] = drafts[k]
    BY <1>2, <1>5, <1>8, <2>1
  <2>3. \A id \in MailIds : (\A k \in 1..L : ids[k] # id) => box[L][id] = d.mail[id]
    BY <1>6, <1>8, <2>1
  <2> QED BY <1>1, <2>1, <2>2, <2>3 DEF Posted
<1>21. Runs(d, trans, g[L])
  BY <1>16, <1>19 DEF Runs
<1>22. L \in 0..L
  BY <1>2
<1> QED BY <1>9, <1>14, <1>20, <1>21, <1>22

-----------------------------------------------------------------------------
(***************************************************************************)
(* Items                                                                    *)
(***************************************************************************)

\* Inventories, update queues and states of items agree with the tables.
ItemOk(on, iv, uq, us, V, N, E) ==
    /\ on \subseteq Players /\ ItemTypes(iv, uq, us, V) /\ PlacesSound(V, N, E)
    /\ ItemSync(on, iv, uq, us, V, E)

\* What an item that memory knows of has in the tables.
LEMMA ItemRows ==
    ASSUME NEW on, NEW iv, NEW uq, NEW us, NEW V, NEW N, NEW E,
           ItemOk(on, iv, uq, us, V, N, E),
           NEW p \in Players, NEW i \in Items, i \in iv[p] \cup uq[p]
    PROVE  /\ p \in on /\ i \notin E
           /\ us[i] # "new" => V[i] = p
           /\ us[i] = "new" => V[i] = None /\ i \in iv[p]
<1> on \subseteq Players /\ ItemTypes(iv, uq, us, V) /\ PlacesSound(V, N, E)
    /\ ItemSync(on, iv, uq, us, V, E)
  BY DEF ItemOk
<1>1. p \in on
  BY DEF ItemSync
<1>2. us[i] # "new" => V[i] = p
  BY <1>1 DEF ItemSync
<1>3. us[i] = "new" => V[i] = None /\ i \notin E /\ i \in iv[p]
  BY DEF ItemSync
<1>4. us[i] # "new" => i \notin E
  BY <1>2, NullAssumption DEF PlacesSound
<1> QED BY <1>1, <1>2, <1>3, <1>4

\* Nobody has an item that is elsewhere, or that the tables have for a player who
\* is not in the world.
LEMMA ItemAbsent ==
    ASSUME NEW on, NEW iv, NEW uq, NEW us, NEW V, NEW N, NEW E,
           ItemOk(on, iv, uq, us, V, N, E),
           NEW i \in Items, i \in E \/ (V[i] # None /\ V[i] \notin on)
    PROVE  us[i] = "unchanged" /\ \A p \in Players : i \notin iv[p] \cup uq[p]
<1> on \subseteq Players /\ ItemTypes(iv, uq, us, V) /\ PlacesSound(V, N, E)
    /\ ItemSync(on, iv, uq, us, V, E)
  BY DEF ItemOk
<1>1. ASSUME NEW p \in Players, i \in iv[p] \cup uq[p] PROVE FALSE
  <2>1. /\ p \in on /\ i \notin E
        /\ us[i] # "new" => V[i] = p
        /\ us[i] = "new" => V[i] = None
    BY <1>1, ItemRows
  <2> QED BY <2>1
<1>2. us[i] = "unchanged"
  BY <1>1 DEF ItemSync
<1> QED BY <1>1, <1>2

\* The inventory table has the same of the others as before.
OthersKept(p, V, W) ==
    \A q \in Players \ {p} : \A j \in Items : W[j] = q <=> V[j] = q

\* MoveItemFromInventory and DeleteFromInventoryDB: in memory and in the tables.
Leaves(iv, uq, us, p, i, iw, ur, ut) ==
    /\ p \in Players /\ i \in Items /\ i \in iv[p]
    /\ iw = [iv EXCEPT ![p] = @ \ {i}] /\ ur = [uq EXCEPT ![p] = @ \ {i}]
    /\ ut = [us EXCEPT ![i] = "unchanged"]

\* The inventory table V and the instances N, before and after.
Detached(us, V, N, i, W, M) ==
    W = [V EXCEPT ![i] = None] /\ M = IF us[i] = "new" THEN N \cup {i} ELSE N

\* An item of p goes into a mail or an auction.
LEMMA ItemLeaves ==
    ASSUME NEW on, NEW iv, NEW uq, NEW us, NEW V, NEW N, NEW E,
           ItemOk(on, iv, uq, us, V, N, E),
           NEW p, NEW i, NEW iw, NEW ur, NEW ut, Leaves(iv, uq, us, p, i, iw, ur, ut),
           NEW W, NEW M, Detached(us, V, N, i, W, M)
    PROVE  /\ ItemOk(on, iw, ur, ut, W, M, E \cup {i}) /\ i \notin E
           /\ OthersKept(p, V, W)
<1> /\ p \in Players /\ i \in Items /\ i \in iv[p]
    /\ iw = [iv EXCEPT ![p] = @ \ {i}] /\ ur = [uq EXCEPT ![p] = @ \ {i}]
    /\ ut = [us EXCEPT ![i] = "unchanged"]
    /\ W = [V EXCEPT ![i] = None] /\ M = IF us[i] = "new" THEN N \cup {i} ELSE N
  BY DEF Leaves, Detached
<1> on \subseteq Players /\ ItemTypes(iv, uq, us, V) /\ PlacesSound(V, N, E)
    /\ ItemSync(on, iv, uq, us, V, E)
  BY DEF ItemOk
<1>1. /\ p \in on /\ i \notin E
      /\ us[i] # "new" => V[i] = p
      /\ us[i] = "new" => V[i] = None
  BY ItemRows
<1>2. ItemTypes(iw, ur, ut, W)
  BY DEF ItemTypes
<1>3. /\ \A q \in Players : iw[q] = (IF q = p THEN iv[p] \ {i} ELSE iv[q])
      /\ \A q \in Players : ur[q] = (IF q = p THEN uq[p] \ {i} ELSE uq[q])
      /\ \A j \in Items : ut[j] = (IF j = i THEN "unchanged" ELSE us[j])
      /\ \A j \in Items : W[j] = (IF j = i THEN None ELSE V[j])
  BY DEF ItemTypes
<1>4. \A q \in Players : q # p => i \notin iv[q] \cup uq[q]
  BY DEF ItemSync
<1>5. ItemSync(on, iw, ur, ut, W, E \cup {i})
  <2>1. \A q \in Players : q \notin on => iw[q] = {} /\ ur[q] = {}
    BY <1>3, <1>1 DEF ItemSync
  <2>2. \A q, r \in Players : \A j \in Items :
          j \in iw[q] \cup ur[q] /\ j \in iw[r] \cup ur[r] => q = r
    <3>1. \A q \in Players : iw[q] \cup ur[q] \subseteq iv[q] \cup uq[q]
      BY <1>3
    <3> QED BY <3>1 DEF ItemSync
  <2>3. ASSUME NEW q \in Players, NEW j \in iw[q]
        PROVE  ut[j] # "removed" /\ (ut[j] # "unchanged" => j \in ur[q])
    <3>1. j \in iv[q] /\ j # i /\ j \in Items
      BY <1>3, <1>4 DEF ItemTypes
    <3> QED BY <1>3, <3>1 DEF ItemSync
  <2>4. ASSUME NEW q \in Players, NEW j \in ur[q]
        PROVE  j \in iw[q] \/ ut[j] = "removed"
    <3>1. j \in uq[q] /\ j # i /\ j \in Items
      BY <1>3, <1>4 DEF ItemTypes
    <3> QED BY <1>3, <3>1 DEF ItemSync
  <2>5. ASSUME NEW j \in Items, ut[j] # "unchanged"
        PROVE  \E q \in Players : j \in ur[q]
    <3>1. j # i /\ us[j] # "unchanged"
      BY <1>3, <2>5
    <3>2. PICK q \in Players : j \in uq[q]
      BY <3>1 DEF ItemSync
    <3> QED BY <1>3, <3>1, <3>2
  <2>6. ASSUME NEW q \in on, NEW j \in Items
        PROVE  W[j] = q <=> \/ j \in iw[q] /\ ut[j] # "new"
                            \/ j \in ur[q] /\ ut[j] = "removed"
    <3>0. q \in Players /\ q # None
      BY NullAssumption
    <3>1. CASE j = i
      <4>1. W[j] = None /\ j \notin iw[q] /\ j \notin ur[q]
        BY <1>3, <1>4, <3>0, <3>1
      <4> QED BY <3>0, <4>1
    <3>2. CASE j # i
      <4>1. W[j] = V[j] /\ ut[j] = us[j] /\ (j \in iw[q] <=> j \in iv[q])
            /\ (j \in ur[q] <=> j \in uq[q])
        BY <1>3, <3>0, <3>2
      <4> QED BY <4>1 DEF ItemSync
    <3> QED BY <3>1, <3>2
  <2>7. \A j \in Items : ut[j] = "new" => W[j] = None /\ j \notin E \cup {i}
    BY <1>3 DEF ItemSync
  <2> QED BY <2>1, <2>2, <2>3, <2>4, <2>5, <2>6, <2>7 DEF ItemSync
<1>6. PlacesSound(W, M, E \cup {i})
  <2>1. i \in M
    BY <1>1, NullAssumption DEF PlacesSound
  <2> QED BY <1>3, <2>1 DEF PlacesSound
<1>7. ASSUME NEW q \in Players \ {p}, NEW j \in Items
      PROVE  W[j] = q <=> V[j] = q
  <2>1. q # p /\ q # None
    BY NullAssumption
  <2>2. CASE j = i
    BY <1>1, <1>3, <2>1, <2>2
  <2>3. CASE j # i
    BY <1>3, <2>3
  <2> QED BY <2>2, <2>3
<1> QED BY <1>1, <1>2, <1>5, <1>6, <1>7 DEF ItemOk, OthersKept

\* p gets an item that nobody has and that is in no other place.
LEMMA ItemEnters ==
    ASSUME NEW on, NEW iv, NEW uq, NEW us, NEW V, NEW N, NEW E,
           ItemOk(on, iv, uq, us, V, N, E),
           NEW p \in on, NEW i \in Items, V[i] = None,
           \A q \in Players : i \notin iv[q] \cup uq[q],
           NEW iw, NEW ur, NEW ut, NEW F, i \notin F, F \subseteq E,
           iw = [iv EXCEPT ![p] = @ \cup {i}], ur = [uq EXCEPT ![p] = @ \cup {i}],
           ut = [us EXCEPT ![i] = "new"]
    PROVE  ItemOk(on, iw, ur, ut, V, N, F)
<1> on \subseteq Players /\ ItemTypes(iv, uq, us, V) /\ PlacesSound(V, N, E)
    /\ ItemSync(on, iv, uq, us, V, E)
  BY DEF ItemOk
<1>1. p \in Players
  OBVIOUS
<1>2. ItemTypes(iw, ur, ut, V)
  BY DEF ItemTypes
<1>3. /\ \A q \in Players : iw[q] = (IF q = p THEN iv[p] \cup {i} ELSE iv[q])
      /\ \A q \in Players : ur[q] = (IF q = p THEN uq[p] \cup {i} ELSE uq[q])
      /\ \A j \in Items : ut[j] = (IF j = i THEN "new" ELSE us[j])
  BY DEF ItemTypes
<1>4. ItemSync(on, iw, ur, ut, V, F)
  <2>1. \A q \in Players : q \notin on => iw[q] = {} /\ ur[q] = {}
    BY <1>3 DEF ItemSync
  <2>2. ASSUME NEW q \in Players, NEW r \in Players, NEW j \in Items,
               j \in iw[q] \cup ur[q], j \in iw[r] \cup ur[r]
        PROVE  q = r
    <3>1. CASE j = i
      BY <1>3, <2>2, <3>1
    <3>2. CASE j # i
      <4>1. j \in iv[q] \cup uq[q] /\ j \in iv[r] \cup uq[r]
        BY <1>3, <2>2, <3>2
      <4> QED BY <4>1 DEF ItemSync
    <3> QED BY <3>1, <3>2
  <2>3. ASSUME NEW q \in Players, NEW j \in iw[q]
        PROVE  ut[j] # "removed" /\ (ut[j] # "unchanged" => j \in ur[q])
    <3>1. j \in Items
      BY <1>2 DEF ItemTypes
    <3>2. CASE j = i
      BY <1>3, <3>2
    <3>3. CASE j # i
      <4>1. j \in iv[q]
        BY <1>3, <3>3
      <4> QED BY <1>3, <3>1, <3>3, <4>1 DEF ItemSync
    <3> QED BY <3>2, <3>3
  <2>4. ASSUME NEW q \in Players, NEW j \in ur[q]
        PROVE  j \in iw[q] \/ ut[j] = "removed"
    <3>1. j \in Items
      BY <1>2 DEF ItemTypes
    <3>2. CASE j = i
      BY <1>3, <3>2
    <3>3. CASE j # i
      <4>1. j \in uq[q]
        BY <1>3, <3>3
      <4> QED BY <1>3, <3>1, <3>3, <4>1 DEF ItemSync
    <3> QED BY <3>2, <3>3
  <2>5. ASSUME NEW j \in Items, ut[j] # "unchanged"
        PROVE  \E q \in Players : j \in ur[q]
    <3>1. CASE j = i
      BY <1>1, <1>3, <3>1
    <3>2. CASE j # i
      <4>1. PICK q \in Players : j \in uq[q]
        BY <1>3, <2>5, <3>2 DEF ItemSync
      <4> QED BY <1>3, <4>1
    <3> QED BY <3>1, <3>2
  <2>6. ASSUME NEW q \in on, NEW j \in Items
        PROVE  V[j] = q <=> \/ j \in iw[q] /\ ut[j] # "new"
                            \/ j \in ur[q] /\ ut[j] = "removed"
    <3>0. q \in Players /\ q # None
      BY NullAssumption
    <3>1. CASE j = i
      BY <1>3, <3>0, <3>1
    <3>2. CASE j # i
      <4>1. ut[j] = us[j] /\ (j \in iw[q] <=> j \in iv[q]) /\ (j \in ur[q] <=> j \in uq[q])
        BY <1>3, <3>0, <3>2
      <4> QED BY <4>1 DEF ItemSync
    <3> QED BY <3>1, <3>2
  <2>7. \A j \in Items : ut[j] = "new" => V[j] = None /\ j \notin F
    BY <1>3 DEF ItemSync
  <2> QED BY <2>1, <2>2, <2>3, <2>4, <2>5, <2>6, <2>7 DEF ItemSync
<1>5. PlacesSound(V, N, F)
  BY DEF PlacesSound
<1> QED BY <1>2, <1>4, <1>5 DEF ItemOk

\* The inventory table after _SaveInventory.
Stored(V, p, queued, us) ==
    [i \in Items |->
        IF i \in {j \in queued : us[j] = "new"}
             \/ (i \in {j \in queued : us[j] = "changed"} /\ V[i] # None) THEN p
        ELSE IF i \in {j \in queued : us[j] = "removed"} THEN None ELSE V[i]]

\* And the instances.
Instances(N, queued, us) ==
    (N \cup {j \in queued : us[j] = "new"}) \ {j \in queued : us[j] = "removed"}

\* Nothing is in the update queue of p, and what was is unchanged.
QueueSaved(uq, us, p, ur, ut) ==
    /\ ur = [uq EXCEPT ![p] = {}]
    /\ ut = [i \in Items |-> IF i \in uq[p] THEN "unchanged" ELSE us[i]]

\* The update queue of p is saved.
LEMMA ItemsSaved ==
    ASSUME NEW on, NEW iv, NEW uq, NEW us, NEW V, NEW N, NEW E,
           ItemOk(on, iv, uq, us, V, N, E),
           NEW p \in on, NEW ur, NEW ut, QueueSaved(uq, us, p, ur, ut)
    PROVE  /\ ItemOk(on, iv, ur, ut, Stored(V, p, uq[p], us), Instances(N, uq[p], us), E)
           /\ OthersKept(p, V, Stored(V, p, uq[p], us))
<1> on \subseteq Players /\ ItemTypes(iv, uq, us, V) /\ PlacesSound(V, N, E)
    /\ ItemSync(on, iv, uq, us, V, E)
  BY DEF ItemOk
<1> /\ ur = [uq EXCEPT ![p] = {}]
    /\ ut = [i \in Items |-> IF i \in uq[p] THEN "unchanged" ELSE us[i]]
  BY DEF QueueSaved
<1>1. p \in Players /\ p # None
  BY NullAssumption
<1>2. PICK W : W = Stored(V, p, uq[p], us)
  OBVIOUS
<1>3. /\ \A q \in Players : ur[q] = (IF q = p THEN {} ELSE uq[q])
      /\ \A j \in Items : ut[j] = (IF j \in uq[p] THEN "unchanged" ELSE us[j])
  BY DEF ItemTypes
<1>4. ASSUME NEW i \in Items
      PROVE  W[i] = IF (i \in uq[p] /\ us[i] = "new") \/
                          (i \in uq[p] /\ us[i] = "changed" /\ V[i] # None) THEN p
                    ELSE IF i \in uq[p] /\ us[i] = "removed" THEN None ELSE V[i]
  BY <1>2 DEF Stored
<1>5. W \in [Items -> Players \cup {None}]
  <2>1. ASSUME NEW i \in Items PROVE W[i] \in Players \cup {None}
    BY <1>1, <1>4 DEF ItemTypes
  <2> QED BY <1>2, <2>1 DEF Stored
<1>6. ItemTypes(iv, ur, ut, W)
  <2>1. ut \in [Items -> {"new", "changed", "removed", "unchanged"}]
    BY DEF ItemTypes
  <2>2. ur \in [Players -> SUBSET Items]
    BY DEF ItemTypes
  <2> QED BY <1>5, <2>1, <2>2 DEF ItemTypes
\* What is queued and what the tables have of it.
<1>7. ASSUME NEW i \in Items, i \in uq[p]
      PROVE  /\ us[i] = "removed" => W[i] = None /\ i \notin iv[p] /\ V[i] = p
             /\ us[i] # "removed" => W[i] = p /\ i \in iv[p]
             /\ us[i] # "new" => V[i] = p
             /\ us[i] = "new" => V[i] = None
             /\ i \notin E
  <2>1. /\ us[i] # "new" => V[i] = p
        /\ us[i] = "new" => V[i] = None
        /\ i \notin E
    BY <1>1, <1>7, ItemRows
  <2>2. us[i] \in {"new", "changed", "removed", "unchanged"}
    BY DEF ItemTypes
  <2>3. us[i] = "removed" => i \notin iv[p]
    BY <1>1 DEF ItemSync
  <2>4. us[i] # "removed" => i \in iv[p]
    BY <1>1, <1>7 DEF ItemSync
  <2> QED BY <1>1, <1>4, <1>7, <2>1, <2>2, <2>3, <2>4
<1>8. ASSUME NEW i \in Items, i \notin uq[p] PROVE W[i] = V[i] /\ ut[i] = us[i]
  BY <1>3, <1>4, <1>8
<1>9. ASSUME NEW q \in Players, q # p, NEW i \in Items, i \in iv[q] \cup uq[q]
      PROVE  i \notin uq[p] /\ i \notin iv[p]
  BY <1>1, <1>9 DEF ItemSync
<1>10. ItemSync(on, iv, ur, ut, W, E)
  <2>1. \A q \in Players : q \notin on => iv[q] = {} /\ ur[q] = {}
    BY <1>3 DEF ItemSync
  <2>2. \A q, r \in Players : \A j \in Items :
          j \in iv[q] \cup ur[q] /\ j \in iv[r] \cup ur[r] => q = r
    <3>1. \A q \in Players : iv[q] \cup ur[q] \subseteq iv[q] \cup uq[q]
      BY <1>3
    <3> QED BY <3>1 DEF ItemSync
  <2>3. ASSUME NEW q \in Players, NEW j \in iv[q]
        PROVE  ut[j] # "removed" /\ (ut[j] # "unchanged" => j \in ur[q])
    <3>1. j \in Items
      BY DEF ItemTypes
    <3>2. us[j] # "removed" /\ (us[j] # "unchanged" => j \in uq[q])
      BY DEF ItemSync
    <3>3. CASE q = p
      BY <1>3, <3>1, <3>2, <3>3
    <3>4. CASE q # p
      <4>1. j \notin uq[p]
        BY <1>9, <3>1, <3>4
      <4> QED BY <1>3, <3>1, <3>2, <3>4, <4>1
    <3> QED BY <3>3, <3>4
  <2>4. ASSUME NEW q \in Players, NEW j \in ur[q]
        PROVE  j \in iv[q] \/ ut[j] = "removed"
    <3>1. q # p /\ j \in uq[q]
      BY <1>3
    <3>2. j \in Items
      BY <3>1 DEF ItemTypes
    <3>3. j \notin uq[p]
      BY <1>9, <3>1, <3>2
    <3>4. j \in iv[q] \/ us[j] = "removed"
      BY <3>1 DEF ItemSync
    <3> QED BY <1>8, <3>2, <3>3, <3>4
  <2>5. ASSUME NEW j \in Items, ut[j] # "unchanged"
        PROVE  \E q \in Players : j \in ur[q]
    <3>1. j \notin uq[p] /\ us[j] # "unchanged"
      BY <1>3, <2>5
    <3>2. PICK q \in Players : j \in uq[q]
      BY <3>1 DEF ItemSync
    <3> QED BY <1>3, <3>1, <3>2
  <2>6. ASSUME NEW q \in on, NEW j \in Items
        PROVE  W[j] = q <=> \/ j \in iv[q] /\ ut[j] # "new"
                            \/ j \in ur[q] /\ ut[j] = "removed"
    <3>0. q \in Players /\ q # None
      BY NullAssumption
    <3>1. V[j] = q <=> \/ j \in iv[q] /\ us[j] # "new"
                       \/ j \in uq[q] /\ us[j] = "removed"
      BY DEF ItemSync
    <3>2. CASE j \in uq[p] /\ q = p
      BY <1>1, <1>3, <1>7, <3>2
    <3>3. CASE j \in uq[p] /\ q # p
      <4>1. j \notin iv[q] /\ j \notin uq[q]
        BY <1>9, <3>0, <3>3
      <4> QED BY <1>3, <1>7, <3>0, <3>3, <4>1
    <3>4. CASE j \notin uq[p]
      BY <1>3, <1>8, <3>0, <3>1, <3>4
    <3> QED BY <3>2, <3>3, <3>4
  <2>7. ASSUME NEW j \in Items, ut[j] = "new"
        PROVE  W[j] = None /\ j \notin E
    <3>1. j \notin uq[p] /\ us[j] = "new"
      BY <1>3, <2>7
    <3> QED BY <1>8, <3>1 DEF ItemSync
  <2> QED BY <2>1, <2>2, <2>3, <2>4, <2>5, <2>6, <2>7 DEF ItemSync
<1>11. PlacesSound(W, Instances(N, uq[p], us), E)
  <2>1. ASSUME NEW i \in Items
        PROVE  /\ W[i] # None => i \notin E
               /\ W[i] # None \/ i \in E => i \in Instances(N, uq[p], us)
    <3>1. CASE i \in uq[p]
      <4>1. us[i] # "removed" => i \in Instances(N, uq[p], us)
        <5>1. us[i] # "new" => i \in N
          BY <1>1, <1>7, <3>1 DEF PlacesSound
        <5> QED BY <3>1, <5>1 DEF Instances
      <4> QED BY <1>7, <3>1, <4>1
    <3>2. CASE i \notin uq[p]
      BY <1>8, <3>2 DEF PlacesSound, Instances
    <3> QED BY <3>1, <3>2
  <2> QED BY <2>1 DEF PlacesSound
<1>12. ASSUME NEW q \in Players \ {p}, NEW j \in Items
       PROVE  W[j] = q <=> V[j] = q
  <2>1. q # p /\ q # None
    BY NullAssumption
  <2>2. CASE j \in uq[p]
    BY <1>7, <2>1, <2>2
  <2>3. CASE j \notin uq[p]
    BY <1>8, <2>3
  <2> QED BY <2>2, <2>3
<1> QED BY <1>2, <1>6, <1>10, <1>11, <1>12 DEF ItemOk, OthersKept

\* Mails are deleted with the items D in them.
LEMMA ItemsDropped ==
    ASSUME NEW on, NEW iv, NEW uq, NEW us, NEW V, NEW N, NEW E,
           ItemOk(on, iv, uq, us, V, N, E),
           NEW D, NEW F, D \subseteq E, F \subseteq E, D \cap F = {}
    PROVE  ItemOk(on, iv, uq, us, V, N \ D, F)
<1> on \subseteq Players /\ ItemTypes(iv, uq, us, V) /\ PlacesSound(V, N, E)
    /\ ItemSync(on, iv, uq, us, V, E)
  BY DEF ItemOk
<1>1. PlacesSound(V, N \ D, F)
  BY DEF PlacesSound
<1>2. ItemSync(on, iv, uq, us, V, F)
  BY DEF ItemSync
<1> QED BY <1>1, <1>2 DEF ItemOk

\* An item is moved, used or enchanted.
LEMMA ItemTouched ==
    ASSUME NEW on, NEW iv, NEW uq, NEW us, NEW V, NEW N, NEW E,
           ItemOk(on, iv, uq, us, V, N, E),
           NEW p \in Players, NEW i \in Items, i \in iv[p], us[i] = "unchanged",
           NEW ur, NEW ut,
           ur = [uq EXCEPT ![p] = @ \cup {i}], ut = [us EXCEPT ![i] = "changed"]
    PROVE  ItemOk(on, iv, ur, ut, V, N, E)
<1> on \subseteq Players /\ ItemTypes(iv, uq, us, V) /\ PlacesSound(V, N, E)
    /\ ItemSync(on, iv, uq, us, V, E)
  BY DEF ItemOk
<1>1. ItemTypes(iv, ur, ut, V)
  BY DEF ItemTypes
<1>2. /\ \A q \in Players : ur[q] = (IF q = p THEN uq[p] \cup {i} ELSE uq[q])
      /\ \A j \in Items : ut[j] = (IF j = i THEN "changed" ELSE us[j])
  BY DEF ItemTypes
<1>3. /\ \A q \in Players : iv[q] \cup ur[q] = iv[q] \cup uq[q]
      /\ \A q \in Players : q # p => i \notin iv[q] \cup uq[q]
  BY <1>2 DEF ItemSync
<1>4. ItemSync(on, iv, ur, ut, V, E)
  <2>1. \A q \in Players : q \notin on => iv[q] = {} /\ ur[q] = {}
    BY <1>2 DEF ItemSync
  <2>2. \A q, r \in Players : \A j \in Items :
          j \in iv[q] \cup ur[q] /\ j \in iv[r] \cup ur[r] => q = r
    BY <1>3 DEF ItemSync
  <2>3. ASSUME NEW q \in Players, NEW j \in iv[q]
        PROVE  ut[j] # "removed" /\ (ut[j] # "unchanged" => j \in ur[q])
    <3>1. j \in Items /\ (j = i => q = p)
      BY <1>3 DEF ItemTypes
    <3> QED BY <1>2, <3>1 DEF ItemSync
  <2>4. ASSUME NEW q \in Players, NEW j \in ur[q]
        PROVE  j \in iv[q] \/ ut[j] = "removed"
    <3>1. j \in Items
      BY <1>1 DEF ItemTypes
    <3>2. CASE j = i
      BY <1>2, <1>3, <3>2
    <3>3. CASE j # i
      <4>1. j \in uq[q]
        BY <1>2, <3>3
      <4> QED BY <1>2, <3>1, <3>3, <4>1 DEF ItemSync
    <3> QED BY <3>2, <3>3
  <2>5. ASSUME NEW j \in Items, ut[j] # "unchanged"
        PROVE  \E q \in Players : j \in ur[q]
    <3>1. CASE j = i
      BY <1>2, <3>1
    <3>2. CASE j # i
      <4>1. PICK q \in Players : j \in uq[q]
        BY <1>2, <2>5, <3>2 DEF ItemSync
      <4> QED BY <1>2, <4>1
    <3> QED BY <3>1, <3>2
  <2>6. ASSUME NEW q \in on, NEW j \in Items
        PROVE  V[j] = q <=> \/ j \in iv[q] /\ ut[j] # "new"
                            \/ j \in ur[q] /\ ut[j] = "removed"
    <3>0. q \in Players
      OBVIOUS
    <3>1. V[j] = q <=> \/ j \in iv[q] /\ us[j] # "new"
                       \/ j \in uq[q] /\ us[j] = "removed"
      BY DEF ItemSync
    <3>2. CASE j = i
      BY <1>2, <3>0, <3>1, <3>2
    <3>3. CASE j # i
      BY <1>2, <3>0, <3>1, <3>3
    <3> QED BY <3>2, <3>3
  <2>7. \A j \in Items : ut[j] = "new" => V[j] = None /\ j \notin E
    BY <1>2 DEF ItemSync
  <2> QED BY <2>1, <2>2, <2>3, <2>4, <2>5, <2>6, <2>7 DEF ItemSync
<1> QED BY <1>1, <1>4 DEF ItemOk

\* SetState(ITEM_REMOVED).
Removal(uq, us, p, i, ur, ut) ==
    /\ us[i] = "new" => /\ ut = [us EXCEPT ![i] = "unchanged"]
                        /\ ur = [uq EXCEPT ![p] = @ \ {i}]
    /\ us[i] # "new" => /\ ut = [us EXCEPT ![i] = "removed"]
                        /\ ur = [uq EXCEPT ![p] = @ \cup {i}]

\* An item is sold or destroyed.
LEMMA ItemDestroyed ==
    ASSUME NEW on, NEW iv, NEW uq, NEW us, NEW V, NEW N, NEW E,
           ItemOk(on, iv, uq, us, V, N, E),
           NEW p \in Players, NEW i \in Items, i \in iv[p],
           NEW iw, NEW ur, NEW ut, iw = [iv EXCEPT ![p] = @ \ {i}],
           Removal(uq, us, p, i, ur, ut)
    PROVE  ItemOk(on, iw, ur, ut, V, N, E)
<1> /\ us[i] = "new" => /\ ut = [us EXCEPT ![i] = "unchanged"]
                        /\ ur = [uq EXCEPT ![p] = @ \ {i}]
    /\ us[i] # "new" => /\ ut = [us EXCEPT ![i] = "removed"]
                        /\ ur = [uq EXCEPT ![p] = @ \cup {i}]
  BY DEF Removal
<1> on \subseteq Players /\ ItemTypes(iv, uq, us, V) /\ PlacesSound(V, N, E)
    /\ ItemSync(on, iv, uq, us, V, E)
  BY DEF ItemOk
<1>1. /\ p \in on /\ i \notin E
      /\ us[i] # "new" => V[i] = p
      /\ us[i] = "new" => V[i] = None
  BY ItemRows
<1>2. ItemTypes(iw, ur, ut, V)
  BY DEF ItemTypes
<1>3. /\ \A q \in Players : iw[q] = (IF q = p THEN iv[p] \ {i} ELSE iv[q])
      /\ \A q \in Players : q # p => ur[q] = uq[q]
      /\ us[i] = "new" => ur[p] = uq[p] \ {i} /\ ut[i] = "unchanged"
      /\ us[i] # "new" => ur[p] = uq[p] \cup {i} /\ ut[i] = "removed"
      /\ \A j \in Items : j # i => ut[j] = us[j]
  BY DEF ItemTypes
<1>4. \A q \in Players : q # p => i \notin iv[q] \cup uq[q]
  BY DEF ItemSync
<1>5. \A j \in Items : j # i => \A q \in Players : (j \in iw[q] <=> j \in iv[q])
                                               /\ (j \in ur[q] <=> j \in uq[q])
  BY <1>3
<1>6. ItemSync(on, iw, ur, ut, V, E)
  <2>1. \A q \in Players : q \notin on => iw[q] = {} /\ ur[q] = {}
    BY <1>1, <1>3 DEF ItemSync
  <2>2. ASSUME NEW q \in Players, NEW r \in Players, NEW j \in Items,
               j \in iw[q] \cup ur[q], j \in iw[r] \cup ur[r]
        PROVE  q = r
    <3>1. CASE j = i
      BY <1>3, <1>4, <2>2, <3>1
    <3>2. CASE j # i
      <4>1. j \in iv[q] \cup uq[q] /\ j \in iv[r] \cup uq[r]
        BY <1>5, <2>2, <3>2
      <4> QED BY <4>1 DEF ItemSync
    <3> QED BY <3>1, <3>2
  <2>3. ASSUME NEW q \in Players, NEW j \in iw[q]
        PROVE  ut[j] # "removed" /\ (ut[j] # "unchanged" => j \in ur[q])
    <3>1. j \in Items /\ j # i /\ j \in iv[q]
      BY <1>2, <1>3, <1>4 DEF ItemTypes
    <3> QED BY <1>3, <1>5, <3>1 DEF ItemSync
  <2>4. ASSUME NEW q \in Players, NEW j \in ur[q]
        PROVE  j \in iw[q] \/ ut[j] = "removed"
    <3>1. j \in Items
      BY <1>2 DEF ItemTypes
    <3>2. CASE j = i
      BY <1>3, <1>4, <3>2
    <3>3. CASE j # i
      <4>1. j \in uq[q] /\ (j \in iv[q] \/ us[j] = "removed")
        BY <1>5, <3>1, <3>3 DEF ItemSync
      <4> QED BY <1>3, <1>5, <3>1, <3>3, <4>1
    <3> QED BY <3>2, <3>3
  <2>5. ASSUME NEW j \in Items, ut[j] # "unchanged"
        PROVE  \E q \in Players : j \in ur[q]
    <3>1. CASE j = i
      BY <1>3, <2>5, <3>1
    <3>2. CASE j # i
      <4>1. PICK q \in Players : j \in uq[q]
        BY <1>3, <2>5, <3>2 DEF ItemSync
      <4> QED BY <1>5, <3>2, <4>1
    <3> QED BY <3>1, <3>2
  <2>6. ASSUME NEW q \in on, NEW j \in Items
        PROVE  V[j] = q <=> \/ j \in iw[q] /\ ut[j] # "new"
                            \/ j \in ur[q] /\ ut[j] = "removed"
    <3>0. q \in Players /\ q # None
      BY NullAssumption
    <3>1. V[j] = q <=> \/ j \in iv[q] /\ us[j] # "new"
                       \/ j \in uq[q] /\ us[j] = "removed"
      BY DEF ItemSync
    <3>2. CASE j = i /\ q = p
      BY <1>1, <1>3, <3>0, <3>2
    <3>3. CASE j = i /\ q # p
      BY <1>1, <1>3, <1>4, <3>0, <3>3
    <3>4. CASE j # i
      BY <1>3, <1>5, <3>0, <3>1, <3>4
    <3> QED BY <3>2, <3>3, <3>4
  <2>7. \A j \in Items : ut[j] = "new" => V[j] = None /\ j \notin E
    BY <1>3 DEF ItemSync
  <2> QED BY <2>1, <2>2, <2>3, <2>4, <2>5, <2>6, <2>7 DEF ItemSync
<1> QED BY <1>2, <1>6 DEF ItemOk

\* A player whose update queue is empty leaves the world.
LEMMA PlayerLeaves ==
    ASSUME NEW on, NEW iv, NEW uq, NEW us, NEW V, NEW N, NEW E,
           ItemOk(on, iv, uq, us, V, N, E),
           NEW p \in Players, uq[p] = {}, NEW iw, iw = [iv EXCEPT ![p] = {}]
    PROVE  ItemOk(on \ {p}, iw, uq, us, V, N, E)
<1> on \subseteq Players /\ ItemTypes(iv, uq, us, V) /\ PlacesSound(V, N, E)
    /\ ItemSync(on, iv, uq, us, V, E)
  BY DEF ItemOk
<1>1. ItemTypes(iw, uq, us, V)
  BY DEF ItemTypes
<1>2. iw[p] = {} /\ \A q \in Players : q # p => iw[q] = iv[q]
  BY DEF ItemTypes
<1>3. ItemSync(on \ {p}, iw, uq, us, V, E)
  <2>1. \A q \in Players : q \notin on \ {p} => iw[q] = {} /\ uq[q] = {}
    BY <1>2 DEF ItemSync
  <2>2. \A q, r \in Players : \A j \in Items :
          j \in iw[q] \cup uq[q] /\ j \in iw[r] \cup uq[r] => q = r
    BY <1>2 DEF ItemSync
  <2>3. \A q \in Players : \A j \in iw[q] :
          us[j] # "removed" /\ (us[j] # "unchanged" => j \in uq[q])
    BY <1>2 DEF ItemSync
  <2>4. \A q \in Players : \A j \in uq[q] : j \in iw[q] \/ us[j] = "removed"
    BY <1>2 DEF ItemSync
  <2>5. \A j \in Items : us[j] # "unchanged" => \E q \in Players : j \in uq[q]
    BY DEF ItemSync
  <2>6. \A q \in on \ {p} : \A j \in Items :
          V[j] = q <=> \/ j \in iw[q] /\ us[j] # "new"
                       \/ j \in uq[q] /\ us[j] = "removed"
    BY <1>2 DEF ItemSync
  <2>7. \A j \in Items : us[j] = "new" => V[j] = None /\ j \notin E
    BY DEF ItemSync
  <2> QED BY <2>1, <2>2, <2>3, <2>4, <2>5, <2>6, <2>7 DEF ItemSync
<1> QED BY <1>1, <1>3 DEF ItemOk

\* A player loads what the tables have of him.
LEMMA PlayerComes ==
    ASSUME NEW on, NEW iv, NEW uq, NEW us, NEW V, NEW N, NEW E,
           ItemOk(on, iv, uq, us, V, N, E),
           NEW p \in Players, p \notin on,
           NEW iw, iw = [iv EXCEPT ![p] = {i \in Items : V[i] = p}]
    PROVE  ItemOk(on \cup {p}, iw, uq, us, V, N, E)
<1> on \subseteq Players /\ ItemTypes(iv, uq, us, V) /\ PlacesSound(V, N, E)
    /\ ItemSync(on, iv, uq, us, V, E)
  BY DEF ItemOk
<1>1. ItemTypes(iw, uq, us, V)
  BY DEF ItemTypes
<1>2. iw[p] = {i \in Items : V[i] = p} /\ \A q \in Players : q # p => iw[q] = iv[q]
  BY DEF ItemTypes
<1>3. ASSUME NEW i \in iw[p]
      PROVE  /\ i \in Items /\ us[i] = "unchanged"
             /\ \A q \in Players : i \notin iv[q] \cup uq[q]
  <2>1. i \in Items /\ V[i] # None /\ V[i] \notin on
    BY <1>2, NullAssumption
  <2> QED BY <2>1, ItemAbsent
<1>4. uq[p] = {}
  BY DEF ItemSync
<1>5. ItemSync(on \cup {p}, iw, uq, us, V, E)
  <2>1. \A q \in Players : q \notin on \cup {p} => iw[q] = {} /\ uq[q] = {}
    BY <1>2 DEF ItemSync
  <2>2. ASSUME NEW q \in Players, NEW r \in Players, NEW j \in Items,
               j \in iw[q] \cup uq[q], j \in iw[r] \cup uq[r]
        PROVE  q = r
    <3>1. CASE q = p
      BY <1>2, <1>3, <1>4, <2>2, <3>1
    <3>2. CASE r = p
      BY <1>2, <1>3, <1>4, <2>2, <3>2
    <3>3. CASE q # p /\ r # p
      BY <1>2, <2>2, <3>3 DEF ItemSync
    <3> QED BY <3>1, <3>2, <3>3
  <2>3. \A q \in Players : \A j \in iw[q] :
          us[j] # "removed" /\ (us[j] # "unchanged" => j \in uq[q])
    BY <1>2, <1>3 DEF ItemSync
  <2>4. \A q \in Players : \A j \in uq[q] : j \in iw[q] \/ us[j] = "removed"
    BY <1>2, <1>4 DEF ItemSync
  <2>5. \A j \in Items : us[j] # "unchanged" => \E q \in Players : j \in uq[q]
    BY DEF ItemSync
  <2>6. ASSUME NEW q \in on \cup {p}, NEW j \in Items
        PROVE  V[j] = q <=> \/ j \in iw[q] /\ us[j] # "new"
                            \/ j \in uq[q] /\ us[j] = "removed"
    <3>1. CASE q = p
      BY <1>2, <1>3, <1>4, <3>1
    <3>2. CASE q # p
      <4>1. q \in on /\ q \in Players
        BY <3>2
      <4> QED BY <1>2, <3>2, <4>1 DEF ItemSync
    <3> QED BY <3>1, <3>2
  <2>7. \A j \in Items : us[j] = "new" => V[j] = None /\ j \notin E
    BY DEF ItemSync
  <2> QED BY <2>1, <2>2, <2>3, <2>4, <2>5, <2>6, <2>7 DEF ItemSync
<1> QED BY <1>1, <1>5 DEF ItemOk

\* MoveItemFromInventory, and MoveItemToInventory of the other player.
Moves(iv, uq, us, p, q, i, iw, ur, ut) ==
    /\ p # q /\ i \in Items /\ i \in iv[p]
    /\ iw = [iv EXCEPT ![p] = @ \ {i}, ![q] = @ \cup {i}]
    /\ ur = [uq EXCEPT ![p] = @ \ {i}, ![q] = @ \cup {i}]
    /\ ut = [us EXCEPT ![i] = IF @ = "new" THEN "new" ELSE "changed"]

\* The row of an item says that q has it; a new item has none.
Reassigned(us, V, q, i, W) == W = [V EXCEPT ![i] = IF us[i] = "new" THEN None ELSE q]

\* An item goes from p to q, as if the table said so already.
LEMMA ItemMoves ==
    ASSUME NEW on, NEW iv, NEW uq, NEW us, NEW V, NEW N, NEW E,
           ItemOk(on, iv, uq, us, V, N, E),
           NEW p \in on, NEW q \in on, NEW i, NEW iw, NEW ur, NEW ut,
           Moves(iv, uq, us, p, q, i, iw, ur, ut),
           NEW W, Reassigned(us, V, q, i, W)
    PROVE  ItemOk(on, iw, ur, ut, W, N, E)
<1> /\ p # q /\ i \in Items /\ i \in iv[p]
    /\ iw = [iv EXCEPT ![p] = @ \ {i}, ![q] = @ \cup {i}]
    /\ ur = [uq EXCEPT ![p] = @ \ {i}, ![q] = @ \cup {i}]
    /\ ut = [us EXCEPT ![i] = IF @ = "new" THEN "new" ELSE "changed"]
  BY DEF Moves
<1> W = [V EXCEPT ![i] = IF us[i] = "new" THEN None ELSE q]
  BY DEF Reassigned
<1> on \subseteq Players /\ ItemTypes(iv, uq, us, V) /\ PlacesSound(V, N, E)
    /\ ItemSync(on, iv, uq, us, V, E)
  BY DEF ItemOk
<1>0. p \in Players /\ q \in Players
  OBVIOUS
<1>1. /\ i \notin E
      /\ us[i] # "new" => V[i] = p
      /\ us[i] = "new" => V[i] = None
  BY <1>0, ItemRows
<1>2. /\ \A r \in Players : iw[r] = (IF r = p THEN iv[p] \ {i}
                                     ELSE IF r = q THEN iv[q] \cup {i} ELSE iv[r])
      /\ \A r \in Players : ur[r] = (IF r = p THEN uq[p] \ {i}
                                     ELSE IF r = q THEN uq[q] \cup {i} ELSE uq[r])
      /\ \A j \in Items : j # i => ut[j] = us[j] /\ W[j] = V[j]
      /\ us[i] = "new" => ut[i] = "new" /\ W[i] = None
      /\ us[i] # "new" => ut[i] = "changed" /\ W[i] = q
  BY <1>0 DEF ItemTypes
<1>3. ItemTypes(iw, ur, ut, W)
  <2>1. iw \in [Players -> SUBSET Items] /\ ur \in [Players -> SUBSET Items]
    BY <1>0 DEF ItemTypes
  <2>2. /\ ut \in [Items -> {"new", "changed", "removed", "unchanged"}]
        /\ W \in [Items -> Players \cup {None}]
    BY <1>0 DEF ItemTypes
  <2> QED BY <2>1, <2>2 DEF ItemTypes
<1>4. \A r \in Players : r # p => i \notin iv[r] \cup uq[r]
  BY <1>0 DEF ItemSync
<1>5. \A j \in Items : j # i => \A r \in Players : (j \in iw[r] <=> j \in iv[r])
                                               /\ (j \in ur[r] <=> j \in uq[r])
  BY ONLY <1>2
<1>6. \A r \in Players : (i \in iw[r] <=> r = q) /\ (i \in ur[r] <=> r = q)
  <2>1. p # q
    OBVIOUS
  <2> QED BY ONLY <1>2, <1>4, <2>1
<1>a. ItemSync(on, iv, uq, us, V, E) /\ ItemTypes(iv, uq, us, V) /\ on \subseteq Players
      /\ p \in on /\ q \in on
  OBVIOUS
<1>7. ItemSync(on, iw, ur, ut, W, E)
  <2>1. \A r \in Players : r \notin on => iw[r] = {} /\ ur[r] = {}
    BY ONLY <1>2, <1>a DEF ItemSync
  <2>2. ASSUME NEW r \in Players, NEW s \in Players, NEW j \in Items,
               j \in iw[r] \cup ur[r], j \in iw[s] \cup ur[s]
        PROVE  r = s
    <3>1. CASE j = i
      BY <1>6, <2>2, <3>1
    <3>2. CASE j # i
      <4>1. j \in iv[r] \cup uq[r] /\ j \in iv[s] \cup uq[s]
        BY <1>5, <2>2, <3>2
      <4> QED BY ONLY <1>a, <2>2, <4>1 DEF ItemSync
    <3> QED BY <3>1, <3>2
  <2>3. ASSUME NEW r \in Players, NEW j \in iw[r]
        PROVE  ut[j] # "removed" /\ (ut[j] # "unchanged" => j \in ur[r])
    <3>1. j \in Items
      BY <1>3 DEF ItemTypes
    <3>2. CASE j = i
      BY <1>2, <1>6, <3>2
    <3>3. CASE j # i
      <4>1. j \in iv[r]
        BY <1>5, <3>1, <3>3
      <4>2. us[j] # "removed" /\ (us[j] # "unchanged" => j \in uq[r])
        BY ONLY <1>a, <4>1, r \in Players DEF ItemSync
      <4> QED BY ONLY <1>2, <1>5, <3>1, <3>3, <4>2, r \in Players
    <3> QED BY <3>2, <3>3
  <2>4. ASSUME NEW r \in Players, NEW j \in ur[r]
        PROVE  j \in iw[r] \/ ut[j] = "removed"
    <3>1. j \in Items
      BY <1>3 DEF ItemTypes
    <3>2. CASE j = i
      BY <1>6, <3>2
    <3>3. CASE j # i
      <4>1. j \in uq[r]
        BY <1>5, <3>1, <3>3
      <4>2. j \in iv[r] \/ us[j] = "removed"
        BY ONLY <1>a, <4>1, r \in Players DEF ItemSync
      <4> QED BY ONLY <1>2, <1>5, <3>1, <3>3, <4>2, r \in Players
    <3> QED BY <3>2, <3>3
  <2>5. ASSUME NEW j \in Items, ut[j] # "unchanged"
        PROVE  \E r \in Players : j \in ur[r]
    <3>1. CASE j = i
      BY <1>0, <1>6, <3>1
    <3>2. CASE j # i
      <4>1. PICK r \in Players : j \in uq[r]
        BY <1>2, <2>5, <3>2 DEF ItemSync
      <4> QED BY <1>5, <3>2, <4>1
    <3> QED BY <3>1, <3>2
  <2>6. ASSUME NEW r \in on, NEW j \in Items
        PROVE  W[j] = r <=> \/ j \in iw[r] /\ ut[j] # "new"
                            \/ j \in ur[r] /\ ut[j] = "removed"
    <3>0. r \in Players /\ r # None
      BY NullAssumption
    <3>1. CASE j = i
      BY <1>2, <1>6, <3>0, <3>1
    <3>2. CASE j # i
      <4>1. V[j] = r <=> \/ j \in iv[r] /\ us[j] # "new"
                         \/ j \in uq[r] /\ us[j] = "removed"
        BY DEF ItemSync
      <4> QED BY <1>2, <1>5, <3>0, <3>2, <4>1
    <3> QED BY <3>1, <3>2
  <2>7. ASSUME NEW j \in Items, ut[j] = "new"
        PROVE  W[j] = None /\ j \notin E
    BY <1>1, <1>2, <2>7 DEF ItemSync
  <2> QED BY <2>1, <2>2, <2>3, <2>4, <2>5, <2>6, <2>7 DEF ItemSync
<1>8. PlacesSound(W, N, E)
  <2>1. ASSUME NEW j \in Items
        PROVE  /\ W[j] # None => j \notin E
               /\ W[j] # None \/ j \in E => j \in N
    <3>1. CASE j = i
      BY <1>0, <1>1, <1>2, <3>1, NullAssumption DEF PlacesSound
    <3>2. CASE j # i
      BY <1>2, <3>2 DEF PlacesSound
    <3> QED BY <3>1, <3>2
  <2> QED BY <2>1 DEF PlacesSound
<1> QED BY <1>3, <1>7, <1>8 DEF ItemOk

-----------------------------------------------------------------------------
(***************************************************************************)
(* Mails and auctions                                                       *)
(***************************************************************************)

\* Rows of mails and auctions, with their types.
MailOk(m, a) ==
    /\ m \in [MailIds -> Mail \cup {None}] /\ a \in [Items -> Auction \cup {None}]
    /\ MailSound(m, a)

\* Mails are deleted, or something is taken from them.
LEMMA MailsShrink ==
    ASSUME NEW m, NEW a, MailOk(m, a), NEW n \in [MailIds -> Mail \cup {None}],
           \A k \in MailIds : n[k] # None =>
               /\ m[k] # None /\ n[k].items \subseteq m[k].items
               /\ n[k].cod > 0 => n[k].from # None
    PROVE  /\ MailOk(n, a) /\ Elsewhere(n, a) \subseteq Elsewhere(m, a)
           /\ \A k \in MailIds : \A i \in Items :
                 m[k] # None /\ i \in m[k].items /\ (n[k] = None \/ i \notin n[k].items) =>
                    i \in Elsewhere(m, a) /\ i \notin Elsewhere(n, a)
<1> m \in [MailIds -> Mail \cup {None}] /\ a \in [Items -> Auction \cup {None}]
    /\ MailSound(m, a)
  BY DEF MailOk
<1>1. MailSound(n, a)
  <2>1. \A k \in MailIds : n[k] # None =>
          /\ n[k].cod > 0 => n[k].from # None
          /\ \A i \in n[k].items : a[i] = None
    BY DEF MailSound
  <2>2. \A k, l \in MailIds : \A i \in Items :
          n[k] # None /\ n[l] # None /\ i \in n[k].items /\ i \in n[l].items => k = l
    BY DEF MailSound
  <2> QED BY <2>1, <2>2 DEF MailSound
<1>2. Elsewhere(n, a) \subseteq Elsewhere(m, a)
  BY DEF Elsewhere
<1>3. ASSUME NEW k \in MailIds, NEW i \in Items, m[k] # None, i \in m[k].items,
             n[k] = None \/ i \notin n[k].items
      PROVE  i \in Elsewhere(m, a) /\ i \notin Elsewhere(n, a)
  <2>1. a[i] = None
    BY <1>3 DEF MailSound
  <2>2. \A l \in MailIds : m[l] # None /\ i \in m[l].items => l = k
    BY <1>3 DEF MailSound
  <2> QED BY <1>3, <2>1, <2>2 DEF Elsewhere
<1> QED BY <1>1, <1>2, <1>3 DEF MailOk

\* The auction of an item begins, changes or ends.
AuctionBecomes(a, i, x, b) ==
    i \in Items /\ x \in Auction \cup {None} /\ b = [a EXCEPT ![i] = x]

\* What that does.
LEMMA AuctionSet ==
    ASSUME NEW m, NEW a, MailOk(m, a), NEW i, NEW x, NEW b, AuctionBecomes(a, i, x, b),
           i \notin Elsewhere(m, a) \/ a[i] # None
    PROVE  /\ MailOk(m, b)
           /\ x = None => Elsewhere(m, b) = Elsewhere(m, a) \ {i}
           /\ x # None => Elsewhere(m, b) = Elsewhere(m, a) \cup {i}
<1> m \in [MailIds -> Mail \cup {None}] /\ a \in [Items -> Auction \cup {None}]
    /\ MailSound(m, a)
  BY DEF MailOk
<1> i \in Items /\ x \in Auction \cup {None} /\ b = [a EXCEPT ![i] = x]
  BY DEF AuctionBecomes
<1>1. /\ b \in [Items -> Auction \cup {None}] /\ b[i] = x
      /\ \A j \in Items : j # i => b[j] = a[j]
  OBVIOUS
<1>2. \A k \in MailIds : m[k] # None => i \notin m[k].items
  BY DEF MailSound, Elsewhere
<1>3. MailSound(m, b)
  <2>1. ASSUME NEW k \in MailIds, m[k] # None, NEW j \in m[k].items PROVE b[j] = None
    <3>1. j \in Items
      BY <2>1 DEF Mail
    <3> QED BY <1>1, <1>2, <2>1, <3>1 DEF MailSound
  <2> QED BY <2>1 DEF MailSound
<1>4. x = None => Elsewhere(m, b) = Elsewhere(m, a) \ {i}
  BY <1>1, <1>2 DEF Elsewhere
<1>5. x # None => Elsewhere(m, b) = Elsewhere(m, a) \cup {i}
  BY <1>1 DEF Elsewhere
<1> QED BY <1>1, <1>3, <1>4, <1>5 DEF MailOk

\* The items that are posted: X, each in one draft.
Carry(drafts, X) ==
    /\ X \subseteq Items
    /\ \A k \in 1..Len(drafts) : drafts[k].cod > 0 => drafts[k].from # None
    /\ \A k \in 1..Len(drafts) : drafts[k].items \subseteq X
    /\ \A i \in X : \E k \in 1..Len(drafts) : i \in drafts[k].items
    /\ \A k, l \in 1..Len(drafts) : \A i \in X :
          i \in drafts[k].items /\ i \in drafts[l].items => k = l

\* Mails are posted.
LEMMA MailsPosted ==
    ASSUME NEW m, NEW a, MailOk(m, a), NEW ids, NEW drafts, Drafts(ids, drafts),
           \A k \in 1..Len(drafts) : m[ids[k]] = None,
           NEW n \in [MailIds -> Mail \cup {None}], Posted(m, ids, drafts, n),
           NEW X, Carry(drafts, X), X \cap Elsewhere(m, a) = {}
    PROVE  /\ MailOk(n, a) /\ Elsewhere(n, a) = Elsewhere(m, a) \cup X
           /\ \A id \in MailIds : m[id] # None => n[id] = m[id]
<1> m \in [MailIds -> Mail \cup {None}] /\ a \in [Items -> Auction \cup {None}]
    /\ MailSound(m, a)
  BY DEF MailOk
<1>0. /\ Len(drafts) \in Nat /\ \A k \in 1..Len(drafts) : drafts[k] \in Mail
      /\ \A k \in 1..Len(drafts) : ids[k] \in MailIds /\ k \in 1..Len(ids)
  BY LenProperties, ElementOfSeq DEF Drafts
<1>1. \A k \in 1..Len(drafts) : n[ids[k]] = drafts[k] /\ drafts[k] # None
  BY <1>0, NullAssumption DEF Posted
<1>2. ASSUME NEW id \in MailIds
      PROVE  \/ \E k \in 1..Len(drafts) : ids[k] = id /\ n[id] = drafts[k] /\ m[id] = None
             \/ n[id] = m[id]
  <2>1. CASE \E k \in 1..Len(drafts) : ids[k] = id
    <3>1. PICK k \in 1..Len(drafts) : ids[k] = id
      BY <2>1
    <3> QED BY <1>1, <3>1
  <2>2. CASE ~ \E k \in 1..Len(drafts) : ids[k] = id
    BY <2>2 DEF Posted
  <2> QED BY <2>1, <2>2
<1>3. \A id \in MailIds : m[id] # None => n[id] = m[id]
  BY <1>2
<1>4. ASSUME NEW id \in MailIds, n[id] # None
      PROVE  /\ n[id].cod > 0 => n[id].from # None
             /\ \A i \in n[id].items : a[i] = None
  <2>1. CASE n[id] = m[id]
    BY <1>4, <2>1 DEF MailSound
  <2>2. CASE \E k \in 1..Len(drafts) : ids[k] = id /\ n[id] = drafts[k] /\ m[id] = None
    <3>1. PICK k \in 1..Len(drafts) : n[id] = drafts[k]
      BY <2>2
    <3>2. \A i \in drafts[k].items : i \in X /\ i \in Items /\ a[i] = None
      BY DEF Carry, Elsewhere
    <3> QED BY <3>1, <3>2 DEF Carry
  <2> QED BY <1>2, <2>1, <2>2
<1>5. ASSUME NEW id \in MailIds, NEW jd \in MailIds, NEW i \in Items,
             n[id] # None, n[jd] # None, i \in n[id].items, i \in n[jd].items
      PROVE  id = jd
  <2>1. CASE n[id] = m[id] /\ n[jd] = m[jd]
    BY <1>5, <2>1 DEF MailSound
  <2>2. CASE n[id] = m[id] /\ \E k \in 1..Len(drafts) : n[jd] = drafts[k]
    <3>1. i \in Elsewhere(m, a)
      BY <1>5, <2>2 DEF Elsewhere
    <3>2. i \in X
      BY <1>5, <2>2 DEF Carry
    <3> QED BY <3>1, <3>2
  <2>3. CASE n[jd] = m[jd] /\ \E k \in 1..Len(drafts) : n[id] = drafts[k]
    <3>1. i \in Elsewhere(m, a)
      BY <1>5, <2>3 DEF Elsewhere
    <3>2. i \in X
      BY <1>5, <2>3 DEF Carry
    <3> QED BY <3>1, <3>2
  <2>4. CASE /\ \E k \in 1..Len(drafts) : ids[k] = id /\ n[id] = drafts[k]
             /\ \E k \in 1..Len(drafts) : ids[k] = jd /\ n[jd] = drafts[k]
    <3>1. PICK k \in 1..Len(drafts) : ids[k] = id /\ n[id] = drafts[k]
      BY <2>4
    <3>2. PICK l \in 1..Len(drafts) : ids[l] = jd /\ n[jd] = drafts[l]
      BY <2>4
    <3>3. i \in X
      BY <1>5, <3>1 DEF Carry
    <3>4. k = l
      BY <1>5, <3>1, <3>2, <3>3 DEF Carry
    <3> QED BY <3>1, <3>2, <3>4
  <2> QED BY <1>2, <2>1, <2>2, <2>3, <2>4
<1>6. MailSound(n, a)
  BY <1>4, <1>5 DEF MailSound
<1>7. Elsewhere(n, a) = Elsewhere(m, a) \cup X
  <2>1. ASSUME NEW i \in Elsewhere(n, a) PROVE i \in Elsewhere(m, a) \cup X
    <3>1. i \in Items /\ (a[i] # None \/ \E id \in MailIds : n[id] # None /\ i \in n[id].items)
      BY DEF Elsewhere
    <3>2. CASE a[i] # None
      BY <3>1, <3>2 DEF Elsewhere
    <3>3. CASE a[i] = None
      <4>1. PICK id \in MailIds : n[id] # None /\ i \in n[id].items
        BY <3>1, <3>3
      <4>2. CASE n[id] = m[id]
        BY <3>1, <4>1, <4>2 DEF Elsewhere
      <4>3. CASE \E k \in 1..Len(drafts) : n[id] = drafts[k]
        BY <4>1, <4>3 DEF Carry
      <4> QED BY <1>2, <4>2, <4>3
    <3> QED BY <3>2, <3>3
  <2>2. ASSUME NEW i \in Elsewhere(m, a) PROVE i \in Elsewhere(n, a)
    BY <1>3 DEF Elsewhere
  <2>3. ASSUME NEW i \in X PROVE i \in Elsewhere(n, a)
    <3>1. PICK k \in 1..Len(drafts) : i \in drafts[k].items
      BY DEF Carry
    <3>2. ids[k] \in MailIds /\ n[ids[k]] = drafts[k] /\ drafts[k] # None
      BY <1>0, <1>1
    <3> QED BY <3>1, <3>2 DEF Carry, Elsewhere
  <2> QED BY <2>1, <2>2, <2>3
<1> QED BY <1>3, <1>6, <1>7 DEF MailOk

\* The lists of receivers who have opened their mailboxes.
Delivered(boxes, opened, ids, drafts, after) ==
    after = [p \in Players |-> [id \in MailIds |->
           LET sent == {k \in DOMAIN drafts : ids[k] = id /\ drafts[k].to = p}
           IN  IF p \in opened /\ sent # {} THEN drafts[CHOOSE k \in sent : TRUE]
                                            ELSE boxes[p][id]]]

\* What SendMailTo puts in the lists is in the tables.
LEMMA BoxesPosted ==
    ASSUME NEW boxes \in [Players -> [MailIds -> Mail \cup {None}]], NEW opened, NEW m,
           MailSync(boxes, opened, m), NEW ids, NEW drafts, Drafts(ids, drafts),
           \A k \in 1..Len(drafts) : m[ids[k]] = None,
           NEW n, Posted(m, ids, drafts, n),
           NEW after, Delivered(boxes, opened, ids, drafts, after)
    PROVE  /\ after \in [Players -> [MailIds -> Mail \cup {None}]]
           /\ MailSync(after, opened, n)
<1>0. /\ Len(drafts) \in Nat /\ \A k \in 1..Len(drafts) : drafts[k] \in Mail
      /\ \A k \in 1..Len(drafts) : ids[k] \in MailIds /\ k \in 1..Len(ids)
      /\ DOMAIN drafts = 1..Len(drafts)
  BY LenProperties, ElementOfSeq DEF Drafts
<1>1. ASSUME NEW p \in Players, NEW id \in MailIds
      PROVE  \/ \E k \in 1..Len(drafts) :
                   /\ ids[k] = id /\ drafts[k].to = p /\ after[p][id] = drafts[k]
                   /\ p \in opened
             \/ after[p][id] = boxes[p][id]
  <2> DEFINE sent == {k \in DOMAIN drafts : ids[k] = id /\ drafts[k].to = p}
  <2>1. after[p][id] = IF p \in opened /\ sent # {} THEN drafts[CHOOSE k \in sent : TRUE]
                                                    ELSE boxes[p][id]
    BY DEF Delivered
  <2>2. CASE p \in opened /\ sent # {}
    <3>1. PICK k : k = CHOOSE l \in sent : TRUE
      OBVIOUS
    <3>2. k \in sent
      BY <2>2, <3>1
    <3> QED BY <1>0, <2>1, <2>2, <3>1, <3>2
  <2>3. CASE ~(p \in opened /\ sent # {})
    BY <2>1, <2>3
  <2> QED BY <2>2, <2>3
<1>2. after \in [Players -> [MailIds -> Mail \cup {None}]]
  <2>1. ASSUME NEW p \in Players, NEW id \in MailIds
        PROVE  after[p][id] \in Mail \cup {None}
    BY <1>0, <1>1
  <2>2. \A p \in Players : after[p] = [id \in MailIds |-> after[p][id]]
    BY DEF Delivered
  <2>3. after = [p \in Players |-> after[p]]
    BY DEF Delivered
  <2>4. \A p \in Players : after[p] \in [MailIds -> Mail \cup {None}]
    BY <2>1, <2>2
  <2> QED BY <2>3, <2>4
<1>3. ASSUME NEW p \in Players, NEW id \in MailIds, after[p][id] # None
      PROVE  p \in opened /\ n[id] = after[p][id] /\ n[id].to = p
  <2>1. CASE \E k \in 1..Len(drafts) :
                /\ ids[k] = id /\ drafts[k].to = p /\ after[p][id] = drafts[k] /\ p \in opened
    BY <2>1 DEF Posted
  <2>2. CASE after[p][id] = boxes[p][id]
    <3>1. p \in opened /\ m[id] = boxes[p][id] /\ m[id].to = p
      BY <1>3, <2>2 DEF MailSync
    <3>2. \A k \in 1..Len(drafts) : ids[k] # id
      BY <1>3, <2>2, <3>1
    <3>3. n[id] = m[id]
      BY <3>2 DEF Posted
    <3> QED BY <2>2, <3>1, <3>3
  <2> QED BY <1>1, <2>1, <2>2
<1> QED BY <1>2, <1>3 DEF MailSync

\* SetToSeq lists a finite set.
LEMMA ListOfSet ==
    ASSUME NEW S, IsFiniteSet(S)
    PROVE  /\ Cardinality(S) \in Nat
           /\ SetToSeq(S) \in [1..Cardinality(S) -> S]
           /\ \A k, l \in 1..Cardinality(S) : SetToSeq(S)[k] = SetToSeq(S)[l] => k = l
<1>1. Cardinality(S) \in Nat /\ ExistsBijection(1..Cardinality(S), S)
  BY FS_CardinalityType
<1>2. PICK f \in [1..Cardinality(S) -> S] : \A k, l \in 1..Cardinality(S) : f[k] = f[l] => k = l
  BY <1>1 DEF ExistsBijection, Bijection, Injection, IsInjective
<1>3. IsInjective(f)
  BY <1>2 DEF IsInjective
<1>4. SetToSeq(S) \in [1..Cardinality(S) -> S] /\ IsInjective(SetToSeq(S))
  BY <1>3 DEF SetToSeq
<1> QED BY <1>1, <1>4 DEF IsInjective

\* A list of one.
LEMMA ListOfOne ==
    ASSUME NEW x
    PROVE  SetToSeq({x}) = <<x>> /\ SetToSeq({}) = <<>>
<1>1. IsFiniteSet({x}) /\ Cardinality({x}) = 1 /\ IsFiniteSet({}) /\ Cardinality({}) = 0
  BY FS_Singleton, FS_EmptySet
<1>2. SetToSeq({x}) \in [1..1 -> {x}]
  BY <1>1, ListOfSet
<1>3. SetToSeq({}) \in [1..0 -> {}]
  BY <1>1, ListOfSet
<1> QED BY <1>2, <1>3


-----------------------------------------------------------------------------
(***************************************************************************)
(* The statements of the helpers                                            *)
(***************************************************************************)

\* _SaveInventory.
LEMMA SaveInventoryRuns ==
    ASSUME NEW d \in Tables, NEW p \in Players, NEW queued \in SUBSET Items, NEW us,
           \A i \in queued : us[i] = "new" => d.inventory[i] = None
    PROVE  \E e \in Tables :
              /\ Runs(d, SaveInventory(p, queued, us), e)
              /\ e.inventory = Stored(d.inventory, p, queued, us)
              /\ e.instances = Instances(d.instances, queued, us)
              /\ e.money = d.money /\ e.mail = d.mail /\ e.auction = d.auction
<1>1. CASE queued = {}
  <2>1. SaveInventory(p, queued, us) = <<>>
    BY <1>1 DEF SaveInventory
  <2>2. d.inventory \in [Items -> Players \cup {None}]
    BY DEF Tables
  <2>3. Stored(d.inventory, p, queued, us) = d.inventory
    BY <1>1, <2>2 DEF Stored
  <2>4. Instances(d.instances, queued, us) = d.instances
    BY <1>1 DEF Instances
  <2> QED BY <2>1, <2>3, <2>4, RunsEmpty
<1>2. CASE queued # {}
  <2>1. PICK new, changed, removed :
          /\ new = {i \in queued : us[i] = "new"}
          /\ changed = {i \in queued : us[i] = "changed"}
          /\ removed = {i \in queued : us[i] = "removed"}
    OBVIOUS
  <2>2. SaveInventory(p, queued, us) = << Inventory(p, new, changed, removed) >>
    BY <1>2, <2>1 DEF SaveInventory
  <2>3. /\ new \in SUBSET Items /\ changed \in SUBSET Items /\ removed \in SUBSET Items
        /\ \A i \in new : d.inventory[i] = None
    BY <2>1
  <2>4. PICK e \in Tables :
              /\ Runs(d, << Inventory(p, new, changed, removed) >>, e)
              /\ e.inventory = [i \in Items |->
                    IF i \in new \/ (i \in changed /\ d.inventory[i] # None) THEN p
                    ELSE IF i \in removed THEN None ELSE d.inventory[i]]
              /\ e.instances = (d.instances \cup new) \ removed
              /\ e.money = d.money /\ e.mail = d.mail /\ e.auction = d.auction
    <3>1. PICK e \in Tables : Written(d, p, new, changed, removed, e)
      BY ONLY <2>3, d \in Tables, p \in Players, InventoryRuns
    <3> QED BY ONLY <3>1 DEF Written
  <2>5. e.inventory = Stored(d.inventory, p, queued, us)
    BY <2>1, <2>4 DEF Stored
  <2>6. e.instances = Instances(d.instances, queued, us)
    BY <2>1, <2>4 DEF Instances
  <2> QED BY <2>2, <2>4, <2>5, <2>6
<1> QED BY <1>1, <1>2

\* SaveInventoryAndGoldToDB.
LEMMA SaveInventoryAndGoldRuns ==
    ASSUME NEW d \in Tables, NEW p \in Players, NEW queued \in SUBSET Items, NEW us,
           NEW m \in Nat,
           \A i \in queued : us[i] = "new" => d.inventory[i] = None
    PROVE  \E e \in Tables :
              /\ Runs(d, SaveInventoryAndGold(p, queued, us, m), e)
              /\ e.inventory = Stored(d.inventory, p, queued, us)
              /\ e.instances = Instances(d.instances, queued, us)
              /\ e.money = [d.money EXCEPT ![p] = m]
              /\ e.mail = d.mail /\ e.auction = d.auction
<1>1. PICK c \in Tables :
              /\ Runs(d, SaveInventory(p, queued, us), c)
              /\ c.inventory = Stored(d.inventory, p, queued, us)
              /\ c.instances = Instances(d.instances, queued, us)
              /\ c.money = d.money /\ c.mail = d.mail /\ c.auction = d.auction
  BY SaveInventoryRuns
<1>2. PICK e \in Tables :
              /\ Runs(c, << Gold(p, m) >>, e)
              /\ e.inventory = c.inventory /\ e.instances = c.instances
              /\ e.money = [c.money EXCEPT ![p] = m]
              /\ e.mail = c.mail /\ e.auction = c.auction
  BY GoldRuns
<1>3. Runs(d, SaveInventory(p, queued, us) \o << Gold(p, m) >>, e)
  BY <1>1, <1>2, RunsConcat
<1> QED BY <1>1, <1>2, <1>3 DEF SaveInventoryAndGold

\* The items in the mails that p threw away.
DeletedItems(p) == UNION {mails[p][id].items : id \in Deleted(p)}

\* _SaveMail.
LEMMA SaveMailRuns ==
    ASSUME NEW d \in Tables, NEW p
    PROVE  \E e \in Tables :
              /\ Runs(d, SaveMail(p), e)
              /\ e.inventory = d.inventory /\ e.instances = d.instances \ DeletedItems(p)
              /\ e.money = d.money /\ e.auction = d.auction
              /\ \A k \in MailIds : e.mail[k] = IF k \in Deleted(p) THEN None ELSE d.mail[k]
<1>1. CASE Deleted(p) = {}
  <2>1. SaveMail(p) = <<>> /\ DeletedItems(p) = {}
    BY <1>1 DEF SaveMail, DeletedItems
  <2> QED BY <1>1, <2>1, RunsEmpty
<1>2. CASE Deleted(p) # {}
  <2>1. SaveMail(p) = << DeleteMails(Deleted(p), DeletedItems(p)) >>
    BY <1>2 DEF SaveMail, DeletedItems
  <2> QED BY <2>1, DeleteMailsRuns
<1> QED BY <1>1, <1>2

-----------------------------------------------------------------------------
(***************************************************************************)
(* The chain of the transactions that wait                                  *)
(***************************************************************************)

\* The tables now and to come.
LEMMA ChainTables ==
    ASSUME NEW st, Chain(st)
    PROVE  /\ IsList(queue) /\ Len(queue) \in Nat /\ DOMAIN queue = 1..Len(queue)
           /\ db \in Tables /\ future \in Tables /\ Sound(db) /\ Sound(future)
<1>1. Linked(st)
  BY DEF Chain
<1>2. IsList(queue) /\ Len(queue) \in Nat /\ DOMAIN queue = 1..Len(queue)
  BY <1>1, ListIs DEF Linked
<1>3. 0 \in 0..Len(queue) /\ Len(queue) \in 0..Len(queue)
  BY <1>2
<1> QED BY <1>1, <1>2, <1>3 DEF Linked

\* The ids of GenerateMailID are in no row of the tables to come.
LEMMA FreeIdsAre ==
    ASSUME NEW st, Chain(st)
    PROVE  /\ Len(FreeIds) \in Nat
           /\ \A k \in 1..Len(FreeIds) : FreeIds[k] \in MailIds /\ future.mail[FreeIds[k]] = None
           /\ \A k, l \in 1..Len(FreeIds) : FreeIds[k] = FreeIds[l] => k = l
<1> DEFINE S == {id \in MailIds : ~InUse(id)}
<1>1. IsFiniteSet(S)
  BY FS_Subset, MailAuctionAssumption
<1>2. /\ Cardinality(S) \in Nat
      /\ FreeIds \in [1..Cardinality(S) -> S]
      /\ \A k, l \in 1..Cardinality(S) : FreeIds[k] = FreeIds[l] => k = l
  BY <1>1, ListOfSet DEF FreeIds
<1>3. Len(FreeIds) = Cardinality(S)
  BY <1>2
<1>4. ASSUME NEW id \in S PROVE future.mail[id] = None
  <2>1. /\ Len(queue) \in Nat /\ DOMAIN queue = 1..Len(queue)
        /\ st[0] = db /\ st[Len(queue)] = future
    BY ChainTables DEF Chain, Linked
  <2>2. db.mail[id] = None /\ \A k \in 1..Len(queue) : ~Inserts(queue[k].trans, id)
    BY <2>1 DEF InUse, Inserts
  <2>3. 0 \in 0..Len(queue) /\ Len(queue) \in 0..Len(queue) /\ 0 <= Len(queue) /\ 0 + 1 = 1
    BY <2>1
  <2>4. st[Len(queue)].mail[id] # None =>
            st[0].mail[id] # None \/ \E k \in (0 + 1)..Len(queue) : Inserts(queue[k].trans, id)
    BY <2>3 DEF Chain, IdsSound
  <2> QED BY <2>1, <2>2, <2>3, <2>4
<1> QED BY <1>2, <1>3, <1>4

\* What is kept by two steps is kept by both.
LEMMA KeptTwice ==
    ASSUME NEW a, NEW b, NEW c, NEW p
    PROVE  /\ RowsKept(a, a, p) /\ UnreadKept(a, a, p)
           /\ RowsKept(a, b, p) /\ RowsKept(b, c, p) => RowsKept(a, c, p)
           /\ UnreadKept(a, b, p) /\ UnreadKept(b, c, p) => UnreadKept(a, c, p)
<1>1. RowsKept(a, a, p) /\ UnreadKept(a, a, p)
  BY DEF RowsKept, UnreadKept
<1>2. RowsKept(a, b, p) /\ RowsKept(b, c, p) => RowsKept(a, c, p)
  BY DEF RowsKept
<1>3. UnreadKept(a, b, p) /\ UnreadKept(b, c, p) => UnreadKept(a, c, p)
  BY DEF UnreadKept
<1> QED BY <1>1, <1>2, <1>3

\* A transaction that turns the tables to come into sound ones, and leaves alone
\* what players load and read later, prolongs the chain.
LEMMA ChainGrows ==
    ASSUME NEW st, Chain(st), NEW w, NEW e \in Tables, Sound(e),
           Execute(future, w.trans) = e,
           \A id \in MailIds : e.mail[id] # None =>
               future.mail[id] # None \/ Inserts(w.trans, id),
           w.login # None => /\ w.login \in Players \ online /\ w.trans = <<>> /\ e = future
                             /\ \A k \in DOMAIN queue : queue[k].login # w.login,
           queue' = Append(queue, w), future' = e, db' = db,
           online' \subseteq online, online' \ loaded' \subseteq online \ loaded,
           online \subseteq Players,
           \A q \in Players \ online : RowsKept(future, e, q),
           \A q \in Players \ loaded : UnreadKept(future, e, q), loaded \subseteq online
    PROVE  Chained'
<1>1. /\ IsList(queue) /\ Len(queue) \in Nat /\ DOMAIN queue = 1..Len(queue)
      /\ st \in [0..Len(queue) -> Tables] /\ st[0] = db /\ st[Len(queue)] = future
      /\ \A k \in 0..Len(queue) : Sound(st[k])
      /\ \A k \in 1..Len(queue) : st[k] = Execute(st[k - 1], queue[k].trans)
  BY ChainTables DEF Chain, Linked
<1>2. PICK L : L = Len(queue)
  OBVIOUS
<1>3. /\ L \in Nat /\ IsList(queue') /\ Len(queue') = L + 1
      /\ queue'[L + 1] = w /\ \A k \in 1..L : queue'[k] = queue[k]
  <2>1. PICK S : queue \in Seq(S)
    BY <1>1 DEF IsList
  <2>2. queue \in Seq(S \cup {w}) /\ w \in S \cup {w}
    BY <2>1
  <2>3. queue' \in Seq(S \cup {w}) /\ Len(queue') = L + 1
    BY <1>2, <2>2
  <2>4. queue'[L + 1] = w /\ \A k \in 1..L : queue'[k] = queue[k]
    BY <1>2, <2>2
  <2> QED BY <1>1, <1>2, <2>3, <2>4 DEF IsList
<1>4. PICK sv : sv = [k \in 0..(L + 1) |-> IF k = L + 1 THEN e ELSE st[k]]
  OBVIOUS
<1>5. sv[L + 1] = e /\ \A k \in 0..L : sv[k] = st[k] /\ k # L + 1
  BY <1>3, <1>4
<1>6. sv \in [0..(L + 1) -> Tables]
  BY <1>1, <1>2, <1>3, <1>4
<1>7. /\ \A k \in 0..(L + 1) : k \in 0..L \/ k = L + 1
      /\ \A k \in 1..(L + 1) : k \in 1..L \/ k = L + 1
      /\ 0 \in 0..L /\ L \in 0..L /\ (L + 1) - 1 = L
      /\ \A k \in 1..L : k - 1 \in 0..L /\ k \in 0..L
  BY <1>3
<1>8. Linked(sv)'
  <2>1. sv[0] = db' /\ sv[Len(queue')] = future'
    BY <1>1, <1>3, <1>5, <1>7
  <2>2. \A k \in 0..(L + 1) : Sound(sv[k])
    BY <1>1, <1>2, <1>5, <1>7
  <2>3. ASSUME NEW k \in 1..(L + 1) PROVE sv[k] = Execute(sv[k - 1], queue'[k].trans)
    <3>1. CASE k = L + 1
      BY <1>1, <1>2, <1>3, <1>5, <1>7, <3>1
    <3>2. CASE k \in 1..L
      BY <1>1, <1>2, <1>3, <1>5, <1>7, <3>2
    <3> QED BY <1>7, <3>1, <3>2
  <2> QED BY <1>3, <1>6, <2>1, <2>2, <2>3 DEF Linked, Sound
<1>9. IdsSound(sv)'
  <2>1. ASSUME NEW a \in 0..(L + 1), NEW b \in 0..(L + 1), NEW id \in MailIds,
               a <= b, sv[b].mail[id] # None
        PROVE  sv[a].mail[id] # None \/ \E k \in (a + 1)..b : Inserts(queue'[k].trans, id)
    <3>1. IdsSound(st)
      BY DEF Chain
    <3>2. CASE b \in 0..L
      <4>1. a \in 0..L
        BY <1>3, <2>1, <3>2
      <4>2. st[a].mail[id] # None \/ \E k \in (a + 1)..b : Inserts(queue[k].trans, id)
        BY <1>2, <1>5, <2>1, <3>1, <3>2, <4>1 DEF IdsSound
      <4>3. \A k \in (a + 1)..b : k \in 1..L
        BY <1>3, <3>2, <4>1
      <4> QED BY <1>3, <1>5, <4>1, <4>2, <4>3
    <3>3. CASE b = L + 1 /\ a = L + 1
      BY <2>1, <3>3
    <3>4. CASE b = L + 1 /\ a \in 0..L
      <4>1. future.mail[id] # None \/ Inserts(w.trans, id)
        BY <1>5, <2>1, <3>4
      <4>2. CASE Inserts(w.trans, id)
        BY <1>3, <3>4, <4>2
      <4>3. CASE future.mail[id] # None
        <5>1. st[a].mail[id] # None \/ \E k \in (a + 1)..L : Inserts(queue[k].trans, id)
          BY <1>1, <1>2, <1>3, <1>7, <3>1, <3>4, <4>3 DEF IdsSound
        <5>2. \A k \in (a + 1)..L : k \in 1..L /\ k \in (a + 1)..b
          BY <1>3, <3>4
        <5> QED BY <1>3, <1>5, <3>4, <5>1, <5>2
      <4> QED BY <4>1, <4>2, <4>3
    <3>5. (b \in 0..L \/ b = L + 1) /\ (a \in 0..L \/ a = L + 1)
      BY <1>7
    <3> QED BY <3>2, <3>3, <3>4, <3>5, Zenon
  <2> QED BY <1>3, <2>1 DEF IdsSound, Inserts
<1>10. LoginsSound(sv)'
  <2>1. ASSUME NEW k \in 1..(L + 1), queue'[k].login # None
        PROVE  /\ queue'[k].login \in Players \ online' /\ queue'[k].trans = <<>>
               /\ \A j \in 1..(L + 1) : queue'[j].login = queue'[k].login => j = k
               /\ \A j \in k..(L + 1) :
                     /\ RowsKept(sv[j], e, queue'[k].login)
                     /\ UnreadKept(sv[j], e, queue'[k].login)
    <3>1. CASE k = L + 1
      <4>1. queue'[k] = w /\ \A j \in 1..L : queue'[j].login # w.login
        BY <1>1, <1>2, <1>3, <2>1, <3>1
      <4>2. \A j \in k..(L + 1) : j = L + 1
        BY <1>3, <3>1
      <4> QED BY <1>5, <1>7, <2>1, <3>1, <4>1, <4>2, KeptTwice
    <3>2. CASE k \in 1..L
      <4>1. PICK q : q = queue[k].login
        OBVIOUS
      <4>2. queue'[k] = queue[k] /\ q # None
        BY <1>3, <2>1, <3>2, <4>1
      <4>3. /\ q \in Players \ online /\ queue[k].trans = <<>>
            /\ \A j \in 1..L : queue[j].login = q => j = k
            /\ \A j \in k..L : RowsKept(st[j], future, q) /\ UnreadKept(st[j], future, q)
        BY <1>2, <3>2, <4>1, <4>2 DEF Chain, LoginsSound
      <4>4. w.login # q
        BY <1>1, <1>2, <3>2, <4>1, <4>2
      <4>5. RowsKept(future, e, q) /\ UnreadKept(future, e, q)
        BY <4>3
      <4>6. ASSUME NEW j \in k..(L + 1) PROVE RowsKept(sv[j], e, q) /\ UnreadKept(sv[j], e, q)
        <5>1. CASE j = L + 1
          BY <1>5, <5>1, KeptTwice
        <5>2. CASE j \in k..L
          <6>1. j \in 0..L
            BY <1>3, <3>2, <5>2
          <6> QED BY <1>5, <4>3, <4>5, <5>2, <6>1, KeptTwice
        <5>3. j \in k..L \/ j = L + 1
          BY <1>3, <3>2
        <5> QED BY <5>1, <5>2, <5>3
      <4>7. \A j \in 1..(L + 1) : queue'[j].login = q => j = k
        BY <1>3, <1>7, <4>3, <4>4
      <4> QED BY <4>1, <4>2, <4>3, <4>6, <4>7
    <3> QED BY <1>7, <3>1, <3>2
  <2> QED BY <1>3, <2>1 DEF LoginsSound, RowsKept, UnreadKept
<1>11. MailboxesSound(sv)'
  <2>1. ASSUME NEW q \in online' \ loaded', NEW j \in 0..(L + 1) PROVE UnreadKept(sv[j], e, q)
    <3>1. q \in online \ loaded /\ q \in Players \ loaded
      OBVIOUS
    <3>2. CASE j = L + 1
      BY <1>5, <3>2, KeptTwice
    <3>3. CASE j \in 0..L
      <4>1. UnreadKept(st[j], future, q) /\ UnreadKept(future, e, q)
        BY <1>2, <3>1, <3>3 DEF Chain, MailboxesSound
      <4> QED BY <1>5, <3>3, <4>1, KeptTwice
    <3> QED BY <1>7, <3>2, <3>3
  <2> QED BY <1>3, <2>1 DEF MailboxesSound, UnreadKept
<1> QED BY <1>8, <1>9, <1>10, <1>11 DEF Chain, Chained

\* The database worker executes the first transaction, or loads the player whose
\* turn it is.
LEMMA ChainShrinks ==
    ASSUME NEW st, Chain(st), queue # <<>>, queue' = Tail(queue), future' = future,
           \/ /\ Head(queue).login = None /\ db' = Execute(db, Head(queue).trans)
              /\ online' = online
           \/ /\ Head(queue).login # None /\ db' = db
              /\ online' = online \cup {Head(queue).login},
           loaded' = loaded
    PROVE  /\ Chained'
           /\ Head(queue).login = None =>
                 Execute(db, Head(queue).trans) \in Tables
           /\ Head(queue).login # None =>
                 /\ Head(queue).login \in Players \ online
                 /\ RowsKept(db, future, Head(queue).login)
<1>1. /\ IsList(queue) /\ Len(queue) \in Nat /\ DOMAIN queue = 1..Len(queue)
      /\ st \in [0..Len(queue) -> Tables] /\ st[0] = db /\ st[Len(queue)] = future
      /\ \A k \in 0..Len(queue) : Sound(st[k])
      /\ \A k \in 1..Len(queue) : st[k] = Execute(st[k - 1], queue[k].trans)
  BY ChainTables DEF Chain, Linked
<1>2. PICK L : L = Len(queue)
  OBVIOUS
<1>3. /\ L \in Nat /\ L > 0 /\ IsList(queue') /\ Len(queue') = L - 1
      /\ Head(queue) = queue[1] /\ \A k \in 1..(L - 1) : queue'[k] = queue[k + 1]
  <2>1. PICK S : queue \in Seq(S)
    BY <1>1 DEF IsList
  <2>2. L \in Nat /\ L > 0
    BY <1>2, <2>1
  <2>3. queue' \in Seq(S) /\ Len(queue') = L - 1 /\ Head(queue) = queue[1]
    BY <1>2, <2>1, <2>2
  <2>4. \A k \in 1..(L - 1) : queue'[k] = queue[k + 1]
    BY <1>2, <2>1, <2>2
  <2> QED BY <2>2, <2>3, <2>4 DEF IsList
<1>4. /\ 0 \in 0..L /\ 1 \in 1..L /\ 1 \in 0..L /\ 1 - 1 = 0 /\ (L - 1) + 1 = L
      /\ \A k \in 0..(L - 1) : k + 1 \in 0..L /\ k + 1 \in 1..L
      /\ \A k \in 1..(L - 1) : k + 1 \in 1..L /\ (k + 1) - 1 = (k - 1) + 1 /\ k - 1 \in 0..(L - 1)
                               /\ k \in 0..(L - 1)
  BY <1>3
<1>5. st[1] = Execute(db, queue[1].trans) /\ st[1] \in Tables
  BY <1>1, <1>2, <1>4
<1>6. PICK h : h = queue[1].login
  OBVIOUS
<1>7. h # None => /\ h \in Players \ online /\ st[1] = db
                  /\ \A j \in 1..L : queue[j].login = h => j = 1
                  /\ \A j \in 1..L : RowsKept(st[j], future, h) /\ UnreadKept(st[j], future, h)
  <2>1. SUFFICES ASSUME h # None
                 PROVE  /\ h \in Players \ online /\ st[1] = db
                        /\ \A j \in 1..L : queue[j].login = h => j = 1
                        /\ \A j \in 1..L : RowsKept(st[j], future, h) /\ UnreadKept(st[j], future, h)
    OBVIOUS
  <2>2. /\ h \in Players \ online /\ queue[1].trans = <<>>
        /\ \A j \in 1..L : queue[j].login = h => j = 1
        /\ \A j \in 1..L : RowsKept(st[j], future, h) /\ UnreadKept(st[j], future, h)
    BY <1>2, <1>4, <1>6, <2>1 DEF Chain, LoginsSound
  <2>3. Runs(db, <<>>, db)
    BY <1>1, <1>2, <1>4, RunsEmpty
  <2>4. Execute(db, <<>>) = db
    BY <2>3, RunsExecute
  <2> QED BY <1>5, <2>2, <2>4
<1>8. db' = st[1]
  BY <1>3, <1>5, <1>6, <1>7
<1>9. PICK sv : sv = [k \in 0..(L - 1) |-> st[k + 1]]
  OBVIOUS
<1>10. \A k \in 0..(L - 1) : sv[k] = st[k + 1]
  BY <1>9
<1>11. Linked(sv)'
  <2>1. sv \in [0..(L - 1) -> Tables]
    BY <1>1, <1>2, <1>4, <1>9
  <2>2. sv[0] = db' /\ sv[L - 1] = future'
    BY <1>1, <1>2, <1>3, <1>4, <1>8, <1>10
  <2>3. \A k \in 0..(L - 1) : Sound(sv[k])
    BY <1>1, <1>2, <1>4, <1>10
  <2>4. ASSUME NEW k \in 1..(L - 1) PROVE sv[k] = Execute(sv[k - 1], queue'[k].trans)
    <3>1. sv[k] = st[k + 1] /\ sv[k - 1] = st[(k + 1) - 1]
      BY <1>4, <1>10
    <3> QED BY <1>1, <1>2, <1>3, <1>4, <3>1
  <2> QED BY <1>3, <2>1, <2>2, <2>3, <2>4 DEF Linked, Sound
<1>12. IdsSound(sv)'
  <2>1. ASSUME NEW a \in 0..(L - 1), NEW b \in 0..(L - 1), NEW id \in MailIds,
               a <= b, sv[b].mail[id] # None
        PROVE  sv[a].mail[id] # None \/ \E k \in (a + 1)..b : Inserts(queue'[k].trans, id)
    <3>1. IdsSound(st)
      BY DEF Chain
    <3>2. a + 1 \in 0..L /\ b + 1 \in 0..L /\ a + 1 <= b + 1
      BY <1>3, <2>1
    <3>3. \/ st[a + 1].mail[id] # None
          \/ \E k \in (a + 1 + 1)..(b + 1) : Inserts(queue[k].trans, id)
      BY <1>2, <1>10, <2>1, <3>1, <3>2 DEF IdsSound
    <3>4. CASE st[a + 1].mail[id] # None
      BY <1>10, <3>4
    <3>5. CASE \E k \in (a + 1 + 1)..(b + 1) : Inserts(queue[k].trans, id)
      <4>1. PICK k \in (a + 1 + 1)..(b + 1) : Inserts(queue[k].trans, id)
        BY <3>5
      <4>2. k - 1 \in (a + 1)..b /\ k - 1 \in 1..(L - 1) /\ (k - 1) + 1 = k
        BY <1>3, <2>1
      <4>3. queue'[k - 1] = queue[k]
        BY <1>3, <4>2
      <4> QED BY <4>1, <4>2, <4>3
    <3> QED BY <3>3, <3>4, <3>5
  <2>2. \A a, b \in 0..Len(queue') : \A id \in MailIds :
            a <= b /\ sv[b].mail[id] # None =>
               sv[a].mail[id] # None \/ \E k \in (a + 1)..b : Inserts(queue'[k].trans, id)
    BY ONLY <1>3, <2>1
  <2> QED BY ONLY <2>2 DEF IdsSound, Inserts
<1>13. LoginsSound(sv)'
  <2>1. ASSUME NEW k \in 1..(L - 1), queue'[k].login # None
        PROVE  /\ queue'[k].login \in Players \ online' /\ queue'[k].trans = <<>>
               /\ \A j \in 1..(L - 1) : queue'[j].login = queue'[k].login => j = k
               /\ \A j \in k..(L - 1) :
                     /\ RowsKept(sv[j], future, queue'[k].login)
                     /\ UnreadKept(sv[j], future, queue'[k].login)
    <3>1. PICK q : q = queue[k + 1].login
      OBVIOUS
    <3>2. queue'[k] = queue[k + 1] /\ q # None /\ k + 1 \in 1..L
      BY <1>3, <1>4, <2>1, <3>1
    <3>3. /\ q \in Players \ online /\ queue[k + 1].trans = <<>>
          /\ \A j \in 1..L : queue[j].login = q => j = k + 1
          /\ \A j \in (k + 1)..L : RowsKept(st[j], future, q) /\ UnreadKept(st[j], future, q)
      BY <1>2, <3>1, <3>2 DEF Chain, LoginsSound
    <3>4. h # q
      BY <1>4, <1>6, <3>3
    <3>5. q \in Players \ online'
      BY <1>3, <1>6, <3>3, <3>4
    <3>6. ASSUME NEW j \in 1..(L - 1), queue'[j].login = q PROVE j = k
      <4>1. j + 1 = k + 1
        BY <1>3, <1>4, <3>3, <3>6
      <4> QED BY <4>1
    <3>7. ASSUME NEW j \in k..(L - 1)
          PROVE  RowsKept(sv[j], future, q) /\ UnreadKept(sv[j], future, q)
      <4>1. j \in 0..(L - 1) /\ j + 1 \in (k + 1)..L
        BY <1>3, <3>7
      <4> QED BY <1>10, <3>3, <4>1
    <3> QED BY <3>1, <3>2, <3>3, <3>5, <3>6, <3>7
  <2> QED BY ONLY <1>3, <2>1, future' = future DEF LoginsSound, RowsKept, UnreadKept
<1>14. MailboxesSound(sv)'
  <2>1. ASSUME NEW q \in online' \ loaded', NEW j \in 0..(L - 1)
        PROVE  UnreadKept(sv[j], future, q)
    <3>1. CASE q \in online
      BY <1>2, <1>4, <1>10, <3>1 DEF Chain, MailboxesSound
    <3>2. CASE q \notin online
      <4>1. q = h /\ h # None
        BY <1>3, <1>6, <3>2
      <4> QED BY <1>4, <1>7, <1>10, <4>1
    <3> QED BY <3>1, <3>2
  <2> QED BY <1>3, <2>1 DEF MailboxesSound, UnreadKept
<1>15. Chained'
  BY <1>11, <1>12, <1>13, <1>14 DEF Chain, Chained
<1>16. h # None => RowsKept(db, future, h)
  BY <1>4, <1>7
<1> QED BY <1>3, <1>5, <1>6, <1>7, <1>15, <1>16

\* The chain does not mention the rest of memory; and a player who opens his
\* mailbox reads it there.
LEMMA ChainKept ==
    ASSUME NEW st, Chain(st), queue' = queue, db' = db, future' = future,
           online' = online, loaded \subseteq loaded'
    PROVE  Chained'
<1>1. Linked(st)' /\ IdsSound(st)' /\ LoginsSound(st)'
  BY DEF Chain, Linked, IdsSound, LoginsSound
<1>2. MailboxesSound(st)'
  BY DEF Chain, MailboxesSound
<1> QED BY <1>1, <1>2 DEF Chain, Chained

\* Nothing waits.
LEMMA ChainNew ==
    ASSUME db \in Tables, Sound(db), queue = <<>>, future = db, online = {}
    PROVE  Chained
<1>1. PICK st : st = [k \in 0..0 |-> db]
  OBVIOUS
<1>2. Len(queue) = 0 /\ IsList(queue)
  BY ListLiteral
<1>3. Linked(st)
  BY <1>1, <1>2 DEF Linked
<1>4. IdsSound(st) /\ LoginsSound(st) /\ MailboxesSound(st)
  BY <1>1, <1>2 DEF IdsSound, LoginsSound, MailboxesSound
<1> QED BY <1>3, <1>4 DEF Chain, Chained

-----------------------------------------------------------------------------
(***************************************************************************)
(* The parts of the invariant                                               *)
(***************************************************************************)

\* Memory agrees with the tables to come.
MemoryOk ==
    /\ MailOk(future.mail, future.auction)
    /\ ItemOk(online, inv, updateQueue, uState, future.inventory, future.instances,
              Elsewhere(future.mail, future.auction))
    /\ loaded \subseteq online /\ money \in [Players -> Nat] /\ trash \subseteq MailIds
    /\ mails \in [Players -> [MailIds -> Mail \cup {None}]] /\ refused = FALSE
    /\ auctions = future.auction /\ \A p \in online : money[p] = future.money[p]
    /\ MailSync(mails, loaded, future.mail)

\* The parts in which the steps are proved.
LEMMA MailInvParts ==
    Chained => (MailInv <=> MemoryOk)
<1> SUFFICES ASSUME Chained PROVE MailInv <=> MemoryOk
  OBVIOUS
<1>1. future \in Tables /\ Sound(future)
  BY ChainTables DEF Chained
<1>2. /\ future.mail \in [MailIds -> Mail \cup {None}]
      /\ future.auction \in [Items -> Auction \cup {None}]
      /\ future.inventory \in [Items -> Players \cup {None}]
  BY <1>1 DEF Tables
<1>3. /\ MailSound(future.mail, future.auction)
      /\ PlacesSound(future.inventory, future.instances, Elsewhere(future.mail, future.auction))
  BY <1>1 DEF Sound
<1>4. MailOk(future.mail, future.auction)
  BY <1>2, <1>3 DEF MailOk
<1>5. ItemOk(online, inv, updateQueue, uState, future.inventory, future.instances,
             Elsewhere(future.mail, future.auction))
        <=> /\ online \subseteq Players
            /\ ItemTypes(inv, updateQueue, uState, future.inventory)
            /\ ItemSync(online, inv, updateQueue, uState, future.inventory,
                        Elsewhere(future.mail, future.auction))
  BY <1>3 DEF ItemOk
<1> QED BY <1>4, <1>5 DEF MailInv, Types, MemorySync, MemoryOk

\* Memory agrees with the tables e after a step that left alone what players load
\* and read later.
Follows(e) ==
    /\ db' = db /\ refused' = refused
    /\ online' \subseteq online /\ loaded' \subseteq online'
    /\ online' \ loaded' \subseteq online \ loaded
    /\ MailOk(e.mail, e.auction)
    /\ ItemOk(online', inv', updateQueue', uState', e.inventory, e.instances,
              Elsewhere(e.mail, e.auction))
    /\ money' \in [Players -> Nat] /\ trash' \subseteq MailIds
    /\ mails' \in [Players -> [MailIds -> Mail \cup {None}]]
    /\ auctions' = e.auction /\ \A p \in online' : money'[p] = e.money[p]
    /\ MailSync(mails', loaded', e.mail)
    /\ \A q \in Players \ online : RowsKept(future, e, q)
    /\ \A q \in Players \ loaded : UnreadKept(future, e, q)

\* i goes with a mail that a player throws away.
Lost(e, i) ==
    \E id \in MailIds :
        /\ future.mail[id] # None /\ e.mail[id] = None /\ i \in future.mail[id].items
        /\ id \in trash \/ future.mail[id].from = None

\* Every item of an inventory, a mail or an auction has a place after a step that
\* leads to the tables e, but for those of mails that are thrown away.
Kept(e) ==
    /\ \A p \in Players : \A i \in inv[p] :
          \/ \E q \in Players : i \in inv'[q]
          \/ i \in Elsewhere(e.mail, e.auction) \/ e.inventory[i] # None
    /\ \A i \in Elsewhere(future.mail, future.auction) :
          \/ \E q \in Players : i \in inv'[q]
          \/ i \in Elsewhere(e.mail, e.auction) \/ Lost(e, i)

\* Then no item is lost.
LEMMA KeptItems ==
    ASSUME MailInv, NEW e, e = future', Follows(e), Kept(e)
    PROVE  KeepsItems
<1>1. MemoryOk
  BY MailInvParts DEF MailInv
<1>2. /\ ItemSync(online, inv, updateQueue, uState, future.inventory,
                  Elsewhere(future.mail, future.auction))
      /\ ItemTypes(inv, updateQueue, uState, future.inventory)
  BY <1>1 DEF MemoryOk, ItemOk
<1>3. SUFFICES ASSUME NEW i \in Items, Known(i), ~Known(i)', uState[i] # "removed"
               PROVE  \E id \in Discarded : i \in future.mail[id].items
  BY DEF KeepsItems
<1>4. /\ \A p \in Players : i \notin inv'[p]
      /\ e.inventory[i] = None /\ i \notin Elsewhere(e.mail, e.auction)
  BY <1>3 DEF Known, Elsewhere
<1>5. \A p \in Players : i \notin inv[p]
  BY <1>4 DEF Kept
<1>6. \A p \in Players : i \notin updateQueue[p]
  BY <1>2, <1>3, <1>5 DEF ItemSync
<1>7. future.inventory[i] = None
  <2>1. SUFFICES ASSUME NEW q \in Players, future.inventory[i] = q PROVE FALSE
    BY <1>2 DEF ItemTypes
  <2>2. CASE q \in online
    BY <1>2, <1>5, <1>6, <2>1, <2>2 DEF ItemSync
  <2>3. CASE q \notin online
    <3>1. e.inventory[i] = q
      BY <2>1, <2>3 DEF Follows, RowsKept
    <3> QED BY <1>4, <3>1, NullAssumption
  <2> QED BY <2>2, <2>3
<1>8. i \in Elsewhere(future.mail, future.auction)
  BY <1>3, <1>5, <1>6, <1>7 DEF Known, Elsewhere
<1>9. Lost(e, i)
  BY <1>4, <1>8 DEF Kept
<1> QED BY <1>9 DEF Lost, Discarded

\* A step that commits a transaction.
LEMMA Committed ==
    ASSUME MailInv, NEW t, NEW e, Runs(future, t, e), Commit(t), Follows(e), Kept(e)
    PROVE  MailInv' /\ KeepsItems
<1>1. Execute(future, t) = e /\ e \in Tables /\ e # None
  BY RunsExecute
<1>2. PICK w : w = [trans |-> t, login |-> None]
  OBVIOUS
<1>3. w.trans = t /\ w.login = None
  BY <1>2
<1>4. queue' = Append(queue, w) /\ future' = e
  BY <1>1, <1>2 DEF Commit
<1>5. Sound(e)
  BY DEF Follows, MailOk, ItemOk, Sound
<1>6. \A id \in MailIds : e.mail[id] # None => future.mail[id] # None \/ Inserts(t, id)
  BY OnlyInserts
<1>7. PICK st : Chain(st)
  BY DEF MailInv, Chained
<1>8. online \subseteq Players /\ loaded \subseteq online /\ refused = FALSE
  BY DEF MailInv, Types
<1>9. Chained'
  BY <1>1, <1>3, <1>4, <1>5, <1>6, <1>7, <1>8, ChainGrows DEF Follows
<1>10. MemoryOk'
  BY <1>4, <1>8 DEF MemoryOk, Follows
<1>11. MailInv' <=> MemoryOk'
  BY <1>9, MailInvParts, PTL
<1>12. KeepsItems
  BY <1>4, KeptItems
<1> QED BY <1>10, <1>11, <1>12

\* A step that takes no item and leaves the tables to come alone.
LEMMA NothingTaken ==
    ASSUME future' = future, \A p \in Players : inv[p] \cup updateQueue[p] \subseteq inv'[p] \cup updateQueue'[p]
    PROVE  KeepsItems
  BY DEF KeepsItems, Known

\* A step that commits nothing.
LEMMA NotCommitted ==
    ASSUME MailInv, UNCHANGED <<queue, db, future, refused, online, money, auctions>>,
           loaded \subseteq loaded', loaded' \subseteq online, trash' \subseteq MailIds,
           ItemOk(online, inv', updateQueue', uState', future.inventory, future.instances,
                  Elsewhere(future.mail, future.auction)),
           mails' \in [Players -> [MailIds -> Mail \cup {None}]],
           MailSync(mails', loaded', future.mail)
    PROVE  MailInv'
<1>1. PICK st : Chain(st)
  BY DEF MailInv, Chained
<1>2. Chained'
  BY <1>1, ChainKept
<1>3. MemoryOk
  BY MailInvParts DEF MailInv
<1>4. MemoryOk'
  BY <1>3 DEF MemoryOk
<1>5. MailInv' <=> MemoryOk'
  BY <1>2, MailInvParts, PTL
<1> QED BY <1>4, <1>5

\* The invariant at the start of a step.
LEMMA Before ==
    ASSUME MailInv
    PROVE  /\ MemoryOk /\ future \in Tables /\ db \in Tables /\ Sound(db)
           /\ online \subseteq Players /\ loaded \subseteq Players
           /\ future.mail \in [MailIds -> Mail \cup {None}]
           /\ future.auction \in [Items -> Auction \cup {None}]
           /\ future.inventory \in [Items -> Players \cup {None}]
           /\ future.money \in [Players -> Nat]
           /\ inv \in [Players -> SUBSET Items] /\ updateQueue \in [Players -> SUBSET Items]
           /\ uState \in [Items -> {"new", "changed", "removed", "unchanged"}]
<1>1. PICK st : Chain(st)
  BY DEF MailInv, Chained
<1>2. future \in Tables /\ db \in Tables /\ Sound(db)
  BY <1>1, ChainTables
<1>3. MemoryOk
  BY MailInvParts DEF MailInv
<1> QED BY <1>2, <1>3 DEF MailInv, Types, ItemTypes, Tables

-----------------------------------------------------------------------------
(***************************************************************************)
(* Steps that commit nothing                                                *)
(***************************************************************************)

\* StoreNewItem.
LEMMA StoreNewItemInv ==
    ASSUME MailInv, NEW p \in Players, NEW i \in Items, StoreNewItem(p, i)
    PROVE  MailInv'
<1>1. MemoryOk
  BY Before
<1>2. PICK E : E = Elsewhere(future.mail, future.auction)
  OBVIOUS
<1>3. /\ p \in online /\ future.inventory[i] = None
      /\ \A q \in Players : i \notin inv[q] \cup updateQueue[q]
  BY DEF StoreNewItem, Known
<1>4. i \notin E
  BY <1>2 DEF StoreNewItem, Known, Elsewhere
<1>5. /\ inv' = [inv EXCEPT ![p] = @ \cup {i}]
      /\ uState' = [uState EXCEPT ![i] = "new"]
      /\ updateQueue' = [updateQueue EXCEPT ![p] = @ \cup {i}]
  BY DEF StoreNewItem
<1>6. ItemOk(online, inv, updateQueue, uState, future.inventory, future.instances, E)
  BY <1>1, <1>2 DEF MemoryOk
<1>7. ItemOk(online, inv', updateQueue', uState', future.inventory, future.instances, E)
  BY <1>3, <1>4, <1>5, <1>6, ItemEnters
<1> QED BY <1>1, <1>2, <1>7, NotCommitted DEF StoreNewItem, MemoryOk

\* ChangeItem.
LEMMA ChangeItemInv ==
    ASSUME MailInv, NEW p \in Players, NEW i \in Items, ChangeItem(p, i)
    PROVE  MailInv'
<1>1. MemoryOk
  BY Before
<1>2. PICK E : E = Elsewhere(future.mail, future.auction)
  OBVIOUS
<1>3. /\ i \in inv[p] /\ uState[i] = "unchanged"
      /\ uState' = [uState EXCEPT ![i] = "changed"]
      /\ updateQueue' = [updateQueue EXCEPT ![p] = @ \cup {i}]
  BY DEF ChangeItem
<1>4. ItemOk(online, inv, updateQueue, uState, future.inventory, future.instances, E)
  BY <1>1, <1>2 DEF MemoryOk
<1>5. ItemOk(online, inv, updateQueue', uState', future.inventory, future.instances, E)
  BY <1>3, <1>4, ItemTouched
<1> QED BY <1>1, <1>2, <1>5, NotCommitted DEF ChangeItem, MemoryOk

\* DestroyItem.
LEMMA DestroyItemInv ==
    ASSUME MailInv, NEW p \in Players, NEW i \in Items, DestroyItem(p, i)
    PROVE  MailInv'
<1>1. MemoryOk
  BY Before
<1>2. PICK E : E = Elsewhere(future.mail, future.auction)
  OBVIOUS
<1>3. /\ i \in inv[p] /\ inv' = [inv EXCEPT ![p] = @ \ {i}]
      /\ Removal(updateQueue, uState, p, i, updateQueue', uState')
  BY DEF DestroyItem, Removal
<1>4. ItemOk(online, inv, updateQueue, uState, future.inventory, future.instances, E)
  BY <1>1, <1>2 DEF MemoryOk
<1>5. ItemOk(online, inv', updateQueue', uState', future.inventory, future.instances, E)
  BY <1>3, <1>4, ItemDestroyed
<1> QED BY <1>1, <1>2, <1>5, NotCommitted DEF DestroyItem, MemoryOk

\* HandleMailDelete.
LEMMA MailDeleteInv ==
    ASSUME MailInv, NEW p \in Players, NEW id \in MailIds, HandleMailDelete(p, id)
    PROVE  MailInv'
<1>1. MemoryOk
  BY Before
<1> QED BY <1>1, NotCommitted DEF HandleMailDelete, MemoryOk

\* HandleGetMailList: what the mailbox has of the tables as they are is in those to
\* come, and no item of a mail is without an instance.
LEMMA GetMailListInv ==
    ASSUME MailInv, NEW p \in Players, HandleGetMailList(p)
    PROVE  MailInv'
<1>1. MemoryOk /\ db \in Tables /\ Sound(db)
  BY Before
<1>2. PICK st : Chain(st)
  BY DEF MailInv, Chained
<1>3. p \in online \ loaded /\ loaded' = loaded \cup {p}
  BY DEF HandleGetMailList
<1>4. UnreadKept(db, future, p)
  <2>1. st[0] = db /\ 0 \in 0..Len(queue)
    BY <1>2, ChainTables DEF Chain, Linked
  <2> QED BY <1>2, <1>3, <2>1 DEF Chain, MailboxesSound
<1>5. PICK box : box = [id \in MailIds |->
           IF db.mail[id] # None /\ db.mail[id].to = p
             THEN [db.mail[id] EXCEPT !.items = @ \cap db.instances] ELSE None]
  OBVIOUS
<1>6. mails' = [mails EXCEPT ![p] = box]
  BY <1>5 DEF HandleGetMailList
<1>7. ASSUME NEW id \in MailIds
      PROVE  box[id] = IF db.mail[id] # None /\ db.mail[id].to = p THEN db.mail[id] ELSE None
  <2>1. CASE db.mail[id] # None /\ db.mail[id].to = p
    <3>1. PICK r : r = db.mail[id]
      OBVIOUS
    <3>2. r \in Mail
      BY <1>1, <2>1, <3>1 DEF Tables
    <3>3. ASSUME NEW i \in r.items PROVE i \in db.instances
      <4>1. i \in Items /\ i \in Elsewhere(db.mail, db.auction)
        BY <2>1, <3>1, <3>2 DEF Elsewhere, Mail
      <4> QED BY <1>1, <4>1 DEF Sound, PlacesSound
    <3>4. r.items \cap db.instances = r.items
      BY <3>3
    <3>5. [r EXCEPT !.items = r.items \cap db.instances] = r
      BY <3>2, <3>4 DEF Mail
    <3> QED BY <1>5, <2>1, <3>1, <3>5
  <2>2. CASE ~(db.mail[id] # None /\ db.mail[id].to = p)
    BY <1>5, <2>2
  <2> QED BY <2>1, <2>2
<1>8. box \in [MailIds -> Mail \cup {None}]
  <2>1. \A id \in MailIds : box[id] \in Mail \cup {None}
    BY <1>1, <1>7 DEF Tables
  <2> QED BY <1>5, <2>1
<1>9. mails' \in [Players -> [MailIds -> Mail \cup {None}]]
  BY <1>1, <1>6, <1>8 DEF MemoryOk
<1>10. MailSync(mails', loaded', future.mail)
  <2>1. ASSUME NEW q \in Players, NEW id \in MailIds, mails'[q][id] # None
        PROVE  q \in loaded' /\ future.mail[id] = mails'[q][id] /\ future.mail[id].to = q
    <3>1. CASE q = p
      <4>1. mails'[q] = box
        BY <1>1, <1>6, <3>1 DEF MemoryOk
      <4> QED BY <1>3, <1>4, <1>7, <2>1, <3>1, <4>1 DEF UnreadKept
    <3>2. CASE q # p
      <4>1. mails'[q] = mails[q]
        BY <1>1, <1>6, <3>2 DEF MemoryOk
      <4> QED BY <1>1, <1>3, <2>1, <4>1 DEF MemoryOk, MailSync
    <3> QED BY <3>1, <3>2
  <2> QED BY <2>1 DEF MailSync
<1>11. /\ UNCHANGED <<queue, db, future, refused, online, money, auctions>>
       /\ UNCHANGED <<inv, updateQueue, uState, trash>>
  BY DEF HandleGetMailList
<1> QED BY <1>1, <1>3, <1>9, <1>10, <1>11, NotCommitted DEF MemoryOk

-----------------------------------------------------------------------------
(***************************************************************************)
(* Drafts                                                                   *)
(***************************************************************************)

\* Drafts that can be posted, with the items X in them.
DraftsOf(drafts, X) == drafts \in Seq(Mail) /\ Carry(drafts, X)

\* No draft, and one.
LEMMA DraftsOne ==
    ASSUME NEW r \in Mail, r.cod > 0 => r.from # None
    PROVE  DraftsOf(<<>>, {}) /\ DraftsOf(<<r>>, r.items)
<1>1. <<>> \in Seq(Mail) /\ Len(<<>>) = 0
  OBVIOUS
<1>2. DraftsOf(<<>>, {})
  BY <1>1 DEF DraftsOf, Carry
<1>3. PICK s : s = <<r>>
  OBVIOUS
<1>4. s \in Seq(Mail) /\ Len(s) = 1 /\ s[1] = r
  BY <1>3
<1>5. \A k \in 1..1 : k = 1
  OBVIOUS
<1>6. r.items \subseteq Items
  BY DEF Mail
<1>7. Carry(s, r.items)
  BY <1>4, <1>5, <1>6 DEF Carry
<1> QED BY <1>2, <1>3, <1>4, <1>7 DEF DraftsOf

\* Drafts without items before others.
LEMMA DraftsJoin ==
    ASSUME NEW s, NEW r, NEW X, DraftsOf(s, {}), DraftsOf(r, X)
    PROVE  DraftsOf(s \o r, X)
<1>1. s \in Seq(Mail) /\ r \in Seq(Mail) /\ Carry(s, {}) /\ Carry(r, X)
  BY DEF DraftsOf
<1>2. PICK t : t = s \o r
  OBVIOUS
<1>3. PICK a, b : a = Len(s) /\ b = Len(r)
  OBVIOUS
<1>4. /\ t \in Seq(Mail) /\ Len(t) = a + b /\ a \in Nat /\ b \in Nat
      /\ \A k \in 1..a : t[k] = s[k]
      /\ \A k \in 1..b : t[a + k] = r[k]
  <2>1. IsList(s) /\ IsList(r)
    BY <1>1 DEF IsList
  <2> QED BY <1>1, <1>2, <1>3, <2>1, ListConcat
<1>5. ASSUME NEW k \in 1..(a + b)
      PROVE  \/ k \in 1..a /\ t[k] = s[k] /\ t[k].items = {}
             \/ k > a /\ k - a \in 1..b /\ t[k] = r[k - a] /\ a + (k - a) = k
  <2>1. CASE k \in 1..a
    BY <1>1, <1>3, <1>4, <2>1 DEF Carry
  <2>2. CASE k \notin 1..a
    <3>1. k > a /\ k - a \in 1..b /\ a + (k - a) = k
      BY <1>4, <2>2
    <3>2. t[a + (k - a)] = r[k - a]
      BY <1>4, <3>1
    <3> QED BY <3>1, <3>2
  <2> QED BY <2>1, <2>2
<1>6. Carry(t, X)
  <2>1. X \subseteq Items
    BY <1>1 DEF Carry
  <2>2. ASSUME NEW k \in 1..(a + b)
        PROVE  (t[k].cod > 0 => t[k].from # None) /\ t[k].items \subseteq X
    BY <1>1, <1>3, <1>5 DEF Carry
  <2>3. ASSUME NEW i \in X PROVE \E k \in 1..(a + b) : i \in t[k].items
    <3>1. PICK k \in 1..b : i \in r[k].items
      BY <1>1, <1>3 DEF Carry
    <3>2. a + k \in 1..(a + b) /\ t[a + k] = r[k]
      BY <1>4
    <3> QED BY <3>1, <3>2
  <2>4. ASSUME NEW k \in 1..(a + b), NEW l \in 1..(a + b), NEW i \in X,
               i \in t[k].items, i \in t[l].items
        PROVE  k = l
    <3>1. k - a \in 1..b /\ t[k] = r[k - a] /\ l - a \in 1..b /\ t[l] = r[l - a]
      BY <1>5, <2>4
    <3>2. k - a = l - a
      BY <1>1, <1>3, <2>4, <3>1 DEF Carry
    <3> QED BY <1>4, <3>2
  <2> QED BY <1>4, <2>1, <2>2, <2>3, <2>4 DEF Carry
<1> QED BY <1>2, <1>4, <1>6 DEF DraftsOf

\* A draft is a mail.
LEMMA DraftMail ==
    ASSUME NEW from \in Players \cup {None}, NEW to \in Players, NEW m \in Nat,
           NEW cod \in Nat, NEW items \in SUBSET Items, cod > 0 => from # None
    PROVE  DraftsOf(<< Draft(from, to, m, cod, items) >>, items)
<1>1. PICK r : r = Draft(from, to, m, cod, items)
  OBVIOUS
<1>2. r \in Mail /\ r.items = items /\ r.cod = cod /\ r.from = from
  BY <1>1 DEF Draft, Mail
<1> QED BY <1>1, <1>2, DraftsOne

\* The auction house keeps no more than what was bid.
LEMMA CutBounded ==
    ASSUME NEW bid \in Nat
    PROVE  GetAuctionCut(bid) \in Nat /\ GetAuctionCut(bid) <= bid
<1>1. CutPercent \in Nat /\ CutPercent <= 100
  BY MailAuctionAssumption
<1>2. PICK x : x = bid * CutPercent
  OBVIOUS
<1>3. x \in Nat /\ x <= bid * 100
  BY <1>1, <1>2
<1>4. x \div 100 \in Nat /\ x \div 100 <= bid
  BY <1>3
<1> QED BY <1>2, <1>4 DEF GetAuctionCut

\* What the bidder gets back.
LEMMA OutbiddedDrafts ==
    ASSUME NEW a \in Auction, NEW p
    PROVE  DraftsOf(OutbiddedMail(a, p), {})
<1>1. CASE a.bidder \in {None, p}
  <2>1. OutbiddedMail(a, p) = <<>>
    BY <1>1 DEF OutbiddedMail
  <2>2. <<>> \in Seq(Mail) /\ Len(<<>>) = 0
    OBVIOUS
  <2> QED BY <2>1, <2>2 DEF DraftsOf, Carry
<1>2. CASE a.bidder \notin {None, p}
  <2>1. a.bidder \in Players /\ a.bid \in Nat
    BY <1>2 DEF Auction
  <2>2. OutbiddedMail(a, p) = << Draft(None, a.bidder, a.bid, 0, {}) >>
    BY <1>2 DEF OutbiddedMail
  <2> QED BY <2>1, <2>2, DraftMail
<1> QED BY <1>1, <1>2

\* What the seller and the buyer get.
LEMMA SoldDrafts ==
    ASSUME NEW a \in Auction, a.bidder # None, NEW i \in Items
    PROVE  DraftsOf(SoldMails(a, i), {i})
<1>1. a.owner \in Players /\ a.bidder \in Players /\ a.bid \in Nat /\ a.deposit \in Nat
  BY DEF Auction
<1>2. PICK c : c = a.bid + a.deposit - GetAuctionCut(a.bid)
  OBVIOUS
<1>3. c \in Nat
  BY <1>1, <1>2, CutBounded
<1>4. /\ None \in Players \cup {None} /\ 0 \in Nat /\ ~(0 > 0)
      /\ {i} \in SUBSET Items /\ {} \in SUBSET Items
  OBVIOUS
<1>5. DraftsOf(<< Draft(None, a.owner, c, 0, {}) >>, {})
  BY ONLY <1>1, <1>3, <1>4, DraftMail
<1>6. DraftsOf(<< Draft(None, a.bidder, 0, 0, {i}) >>, {i})
  BY ONLY <1>1, <1>4, DraftMail
<1>7. SoldMails(a, i) = << Draft(None, a.owner, c, 0, {}) >> \o << Draft(None, a.bidder, 0, 0, {i}) >>
  BY <1>2 DEF SoldMails
<1> QED BY <1>5, <1>6, <1>7, DraftsJoin

-----------------------------------------------------------------------------
(***************************************************************************)
(* Posting and saving                                                       *)
(***************************************************************************)

\* GenerateMailID and SendMailTo: the statements, and the lists of receivers who
\* have opened their mailboxes.
LEMMA Post ==
    ASSUME MailInv, NEW d \in Tables,
           \A id \in MailIds : future.mail[id] = None => d.mail[id] = None,
           NEW boxes \in [Players -> [MailIds -> Mail \cup {None}]],
           MailSync(boxes, loaded, d.mail),
           NEW drafts, NEW X, DraftsOf(drafts, X), SendMailTo(boxes, FreeIds, drafts)
    PROVE  /\ Drafts(FreeIds, drafts) /\ \A k \in 1..Len(drafts) : d.mail[FreeIds[k]] = None
           /\ \E e \in Tables :
                 /\ Runs(d, InsertMails(FreeIds, drafts), e)
                 /\ e.inventory = d.inventory /\ e.instances = d.instances
                 /\ e.money = d.money /\ e.auction = d.auction
                 /\ Posted(d.mail, FreeIds, drafts, e.mail)
           /\ mails' \in [Players -> [MailIds -> Mail \cup {None}]]
           /\ \A n : Posted(d.mail, FreeIds, drafts, n) => MailSync(mails', loaded, n)
<1>1. PICK ids : ids = FreeIds
  OBVIOUS
<1>2. PICK st : Chain(st)
  BY DEF MailInv, Chained
<1>3. /\ Len(ids) \in Nat
      /\ \A k \in 1..Len(ids) : ids[k] \in MailIds /\ future.mail[ids[k]] = None
      /\ \A k, l \in 1..Len(ids) : ids[k] = ids[l] => k = l
  BY <1>1, <1>2, FreeIdsAre
<1>4. Len(drafts) <= Len(ids) /\ drafts \in Seq(Mail) /\ Len(drafts) \in Nat
  BY <1>1 DEF SendMailTo, DraftsOf
<1>5. Drafts(ids, drafts)
  BY <1>3, <1>4 DEF Drafts
<1>6. \A k \in 1..Len(drafts) : k \in 1..Len(ids)
  BY <1>3, <1>4
<1>7. \A k \in 1..Len(drafts) : d.mail[ids[k]] = None
  BY <1>3, <1>6
<1>8. \E e \in Tables :
         /\ Runs(d, InsertMails(ids, drafts), e)
         /\ e.inventory = d.inventory /\ e.instances = d.instances
         /\ e.money = d.money /\ e.auction = d.auction
         /\ Posted(d.mail, ids, drafts, e.mail)
  BY <1>5, <1>7, InsertMailsRuns
<1>9. Delivered(boxes, loaded, ids, drafts, mails')
  BY <1>1 DEF SendMailTo, Delivered
<1>10. PICK e \in Tables : Posted(d.mail, ids, drafts, e.mail)
  BY <1>8
<1>11. mails' \in [Players -> [MailIds -> Mail \cup {None}]]
  BY <1>5, <1>7, <1>9, <1>10, BoxesPosted
<1>12. ASSUME NEW n, Posted(d.mail, ids, drafts, n) PROVE MailSync(mails', loaded, n)
  BY <1>5, <1>7, <1>9, <1>12, BoxesPosted
<1> QED BY <1>1, <1>5, <1>7, <1>8, <1>11, <1>12

\* Saved, for one player.
LEMMA SavedOne ==
    ASSUME NEW p \in Players, NEW pending \in [Players -> SUBSET Items], NEW us,
           Saved({p}, pending, us)
    PROVE  QueueSaved(pending, us, p, updateQueue', uState')
<1>1. updateQueue' = [q \in Players |-> IF q = p THEN {} ELSE pending[q]]
  BY DEF Saved
<1>2. uState' = [i \in Items |-> IF i \in pending[p] THEN "unchanged" ELSE us[i]]
  BY DEF Saved
<1> QED BY <1>1, <1>2 DEF QueueSaved

\* e has what d has, but for the inventory and the money m of p.
RowsSaved(d, p, m, e) ==
    /\ e \in Tables /\ e.money = [d.money EXCEPT ![p] = m]
    /\ OthersKept(p, d.inventory, e.inventory)
    /\ e.mail = d.mail /\ e.auction = d.auction

\* The update queue of p, and his money, are saved.
LEMMA Save ==
    ASSUME NEW d \in Tables, NEW on, NEW iv, NEW uq, NEW us, NEW E,
           ItemOk(on, iv, uq, us, d.inventory, d.instances, E),
           NEW p \in on, NEW m \in Nat, NEW ur, NEW ut,
           QueueSaved(uq, us, p, ur, ut)
    PROVE  \E e :
              /\ RowsSaved(d, p, m, e)
              /\ Runs(d, SaveInventoryAndGold(p, uq[p], us, m), e)
              /\ ItemOk(on, iv, ur, ut, e.inventory, e.instances, E)
<1>1. /\ p \in Players /\ uq[p] \in SUBSET Items
      /\ \A i \in uq[p] : us[i] = "new" => d.inventory[i] = None
  BY DEF ItemOk, ItemTypes, ItemSync
<1>2. PICK e \in Tables :
              /\ Runs(d, SaveInventoryAndGold(p, uq[p], us, m), e)
              /\ e.inventory = Stored(d.inventory, p, uq[p], us)
              /\ e.instances = Instances(d.instances, uq[p], us)
              /\ e.money = [d.money EXCEPT ![p] = m]
              /\ e.mail = d.mail /\ e.auction = d.auction
  BY <1>1, SaveInventoryAndGoldRuns
<1>3. /\ ItemOk(on, iv, ur, ut, e.inventory, e.instances, E)
      /\ OthersKept(p, d.inventory, e.inventory)
  BY ONLY <1>2, ItemOk(on, iv, uq, us, d.inventory, d.instances, E), p \in on,
          QueueSaved(uq, us, p, ur, ut), ItemsSaved
<1>4. RowsSaved(d, p, m, e)
  BY <1>2, <1>3 DEF RowsSaved
<1> QED BY <1>2, <1>3, <1>4

\* An auction goes on with another bid, or ends and its item is posted.
LEMMA AuctionMailed ==
    ASSUME NEW m, NEW a, MailOk(m, a), NEW i, NEW x, NEW b, AuctionBecomes(a, i, x, b),
           a[i] # None,
           NEW ids, NEW drafts, Drafts(ids, drafts),
           \A k \in 1..Len(drafts) : m[ids[k]] = None,
           NEW n \in [MailIds -> Mail \cup {None}], Posted(m, ids, drafts, n),
           NEW X, DraftsOf(drafts, X), X = IF x = None THEN {i} ELSE {}
    PROVE  /\ MailOk(n, b) /\ Elsewhere(n, b) = Elsewhere(m, a)
           /\ \A id \in MailIds : m[id] # None => n[id] = m[id]
<1>1. /\ MailOk(m, b)
      /\ x = None => Elsewhere(m, b) = Elsewhere(m, a) \ {i}
      /\ x # None => Elsewhere(m, b) = Elsewhere(m, a) \cup {i}
  BY ONLY MailOk(m, a), a[i] # None, AuctionBecomes(a, i, x, b), AuctionSet
<1>2. i \in Elsewhere(m, a)
  BY DEF Elsewhere, AuctionBecomes
<1>3. X \cap Elsewhere(m, b) = {} /\ Carry(drafts, X)
  BY <1>1 DEF DraftsOf
<1>4. /\ MailOk(n, b) /\ Elsewhere(n, b) = Elsewhere(m, b) \cup X
      /\ \A id \in MailIds : m[id] # None => n[id] = m[id]
  BY ONLY <1>1, <1>3, Drafts(ids, drafts), \A k \in 1..Len(drafts) : m[ids[k]] = None,
          n \in [MailIds -> Mail \cup {None}], Posted(m, ids, drafts, n), MailsPosted
<1>5. Elsewhere(n, b) = Elsewhere(m, a)
  <2>1. CASE x = None
    <3>1. X = {i}
      BY <2>1
    <3> QED BY ONLY <1>1, <1>2, <1>4, <2>1, <3>1
  <2>2. CASE x # None
    <3>1. X = {}
      BY <2>2
    <3> QED BY ONLY <1>1, <1>2, <1>4, <2>2, <3>1
  <2> QED BY <2>1, <2>2
<1> QED BY <1>4, <1>5

-----------------------------------------------------------------------------
(***************************************************************************)
(* The steps of the auction house                                           *)
(***************************************************************************)

\* AuctionHouseObject::Update.
LEMMA AuctionExpiresInv ==
    ASSUME MailInv, NEW i \in Items, AuctionExpires(i)
    PROVE  MailInv' /\ KeepsItems
<1>1. MemoryOk /\ future \in Tables
  BY Before
<1>2. PICK a : a = auctions[i]
  OBVIOUS
<1>3. a # None /\ a = future.auction[i] /\ a \in Auction
  BY <1>1, <1>2, Before DEF AuctionExpires, MemoryOk
<1>4. PICK drafts : drafts = IF a.bidder = None THEN << Draft(None, a.owner, 0, 0, {i}) >>
                                                ELSE SoldMails(a, i)
  OBVIOUS
<1>5. /\ auctions' = [auctions EXCEPT ![i] = None]
      /\ SendMailTo(mails, FreeIds, drafts)
      /\ Commit(InsertMails(FreeIds, drafts) \o << DeleteAuction(i) >>)
      /\ UNCHANGED <<online, inv, money, updateQueue, uState, loaded, trash, db, refused>>
  BY <1>2, <1>4 DEF AuctionExpires
<1>6. DraftsOf(drafts, {i})
  <2>1. CASE a.bidder = None
    <3>1. a.owner \in Players /\ {i} \in SUBSET Items /\ None \in Players \cup {None}
      BY <1>3 DEF Auction
    <3>2. DraftsOf(<< Draft(None, a.owner, 0, 0, {i}) >>, {i})
      BY ONLY <3>1, DraftMail
    <3> QED BY <1>4, <2>1, <3>2
  <2>2. CASE a.bidder # None
    BY <1>3, <1>4, <2>2, SoldDrafts
  <2> QED BY <2>1, <2>2
<1>7. /\ Drafts(FreeIds, drafts) /\ \A k \in 1..Len(drafts) : future.mail[FreeIds[k]] = None
      /\ \E e \in Tables :
            /\ Runs(future, InsertMails(FreeIds, drafts), e)
            /\ e.inventory = future.inventory /\ e.instances = future.instances
            /\ e.money = future.money /\ e.auction = future.auction
            /\ Posted(future.mail, FreeIds, drafts, e.mail)
      /\ mails' \in [Players -> [MailIds -> Mail \cup {None}]]
      /\ \A n : Posted(future.mail, FreeIds, drafts, n) => MailSync(mails', loaded, n)
  BY <1>1, <1>5, <1>6, Post DEF MemoryOk
<1>8. PICK c \in Tables :
            /\ Runs(future, InsertMails(FreeIds, drafts), c)
            /\ c.inventory = future.inventory /\ c.instances = future.instances
            /\ c.money = future.money /\ c.auction = future.auction
            /\ Posted(future.mail, FreeIds, drafts, c.mail)
  BY <1>7
<1>9. PICK e \in Tables :
            /\ Runs(c, << DeleteAuction(i) >>, e)
            /\ e.inventory = c.inventory /\ e.instances = c.instances
            /\ e.money = c.money /\ e.mail = c.mail
            /\ e.auction = [c.auction EXCEPT ![i] = None]
  BY AuctionEndRuns
<1>10. Runs(future, InsertMails(FreeIds, drafts) \o << DeleteAuction(i) >>, e)
  BY <1>8, <1>9, RunsConcat
<1>11. /\ MailOk(e.mail, e.auction)
       /\ Elsewhere(e.mail, e.auction) = Elsewhere(future.mail, future.auction)
       /\ \A id \in MailIds : future.mail[id] # None => e.mail[id] = future.mail[id]
  <2>1. AuctionBecomes(future.auction, i, None, e.auction) /\ future.auction[i] # None
    BY <1>3, <1>8, <1>9 DEF AuctionBecomes
  <2>2. MailOk(future.mail, future.auction)
    BY <1>1 DEF MemoryOk
  <2>3. Posted(future.mail, FreeIds, drafts, e.mail) /\ e.mail \in [MailIds -> Mail \cup {None}]
    BY <1>8, <1>9 DEF Tables
  <2> QED BY ONLY <1>6, <1>7, <2>1, <2>2, <2>3, AuctionMailed
<1>12. \A q \in Players : RowsKept(future, e, q) /\ UnreadKept(future, e, q)
  BY <1>8, <1>9, <1>11 DEF RowsKept, UnreadKept
<1>13. ItemOk(online', inv', updateQueue', uState', e.inventory, e.instances,
              Elsewhere(e.mail, e.auction))
  BY <1>1, <1>5, <1>8, <1>9, <1>11 DEF MemoryOk
<1>14. MailSync(mails', loaded', e.mail)
  BY <1>5, <1>7, <1>8, <1>9
<1>15. auctions' = e.auction /\ \A p \in online : money'[p] = e.money[p]
  BY <1>1, <1>5, <1>8, <1>9 DEF MemoryOk
<1>16. /\ loaded \subseteq online /\ money \in [Players -> Nat] /\ trash \subseteq MailIds
  BY <1>1 DEF MemoryOk
<1>17. Follows(e)
  BY ONLY <1>5, <1>7, <1>11, <1>12, <1>13, <1>14, <1>15, <1>16 DEF Follows
<1>18. Kept(e)
  BY <1>5, <1>11 DEF Kept
<1> QED BY ONLY MailInv, <1>5, <1>10, <1>17, <1>18, Committed

\* HandleAuctionRemoveItem.
LEMMA AuctionRemoveItemInv ==
    ASSUME MailInv, NEW p \in Players, NEW i \in Items, HandleAuctionRemoveItem(p, i)
    PROVE  MailInv' /\ KeepsItems
<1>1. MemoryOk /\ future \in Tables
  BY Before
<1>2. PICK a : a = auctions[i]
  OBVIOUS
<1>3. a # None /\ a = future.auction[i] /\ a \in Auction /\ p \in online
  BY <1>1, <1>2, Before DEF HandleAuctionRemoveItem, MemoryOk
<1>4. PICK drafts : drafts = OutbiddedMail(a, None) \o << Draft(None, p, 0, 0, {i}) >>
  OBVIOUS
<1>5. PICK cut : cut = IF a.bidder = None THEN 0 ELSE GetAuctionCut(a.bid)
  OBVIOUS
<1>6. /\ auctions' = [auctions EXCEPT ![i] = None]
      /\ HasEnoughMoney(p, cut) /\ money' = [money EXCEPT ![p] = @ - cut]
      /\ SendMailTo(mails, FreeIds, drafts)
      /\ Saved({p}, updateQueue, uState)
      /\ Commit(   InsertMails(FreeIds, drafts)
                \o SaveInventoryAndGold(p, updateQueue[p], uState, money'[p])
                \o << DeleteAuction(i) >>)
      /\ UNCHANGED <<online, inv, loaded, trash, db, refused>>
  BY <1>2, <1>4, <1>5 DEF HandleAuctionRemoveItem
<1>7. money' \in [Players -> Nat] /\ money'[p] \in Nat
  <2>1. cut \in Nat
    BY <1>3, <1>5, CutBounded DEF Auction
  <2>2. money \in [Players -> Nat] /\ money[p] >= cut
    BY <1>1, <1>6 DEF MemoryOk, HasEnoughMoney
  <2>3. money[p] - cut \in Nat
    BY <2>1, <2>2
  <2> QED BY <1>6, <2>2, <2>3
<1>8. DraftsOf(drafts, {i})
  <2>1. PICK x : x = {i}
    OBVIOUS
  <2>a. x \in SUBSET Items /\ None \in Players \cup {None} /\ 0 \in Nat /\ ~(0 > 0)
    BY <2>1
  <2>b. DraftsOf(<< Draft(None, p, 0, 0, x) >>, x)
    BY ONLY <2>a, p \in Players, DraftMail
  <2>2. DraftsOf(<< Draft(None, p, 0, 0, {i}) >>, {i})
    BY ONLY <2>1, <2>b
  <2>3. DraftsOf(OutbiddedMail(a, None), {})
    BY <1>3, OutbiddedDrafts
  <2> QED BY <1>4, <2>2, <2>3, DraftsJoin
<1>9. /\ Drafts(FreeIds, drafts) /\ \A k \in 1..Len(drafts) : future.mail[FreeIds[k]] = None
      /\ \E e \in Tables :
            /\ Runs(future, InsertMails(FreeIds, drafts), e)
            /\ e.inventory = future.inventory /\ e.instances = future.instances
            /\ e.money = future.money /\ e.auction = future.auction
            /\ Posted(future.mail, FreeIds, drafts, e.mail)
      /\ mails' \in [Players -> [MailIds -> Mail \cup {None}]]
      /\ \A n : Posted(future.mail, FreeIds, drafts, n) => MailSync(mails', loaded, n)
  BY <1>1, <1>6, <1>8, Post DEF MemoryOk
<1>10. PICK b \in Tables :
            /\ Runs(future, InsertMails(FreeIds, drafts), b)
            /\ b.inventory = future.inventory /\ b.instances = future.instances
            /\ b.money = future.money /\ b.auction = future.auction
            /\ Posted(future.mail, FreeIds, drafts, b.mail)
  BY <1>9
<1>11. PICK E : E = Elsewhere(future.mail, future.auction)
  OBVIOUS
<1>12. PICK c :
            /\ RowsSaved(b, p, money'[p], c)
            /\ Runs(b, SaveInventoryAndGold(p, updateQueue[p], uState, money'[p]), c)
            /\ ItemOk(online, inv, updateQueue', uState', c.inventory, c.instances, E)
  <2>1. ItemOk(online, inv, updateQueue, uState, b.inventory, b.instances, E)
    BY <1>1, <1>10, <1>11 DEF MemoryOk
  <2>2. QueueSaved(updateQueue, uState, p, updateQueue', uState')
    BY <1>6, SavedOne, Before
  <2> QED BY ONLY <1>3, <1>7, <2>1, <2>2, b \in Tables, Save
<1>13. /\ c \in Tables /\ c.money = [b.money EXCEPT ![p] = money'[p]]
       /\ \A q \in Players \ {p} : \A j \in Items : c.inventory[j] = q <=> b.inventory[j] = q
       /\ c.mail = b.mail /\ c.auction = b.auction
  BY <1>12 DEF RowsSaved, OthersKept
<1>14. PICK e \in Tables :
            /\ Runs(c, << DeleteAuction(i) >>, e)
            /\ e.inventory = c.inventory /\ e.instances = c.instances
            /\ e.money = c.money /\ e.mail = c.mail
            /\ e.auction = [c.auction EXCEPT ![i] = None]
  BY <1>13, AuctionEndRuns
<1>15. Runs(future, InsertMails(FreeIds, drafts)
                    \o SaveInventoryAndGold(p, updateQueue[p], uState, money'[p])
                    \o << DeleteAuction(i) >>, e)
  <2>1. Runs(future, InsertMails(FreeIds, drafts)
                     \o SaveInventoryAndGold(p, updateQueue[p], uState, money'[p]), c)
    BY ONLY <1>10, <1>12, RunsConcat
  <2> QED BY ONLY <1>14, <2>1, RunsConcat
<1>16. /\ MailOk(e.mail, e.auction) /\ Elsewhere(e.mail, e.auction) = E
       /\ \A id \in MailIds : future.mail[id] # None => e.mail[id] = future.mail[id]
  <2>1. AuctionBecomes(future.auction, i, None, e.auction) /\ future.auction[i] # None
    BY <1>3, <1>10, <1>12, <1>13, <1>14 DEF AuctionBecomes
  <2>2. MailOk(future.mail, future.auction)
    BY <1>1 DEF MemoryOk
  <2>3. Posted(future.mail, FreeIds, drafts, e.mail) /\ e.mail \in [MailIds -> Mail \cup {None}]
    BY <1>10, <1>12, <1>13, <1>14 DEF Tables
  <2> QED BY ONLY <1>8, <1>9, <1>11, <2>1, <2>2, <2>3, AuctionMailed
<1>17. ASSUME NEW q \in Players PROVE UnreadKept(future, e, q) /\ (q # p => RowsKept(future, e, q))
  <2>1. q # p => e.money[q] = future.money[q]
    BY <1>10, <1>12, <1>13, <1>14, Before
  <2> QED BY <1>10, <1>12, <1>13, <1>14, <1>16, <2>1 DEF RowsKept, UnreadKept
<1>18. MailSync(mails', loaded', e.mail)
  BY <1>6, <1>9, <1>10, <1>12, <1>13, <1>14
<1>19. ASSUME NEW q \in online PROVE money'[q] = e.money[q]
  <2>1. money \in [Players -> Nat] /\ money[q] = future.money[q] /\ q \in Players
    BY <1>1, Before DEF MemoryOk
  <2>2. e.money = [future.money EXCEPT ![p] = money'[p]] /\ future.money \in [Players -> Nat]
    BY <1>10, <1>12, <1>13, <1>14, Before
  <2> QED BY <1>6, <2>1, <2>2
<1>20. auctions' = e.auction
  BY <1>1, <1>6, <1>10, <1>12, <1>13, <1>14 DEF MemoryOk
<1>21. loaded \subseteq online /\ trash \subseteq MailIds
  BY <1>1 DEF MemoryOk
<1>22. ItemOk(online', inv', updateQueue', uState', e.inventory, e.instances,
              Elsewhere(e.mail, e.auction))
  BY <1>6, <1>12, <1>13, <1>14, <1>16
<1>23. Follows(e)
  BY ONLY <1>3, <1>6, <1>7, <1>9, <1>16, <1>17, <1>18, <1>19, <1>20, <1>21, <1>22 DEF Follows
<1>24. Kept(e)
  BY <1>6, <1>11, <1>16 DEF Kept
<1> QED BY ONLY MailInv, <1>6, <1>15, <1>23, <1>24, Committed

\* A row of auctionhouse is changed or deleted.
LEMMA AuctionChangeRuns ==
    ASSUME NEW d \in Tables, NEW i \in Items, d.auction[i] # None,
           NEW x \in Auction \cup {None}, NEW s,
           s = IF x = None THEN DeleteAuction(i) ELSE UpdateAuction(i, x)
    PROVE  \E e \in Tables :
              /\ Runs(d, <<s>>, e)
              /\ e.inventory = d.inventory /\ e.instances = d.instances
              /\ e.money = d.money /\ e.mail = d.mail
              /\ e.auction = [d.auction EXCEPT ![i] = x]
<1>1. CASE x = None
  BY <1>1, AuctionEndRuns
<1>2. CASE x # None
  <2>1. x \in Auction /\ s = UpdateAuction(i, x)
    BY <1>2
  <2>2. \E e \in Tables : RowSet(d, UpdateAuction(i, x), i, x, e)
    BY ONLY <2>1, d \in Tables, i \in Items, d.auction[i] # None, AuctionRuns
  <2>3. PICK e \in Tables : RowSet(d, s, i, x, e)
    BY ONLY <2>1, <2>2
  <2> QED BY ONLY <2>3 DEF RowSet
<1> QED BY <1>1, <1>2

\* What HandleAuctionPlaceBid does with the row x, the drafts and the statement s.
Bids(p, i, x, s, drafts) ==
    /\ p \in online /\ x \in Auction \cup {None}
    /\ s = IF x = None THEN DeleteAuction(i) ELSE UpdateAuction(i, x)
    /\ DraftsOf(drafts, IF x = None THEN {i} ELSE {})
    /\ money' \in [Players -> Nat] /\ money' = [money EXCEPT ![p] = money'[p]]
    /\ auctions' = [auctions EXCEPT ![i] = x]
    /\ SendMailTo(mails, FreeIds, drafts)
    /\ Commit(   InsertMails(FreeIds, drafts) \o << s >>
              \o SaveInventoryAndGold(p, updateQueue[p], uState, money'[p]))

\* A bid and a buyout.
LEMMA PlaceBidBids ==
    ASSUME MailInv, NEW p \in Players, NEW i \in Items, NEW price \in Nat,
           HandleAuctionPlaceBid(p, i, price)
    PROVE  \E x, s, drafts : Bids(p, i, x, s, drafts)
<1>1. PICK a : a = auctions[i]
  OBVIOUS
<1>2. a # None /\ a \in Auction /\ p \in online /\ p # None
  BY <1>1, Before, NullAssumption DEF HandleAuctionPlaceBid, MemoryOk
<1>3. a.bid \in Nat /\ a.buyout \in Nat
  BY <1>2 DEF Auction
<1>4. money \in [Players -> Nat] /\ money[p] >= price /\ price > a.bid
  BY <1>1, Before DEF HandleAuctionPlaceBid, HasEnoughMoney, MemoryOk
<1>5. PICK v : v = IF a.buyout > 0 /\ price >= a.buyout THEN a.buyout ELSE price
  OBVIOUS
<1>6. v \in Nat /\ v <= price
  BY <1>3, <1>5
<1>7. PICK bid : bid = [a EXCEPT !.bidder = p, !.bid = v]
  OBVIOUS
<1>8. bid \in Auction /\ bid.bidder = p /\ bid.bid = v
  BY <1>2, <1>6, <1>7 DEF Auction
<1>9. money' = [money EXCEPT ![p] = @ - (IF a.bidder = p THEN bid.bid - a.bid ELSE bid.bid)]
  BY <1>1, <1>5, <1>7 DEF HandleAuctionPlaceBid
<1>10. PICK c : c = money[p] - (IF a.bidder = p THEN v - a.bid ELSE v)
  OBVIOUS
<1>11. money[p] \in Nat
  BY <1>4
<1>12. c \in Nat
  BY ONLY <1>3, <1>4, <1>6, <1>10, <1>11, price \in Nat
<1>13. money' = [money EXCEPT ![p] = c]
  BY <1>8, <1>9, <1>10
<1>14. money' \in [Players -> Nat] /\ money' = [money EXCEPT ![p] = money'[p]]
  BY ONLY <1>4, <1>12, <1>13, p \in Players
<1>15. DraftsOf(OutbiddedMail(a, p), {})
  BY <1>2, OutbiddedDrafts
<1>16. CASE a.buyout > 0 /\ price >= a.buyout
  <2>1. PICK drafts : drafts = OutbiddedMail(a, p) \o SoldMails(bid, i)
    OBVIOUS
  <2>2. DraftsOf(drafts, {i})
    BY <1>2, <1>8, <1>15, <2>1, SoldDrafts, DraftsJoin
  <2>3. /\ auctions' = [auctions EXCEPT ![i] = None]
        /\ SendMailTo(mails, FreeIds, drafts)
        /\ Commit(   InsertMails(FreeIds, drafts) \o << DeleteAuction(i) >>
                  \o SaveInventoryAndGold(p, updateQueue[p], uState, money'[p]))
    BY <1>1, <1>5, <1>7, <1>16, <2>1 DEF HandleAuctionPlaceBid
  <2>4. Bids(p, i, None, DeleteAuction(i), drafts)
    BY ONLY <1>2, <1>14, <2>2, <2>3 DEF Bids
  <2> QED BY <2>4
<1>17. CASE ~(a.buyout > 0 /\ price >= a.buyout)
  <2>1. PICK drafts : drafts = OutbiddedMail(a, p) \o <<>>
    OBVIOUS
  <2>2. DraftsOf(<<>>, {})
    BY <1>8 DEF DraftsOf, Carry
  <2>3. DraftsOf(drafts, {})
    BY <1>15, <2>1, <2>2, DraftsJoin
  <2>4. /\ auctions' = [auctions EXCEPT ![i] = bid]
        /\ SendMailTo(mails, FreeIds, drafts)
        /\ Commit(   InsertMails(FreeIds, drafts) \o << UpdateAuction(i, bid) >>
                  \o SaveInventoryAndGold(p, updateQueue[p], uState, money'[p]))
    BY <1>1, <1>5, <1>7, <1>17, <2>1 DEF HandleAuctionPlaceBid
  <2>5. bid # None
    BY <1>8, NullAssumption
  <2>6. Bids(p, i, bid, UpdateAuction(i, bid), drafts)
    BY ONLY <1>2, <1>8, <1>14, <2>3, <2>4, <2>5 DEF Bids
  <2> QED BY <2>6
<1> QED BY <1>16, <1>17

\* HandleAuctionPlaceBid.
LEMMA AuctionPlaceBidInv ==
    ASSUME MailInv, NEW p \in Players, NEW i \in Items, NEW price \in Nat,
           HandleAuctionPlaceBid(p, i, price)
    PROVE  MailInv' /\ KeepsItems
<1>1. MemoryOk /\ future \in Tables
  BY Before
<1>2. PICK x, s, drafts : Bids(p, i, x, s, drafts)
  BY PlaceBidBids
<1>3. /\ p \in online /\ x \in Auction \cup {None}
      /\ s = IF x = None THEN DeleteAuction(i) ELSE UpdateAuction(i, x)
      /\ DraftsOf(drafts, IF x = None THEN {i} ELSE {})
      /\ auctions' = [auctions EXCEPT ![i] = x] /\ SendMailTo(mails, FreeIds, drafts)
      /\ Commit(   InsertMails(FreeIds, drafts) \o << s >>
                \o SaveInventoryAndGold(p, updateQueue[p], uState, money'[p]))
  BY <1>2 DEF Bids
<1>4. money' \in [Players -> Nat] /\ money' = [money EXCEPT ![p] = money'[p]] /\ money'[p] \in Nat
  BY <1>2 DEF Bids
<1>5. future.auction[i] # None
  BY <1>1 DEF HandleAuctionPlaceBid, MemoryOk
<1>6. Saved({p}, updateQueue, uState) /\ UNCHANGED <<online, inv, loaded, trash, db, refused>>
  BY DEF HandleAuctionPlaceBid
<1>7. PICK X : X = IF x = None THEN {i} ELSE {}
  OBVIOUS
<1>8. DraftsOf(drafts, X)
  BY <1>3, <1>7
<1>9. /\ Drafts(FreeIds, drafts) /\ \A k \in 1..Len(drafts) : future.mail[FreeIds[k]] = None
      /\ \E e \in Tables :
            /\ Runs(future, InsertMails(FreeIds, drafts), e)
            /\ e.inventory = future.inventory /\ e.instances = future.instances
            /\ e.money = future.money /\ e.auction = future.auction
            /\ Posted(future.mail, FreeIds, drafts, e.mail)
      /\ mails' \in [Players -> [MailIds -> Mail \cup {None}]]
      /\ \A n : Posted(future.mail, FreeIds, drafts, n) => MailSync(mails', loaded, n)
  BY <1>1, <1>3, <1>8, Post DEF MemoryOk
<1>10. PICK b \in Tables :
            /\ Runs(future, InsertMails(FreeIds, drafts), b)
            /\ b.inventory = future.inventory /\ b.instances = future.instances
            /\ b.money = future.money /\ b.auction = future.auction
            /\ Posted(future.mail, FreeIds, drafts, b.mail)
  BY <1>9
<1>11. PICK c \in Tables :
            /\ Runs(b, << s >>, c)
            /\ c.inventory = b.inventory /\ c.instances = b.instances
            /\ c.money = b.money /\ c.mail = b.mail
            /\ c.auction = [b.auction EXCEPT ![i] = x]
  BY <1>3, <1>5, <1>10, AuctionChangeRuns
<1>12. PICK E : E = Elsewhere(future.mail, future.auction)
  OBVIOUS
<1>13. PICK e :
            /\ RowsSaved(c, p, money'[p], e)
            /\ Runs(c, SaveInventoryAndGold(p, updateQueue[p], uState, money'[p]), e)
            /\ ItemOk(online, inv, updateQueue', uState', e.inventory, e.instances, E)
  <2>1. ItemOk(online, inv, updateQueue, uState, c.inventory, c.instances, E)
    BY <1>1, <1>10, <1>11, <1>12 DEF MemoryOk
  <2>2. QueueSaved(updateQueue, uState, p, updateQueue', uState')
    BY <1>6, SavedOne, Before
  <2> QED BY ONLY <1>3, <1>4, <2>1, <2>2, c \in Tables, Save
<1>14. /\ e \in Tables /\ e.money = [future.money EXCEPT ![p] = money'[p]]
       /\ \A q \in Players \ {p} : \A j \in Items : e.inventory[j] = q <=> future.inventory[j] = q
       /\ e.mail = b.mail /\ e.auction = [future.auction EXCEPT ![i] = x]
  BY <1>10, <1>11, <1>13 DEF RowsSaved, OthersKept
<1>15. Runs(future, InsertMails(FreeIds, drafts) \o << s >>
                    \o SaveInventoryAndGold(p, updateQueue[p], uState, money'[p]), e)
  <2>1. Runs(future, InsertMails(FreeIds, drafts) \o << s >>, c)
    BY ONLY <1>10, <1>11, RunsConcat
  <2> QED BY ONLY <1>13, <2>1, RunsConcat
<1>16. /\ MailOk(e.mail, e.auction) /\ Elsewhere(e.mail, e.auction) = E
       /\ \A id \in MailIds : future.mail[id] # None => e.mail[id] = future.mail[id]
  <2>1. AuctionBecomes(future.auction, i, x, e.auction) /\ future.auction[i] # None
    BY <1>3, <1>5, <1>14 DEF AuctionBecomes
  <2>2. MailOk(future.mail, future.auction)
    BY <1>1 DEF MemoryOk
  <2>3. Posted(future.mail, FreeIds, drafts, e.mail) /\ e.mail \in [MailIds -> Mail \cup {None}]
    BY <1>10, <1>14 DEF Tables
  <2> QED BY ONLY <1>7, <1>8, <1>9, <1>12, <2>1, <2>2, <2>3, AuctionMailed
<1>17. ASSUME NEW q \in Players PROVE UnreadKept(future, e, q) /\ (q # p => RowsKept(future, e, q))
  <2>1. q # p => e.money[q] = future.money[q]
    BY <1>14, Before
  <2> QED BY <1>14, <1>16, <2>1 DEF RowsKept, UnreadKept
<1>18. MailSync(mails', loaded', e.mail)
  BY <1>6, <1>9, <1>10, <1>14
<1>19. ASSUME NEW q \in online PROVE money'[q] = e.money[q]
  <2>1. money \in [Players -> Nat] /\ money[q] = future.money[q] /\ q \in Players
    BY <1>1, Before DEF MemoryOk
  <2>2. future.money \in [Players -> Nat]
    BY Before
  <2> QED BY ONLY <1>4, <1>14, <2>1, <2>2, p \in Players
<1>20. auctions' = e.auction /\ loaded \subseteq online /\ trash \subseteq MailIds
  BY <1>1, <1>3, <1>14 DEF MemoryOk
<1>21. ItemOk(online', inv', updateQueue', uState', e.inventory, e.instances,
              Elsewhere(e.mail, e.auction))
  BY <1>6, <1>13, <1>16
<1>22. Follows(e)
  BY ONLY <1>3, <1>4, <1>6, <1>9, <1>16, <1>17, <1>18, <1>19, <1>20, <1>21 DEF Follows
<1>23. Kept(e)
  BY <1>6, <1>12, <1>16 DEF Kept
<1> QED BY ONLY MailInv, <1>3, <1>15, <1>22, <1>23, Committed

-----------------------------------------------------------------------------
(***************************************************************************)
(* Items that leave an inventory                                            *)
(***************************************************************************)

\* A list of two.
LEMMA ListOfTwo ==
    ASSUME NEW x, NEW y
    PROVE  <<x>> \o <<y>> = <<x, y>>
<1>1. PICK a, b : a = <<x>> /\ b = <<y>>
  OBVIOUS
<1>2. a \in Seq({x, y}) /\ b \in Seq({x, y}) /\ Len(a) = 1 /\ Len(b) = 1 /\ a[1] = x /\ b[1] = y
  BY <1>1
<1>3. PICK c : c = a \o b
  OBVIOUS
<1>4. c \in Seq({x, y}) /\ Len(c) = 2 /\ c[1] = x /\ c[2] = y
  <2>1. IsList(a) /\ IsList(b) /\ 1 \in 1..1 /\ 1 + 1 = 2
    BY <1>2 DEF IsList
  <2>2. c \in Seq({x, y})
    BY <1>2, <1>3
  <2>3. Len(c) = Len(a) + Len(b) /\ c[1] = a[1] /\ c[Len(a) + 1] = b[1]
    <3>1. 1 \in 1..Len(a) /\ 1 \in 1..Len(b)
      BY <1>2
    <3>2. /\ Len(c) = Len(a) + Len(b)
          /\ \A i \in 1..Len(a) : c[i] = a[i]
          /\ \A i \in 1..Len(b) : c[Len(a) + i] = b[i]
      BY ONLY <1>3, <2>1, ListConcat
    <3> QED BY ONLY <3>1, <3>2
  <2> QED BY <1>2, <2>1, <2>2, <2>3
<1>5. c = <<x, y>>
  BY <1>4
<1> QED BY <1>1, <1>3, <1>5

\* What the tables and the memory are then.
Left(d, on, us, p, i, iw, ur, ut, E, e) ==
    /\ Runs(d, << Detach(i, us[i] = "new") >>, e)
    /\ ItemOk(on, iw, ur, ut, e.inventory, e.instances, E \cup {i}) /\ i \notin E
    /\ RowsSaved(d, p, d.money[p], e)

\* An item leaves the inventory of p.
LEMMA Leave ==
    ASSUME NEW d \in Tables, NEW on, NEW iv, NEW uq, NEW us, NEW E,
           ItemOk(on, iv, uq, us, d.inventory, d.instances, E),
           NEW p, NEW i, NEW iw, NEW ur, NEW ut, Leaves(iv, uq, us, p, i, iw, ur, ut)
    PROVE  \E e \in Tables : Left(d, on, us, p, i, iw, ur, ut, E, e)
<1>1. i \in Items /\ p \in Players
  BY DEF Leaves
<1>2. PICK new : new = (us[i] = "new")
  OBVIOUS
<1>3. new \in BOOLEAN
  BY <1>2
<1>4. PICK e \in Tables :
              /\ Runs(d, << Detach(i, new) >>, e)
              /\ e.inventory = [d.inventory EXCEPT ![i] = None]
              /\ e.instances = IF new THEN d.instances \cup {i} ELSE d.instances
              /\ e.money = d.money /\ e.mail = d.mail /\ e.auction = d.auction
  BY <1>1, <1>3, DetachRuns
<1>5. Detached(us, d.inventory, d.instances, i, e.inventory, e.instances)
  <2>1. e.instances = IF us[i] = "new" THEN d.instances \cup {i} ELSE d.instances
    BY <1>2, <1>4
  <2> QED BY <1>4, <2>1 DEF Detached
<1>6. /\ ItemOk(on, iw, ur, ut, e.inventory, e.instances, E \cup {i}) /\ i \notin E
      /\ OthersKept(p, d.inventory, e.inventory)
  <2>1. PICK V, N, W, M : V = d.inventory /\ N = d.instances /\ W = e.inventory /\ M = e.instances
    OBVIOUS
  <2>2. ItemOk(on, iv, uq, us, V, N, E) /\ Detached(us, V, N, i, W, M)
    BY <1>5, <2>1
  <2>3. /\ ItemOk(on, iw, ur, ut, W, M, E \cup {i}) /\ i \notin E
        /\ OthersKept(p, V, W)
    BY ONLY <2>2, Leaves(iv, uq, us, p, i, iw, ur, ut), ItemLeaves
  <2> QED BY <2>1, <2>3
<1>7. e.money = [d.money EXCEPT ![p] = d.money[p]]
  BY <1>1, <1>4 DEF Tables
<1>8. RowsSaved(d, p, d.money[p], e)
  BY <1>4, <1>6, <1>7 DEF RowsSaved
<1> QED BY <1>2, <1>4, <1>6, <1>8 DEF Left

\* HandleAuctionSellItem.
LEMMA AuctionSellItemInv ==
    ASSUME MailInv, NEW p \in Players, NEW i \in Items, NEW buyout \in Nat,
           HandleAuctionSellItem(p, i, buyout)
    PROVE  MailInv' /\ KeepsItems
<1>1. MemoryOk /\ future \in Tables
  BY Before
<1>2. PICK a : a = [owner |-> p, bidder |-> None, bid |-> 0, buyout |-> buyout,
                    deposit |-> Deposit]
  OBVIOUS
<1>3. Deposit \in Nat
  BY MailAuctionAssumption
<1>4. a \in Auction /\ a # None
  BY <1>2, <1>3, NullAssumption DEF Auction
<1>5. PICK pending : pending = [updateQueue EXCEPT ![p] = @ \ {i}]
  OBVIOUS
<1>6. PICK state : state = [uState EXCEPT ![i] = "unchanged"]
  OBVIOUS
<1>7. /\ p \in online /\ i \in inv[p] /\ auctions[i] = None /\ HasEnoughMoney(p, Deposit)
      /\ inv' = [inv EXCEPT ![p] = @ \ {i}] /\ money' = [money EXCEPT ![p] = @ - Deposit]
      /\ auctions' = [auctions EXCEPT ![i] = a] /\ Saved({p}, pending, state)
      /\ Commit(   << Detach(i, uState[i] = "new"), InsertAuction(i, a) >>
                \o SaveInventoryAndGold(p, pending[p], state, money'[p]))
      /\ UNCHANGED <<online, mails, loaded, trash, db, refused>>
  BY <1>2, <1>5, <1>6 DEF HandleAuctionSellItem
<1>8. money' \in [Players -> Nat] /\ money'[p] \in Nat
  <2>1. money \in [Players -> Nat] /\ money[p] >= Deposit
    BY <1>1, <1>7 DEF MemoryOk, HasEnoughMoney
  <2>2. money[p] - Deposit \in Nat
    BY <1>3, <2>1
  <2> QED BY <1>7, <2>1, <2>2
<1>9. pending \in [Players -> SUBSET Items]
  BY <1>5, Before
<1>10. PICK E : E = Elsewhere(future.mail, future.auction)
  OBVIOUS
<1>11. ItemOk(online, inv, updateQueue, uState, future.inventory, future.instances, E)
  BY <1>1, <1>10 DEF MemoryOk
<1>12. Leaves(inv, updateQueue, uState, p, i, inv', pending, state)
  BY <1>5, <1>6, <1>7 DEF Leaves
<1>13. PICK b \in Tables :
              /\ Runs(future, << Detach(i, uState[i] = "new") >>, b)
              /\ ItemOk(online, inv', pending, state, b.inventory, b.instances, E \cup {i})
              /\ i \notin E /\ RowsSaved(future, p, future.money[p], b)
  <2>1. PICK iw : iw = inv'
    OBVIOUS
  <2>2. Leaves(inv, updateQueue, uState, p, i, iw, pending, state) /\ future \in Tables
    BY <1>1, <1>12, <2>1
  <2>3. PICK b \in Tables : Left(future, online, uState, p, i, iw, pending, state, E, b)
    BY ONLY <1>11, <2>2, Leave
  <2> QED BY ONLY <2>1, <2>3 DEF Left
<1>14. PICK c \in Tables :
              /\ Runs(b, << InsertAuction(i, a) >>, c)
              /\ c.inventory = b.inventory /\ c.instances = b.instances
              /\ c.money = b.money /\ c.mail = b.mail
              /\ c.auction = [b.auction EXCEPT ![i] = a]
  <2>1. b.auction[i] = None
    BY <1>1, <1>7, <1>13 DEF MemoryOk, RowsSaved
  <2>2. PICK c \in Tables : RowSet(b, InsertAuction(i, a), i, a, c)
    BY ONLY <1>4, <2>1, b \in Tables, i \in Items, AuctionRuns
  <2> QED BY ONLY <2>2 DEF RowSet
<1>15. PICK e :
            /\ RowsSaved(c, p, money'[p], e)
            /\ Runs(c, SaveInventoryAndGold(p, pending[p], state, money'[p]), e)
            /\ ItemOk(online, inv', updateQueue', uState', e.inventory, e.instances, E \cup {i})
  <2>1. ItemOk(online, inv', pending, state, c.inventory, c.instances, E \cup {i})
    BY <1>13, <1>14
  <2>2. QueueSaved(pending, state, p, updateQueue', uState')
    BY <1>7, <1>9, SavedOne
  <2> QED BY ONLY <1>7, <1>8, <2>1, <2>2, c \in Tables, Save
<1>16. /\ e \in Tables /\ e.money = [future.money EXCEPT ![p] = money'[p]]
       /\ \A q \in Players \ {p} : \A j \in Items : e.inventory[j] = q <=> future.inventory[j] = q
       /\ e.mail = future.mail /\ e.auction = [future.auction EXCEPT ![i] = a]
  BY <1>13, <1>14, <1>15, Before DEF RowsSaved, OthersKept
<1>17. Runs(future, << Detach(i, uState[i] = "new"), InsertAuction(i, a) >>
                    \o SaveInventoryAndGold(p, pending[p], state, money'[p]), e)
  <2>1. PICK s : s = Detach(i, uState[i] = "new")
    OBVIOUS
  <2>2. PICK r : r = InsertAuction(i, a)
    OBVIOUS
  <2>3. <<s>> \o <<r>> = <<s, r>>
    BY ONLY ListOfTwo
  <2>4. Runs(future, <<s>> \o <<r>>, c)
    BY <1>13, <1>14, <2>1, <2>2, RunsConcat
  <2> QED BY <1>15, <2>1, <2>2, <2>3, <2>4, RunsConcat
<1>18. MailOk(e.mail, e.auction) /\ Elsewhere(e.mail, e.auction) = E \cup {i}
  <2>1. AuctionBecomes(future.auction, i, a, e.auction)
    BY <1>4, <1>16 DEF AuctionBecomes
  <2>2. MailOk(future.mail, future.auction)
    BY <1>1 DEF MemoryOk
  <2> QED BY ONLY <1>4, <1>10, <1>13, <1>16, <2>1, <2>2, AuctionSet
<1>19. ASSUME NEW q \in Players PROVE UnreadKept(future, e, q) /\ (q # p => RowsKept(future, e, q))
  <2>1. q # p => e.money[q] = future.money[q]
    BY <1>16, Before
  <2> QED BY <1>16, <2>1 DEF RowsKept, UnreadKept
<1>20. MailSync(mails', loaded', e.mail) /\ mails' \in [Players -> [MailIds -> Mail \cup {None}]]
  BY <1>1, <1>7, <1>16 DEF MemoryOk
<1>21. ASSUME NEW q \in online PROVE money'[q] = e.money[q]
  <2>1. money \in [Players -> Nat] /\ money[q] = future.money[q] /\ q \in Players
    BY <1>1, Before DEF MemoryOk
  <2>2. future.money \in [Players -> Nat]
    BY Before
  <2> QED BY <1>7, <1>16, <2>1, <2>2
<1>22. auctions' = e.auction /\ loaded \subseteq online /\ trash \subseteq MailIds
  BY <1>1, <1>7, <1>16 DEF MemoryOk
<1>23. Follows(e)
  BY ONLY <1>7, <1>8, <1>15, <1>18, <1>19, <1>20, <1>21, <1>22 DEF Follows
<1>24. Kept(e)
  <2>1. ASSUME NEW q \in Players, NEW j \in inv[q]
        PROVE  j = i \/ j \in inv'[q]
    BY <1>7, Before
  <2> QED BY <1>10, <1>18, <2>1 DEF Kept
<1> QED BY ONLY MailInv, <1>7, <1>17, <1>23, <1>24, Committed

\* What HandleSendMail does with the items.
Sends(p, q, items, iw, pending, state) ==
    /\ q # p /\ items \in {{}} \cup {{i} : i \in Items} /\ items \subseteq inv[p]
    /\ items # {} => q \notin online
    /\ iw = [inv EXCEPT ![p] = @ \ items]
    /\ pending = [updateQueue EXCEPT
                    ![p] = @ \ items,
                    ![q] = IF q \in online THEN @ \cup items ELSE @]
    /\ state = [i \in Items |-> IF i \in items THEN "unchanged" ELSE uState[i]]

\* The statements that detach the items, and what they lead to.
Detaches(p, items, iw, pending, state, E) ==
    \E b \in Tables :
       /\ Runs(future, SetToSeq({Detach(i, uState[i] = "new") : i \in items}), b)
       /\ ItemOk(online, iw, pending, state, b.inventory, b.instances, E \cup items)
       /\ items \cap E = {} /\ RowsSaved(future, p, future.money[p], b)

\* The items, none or one, that p posts.
LEMMA SendItems ==
    ASSUME MailInv, NEW p \in Players, NEW q \in Players, NEW items, NEW iw, NEW pending,
           NEW state, Sends(p, q, items, iw, pending, state),
           NEW E, E = Elsewhere(future.mail, future.auction)
    PROVE  pending \in [Players -> SUBSET Items] /\ Detaches(p, items, iw, pending, state, E)
<1> /\ q # p /\ items \in {{}} \cup {{i} : i \in Items} /\ items \subseteq inv[p]
    /\ items # {} => q \notin online
    /\ iw = [inv EXCEPT ![p] = @ \ items]
    /\ pending = [updateQueue EXCEPT
                    ![p] = @ \ items,
                    ![q] = IF q \in online THEN @ \cup items ELSE @]
    /\ state = [i \in Items |-> IF i \in items THEN "unchanged" ELSE uState[i]]
  BY DEF Sends
<1>1. /\ future \in Tables /\ inv \in [Players -> SUBSET Items]
      /\ updateQueue \in [Players -> SUBSET Items]
      /\ uState \in [Items -> {"new", "changed", "removed", "unchanged"}]
      /\ future.money \in [Players -> Nat]
  BY Before
<1>2. ItemOk(online, inv, updateQueue, uState, future.inventory, future.instances, E)
  BY Before DEF MemoryOk
<1>3. CASE items = {}
  <2>1. iw = inv
    BY ONLY <1>1, <1>3, iw = [inv EXCEPT ![p] = @ \ items], p \in Players
  <2>2. pending = updateQueue
    <3>1. \A r \in Players : updateQueue[r] \ items = updateQueue[r]
                             /\ updateQueue[r] \cup items = updateQueue[r]
      BY <1>3
    <3> QED BY ONLY <1>1, <3>1, p \in Players, q \in Players, q # p,
                    pending = [updateQueue EXCEPT
                                 ![p] = @ \ items,
                                 ![q] = IF q \in online THEN @ \cup items ELSE @]
  <2>3. state = uState
    BY ONLY <1>1, <1>3, state = [i \in Items |-> IF i \in items THEN "unchanged" ELSE uState[i]]
  <2>4. SetToSeq({Detach(i, uState[i] = "new") : i \in items}) = <<>>
    <3>1. {Detach(i, uState[i] = "new") : i \in items} = {}
      BY <1>3
    <3> QED BY <3>1, ListOfOne
  <2>5. Runs(future, <<>>, future)
    BY <1>1, RunsEmpty
  <2>6. RowsSaved(future, p, future.money[p], future)
    BY <1>1 DEF RowsSaved, OthersKept
  <2>7. E \cup items = E /\ items \cap E = {}
    BY <1>3
  <2> QED BY ONLY <1>1, <1>2, <2>1, <2>2, <2>3, <2>4, <2>5, <2>6, <2>7 DEF Detaches
<1>4. CASE items # {}
  <2>1. PICK i \in Items : items = {i}
    BY <1>4
  <2>2. i \in inv[p] /\ q \notin online
    BY <1>4, <2>1
  <2>3. pending = [updateQueue EXCEPT ![p] = @ \ {i}] /\ pending \in [Players -> SUBSET Items]
    <3>1. pending = [updateQueue EXCEPT ![p] = @ \ {i}, ![q] = @]
      BY <2>1, <2>2
    <3> QED BY ONLY <1>1, <3>1, p \in Players, q \in Players, q # p
  <2>4. state = [uState EXCEPT ![i] = "unchanged"]
    BY ONLY <1>1, <2>1, state = [j \in Items |-> IF j \in items THEN "unchanged" ELSE uState[j]]
  <2>5. iw = [inv EXCEPT ![p] = @ \ {i}]
    BY <2>1
  <2>6. Leaves(inv, updateQueue, uState, p, i, iw, pending, state)
    BY ONLY <2>1, <2>2, <2>3, <2>4, <2>5, p \in Players, i \in Items DEF Leaves
  <2>7. PICK b \in Tables :
              /\ Runs(future, << Detach(i, uState[i] = "new") >>, b)
              /\ ItemOk(online, iw, pending, state, b.inventory, b.instances, E \cup {i})
              /\ i \notin E /\ RowsSaved(future, p, future.money[p], b)
    <3>1. future \in Tables
      BY <1>1
    <3>2. PICK b \in Tables : Left(future, online, uState, p, i, iw, pending, state, E, b)
      BY ONLY <1>2, <2>6, <3>1, Leave
    <3> QED BY ONLY <3>2 DEF Left
  <2>8. SetToSeq({Detach(j, uState[j] = "new") : j \in items}) = << Detach(i, uState[i] = "new") >>
    <3>1. PICK s : s = Detach(i, uState[i] = "new")
      OBVIOUS
    <3>2. {Detach(j, uState[j] = "new") : j \in items} = {s}
      BY ONLY <2>1, <3>1
    <3> QED BY ONLY <3>1, <3>2, ListOfOne
  <2> QED BY ONLY <2>1, <2>3, <2>7, <2>8 DEF Detaches
<1> QED BY <1>3, <1>4

\* HandleSendMail.
LEMMA SendMailInv ==
    ASSUME ~PostToOnline, MailInv, NEW p \in Players, NEW q \in Players, NEW items,
           items \in {{}} \cup {{i} : i \in Items}, NEW m \in Nat, NEW cod \in Nat,
           HandleSendMail(p, q, items, m, cod)
    PROVE  MailInv' /\ KeepsItems
<1>1. MemoryOk /\ future \in Tables
  BY Before
<1>2. PICK drafts : drafts = << Draft(p, q, m, cod, items) >>
  OBVIOUS
<1>3. PICK pending : pending = [updateQueue EXCEPT
                      ![p] = @ \ items,
                      ![q] = IF q \in online THEN @ \cup items ELSE @]
  OBVIOUS
<1>4. PICK state : state = [i \in Items |-> IF i \in items THEN "unchanged" ELSE uState[i]]
  OBVIOUS
<1>5. PICK detach : detach = SetToSeq({Detach(i, uState[i] = "new") : i \in items})
  OBVIOUS
<1>6. /\ p \in online /\ q # p /\ items \subseteq inv[p]
      /\ items # {} => q \notin online
      /\ HasEnoughMoney(p, Postage + m)
      /\ inv' = [inv EXCEPT ![p] = @ \ items]
      /\ money' = [money EXCEPT ![p] = @ - Postage - m]
      /\ SendMailTo(mails, FreeIds, drafts)
      /\ Saved({p}, pending, state)
      /\ Commit(   detach \o InsertMails(FreeIds, drafts)
                \o SaveInventoryAndGold(p, pending[p], state, money'[p]))
      /\ UNCHANGED <<online, loaded, trash, auctions, db, refused>>
  BY <1>2, <1>3, <1>4, <1>5 DEF HandleSendMail
<1>7. money' \in [Players -> Nat] /\ money'[p] \in Nat
  <2>1. money \in [Players -> Nat] /\ money[p] >= Postage + m /\ Postage \in Nat
    BY <1>1, <1>6, MailAuctionAssumption DEF MemoryOk, HasEnoughMoney
  <2>2. money[p] - Postage - m \in Nat
    BY <2>1
  <2> QED BY <1>6, <2>1, <2>2
<1>8. PICK E : E = Elsewhere(future.mail, future.auction)
  OBVIOUS
<1>9. /\ pending \in [Players -> SUBSET Items]
      /\ \E b \in Tables :
            /\ Runs(future, detach, b)
            /\ ItemOk(online, inv', pending, state, b.inventory, b.instances, E \cup items)
            /\ items \cap E = {} /\ RowsSaved(future, p, future.money[p], b)
  <2>1. Sends(p, q, items, inv', pending, state)
    BY <1>3, <1>4, <1>6 DEF Sends
  <2>2. PICK iw : iw = inv'
    OBVIOUS
  <2>3. Sends(p, q, items, iw, pending, state)
    BY <2>1, <2>2
  <2>4. pending \in [Players -> SUBSET Items] /\ Detaches(p, items, iw, pending, state, E)
    BY ONLY <1>8, <2>3, MailInv, p \in Players, q \in Players, SendItems
  <2> QED BY ONLY <1>5, <2>2, <2>4 DEF Detaches
<1>10. PICK b \in Tables :
            /\ Runs(future, detach, b)
            /\ ItemOk(online, inv', pending, state, b.inventory, b.instances, E \cup items)
            /\ items \cap E = {} /\ RowsSaved(future, p, future.money[p], b)
  BY <1>9
<1>11. /\ b.mail = future.mail /\ b.auction = future.auction /\ b.money = future.money
       /\ OthersKept(p, future.inventory, b.inventory)
  BY <1>10, Before DEF RowsSaved
<1>12. DraftsOf(drafts, items)
  <2>1. items \in SUBSET Items /\ p \in Players \cup {None} /\ p # None
    BY NullAssumption
  <2> QED BY ONLY <1>2, <2>1, q \in Players, m \in Nat, cod \in Nat, DraftMail
<1>13. /\ Drafts(FreeIds, drafts) /\ \A k \in 1..Len(drafts) : b.mail[FreeIds[k]] = None
       /\ \E e \in Tables :
            /\ Runs(b, InsertMails(FreeIds, drafts), e)
            /\ e.inventory = b.inventory /\ e.instances = b.instances
            /\ e.money = b.money /\ e.auction = b.auction
            /\ Posted(b.mail, FreeIds, drafts, e.mail)
       /\ mails' \in [Players -> [MailIds -> Mail \cup {None}]]
       /\ \A n : Posted(b.mail, FreeIds, drafts, n) => MailSync(mails', loaded, n)
  <2>1. /\ mails \in [Players -> [MailIds -> Mail \cup {None}]]
        /\ MailSync(mails, loaded, b.mail)
    BY <1>1, <1>11 DEF MemoryOk
  <2>2. \A id \in MailIds : future.mail[id] = None => b.mail[id] = None
    BY <1>11
  <2>3. SendMailTo(mails, FreeIds, drafts)
    BY <1>6
  <2> QED BY ONLY <1>12, <2>1, <2>2, <2>3, MailInv, b \in Tables, Post
<1>14. PICK c \in Tables :
            /\ Runs(b, InsertMails(FreeIds, drafts), c)
            /\ c.inventory = b.inventory /\ c.instances = b.instances
            /\ c.money = b.money /\ c.auction = b.auction
            /\ Posted(b.mail, FreeIds, drafts, c.mail)
  BY <1>13
<1>15. PICK e :
            /\ RowsSaved(c, p, money'[p], e)
            /\ Runs(c, SaveInventoryAndGold(p, pending[p], state, money'[p]), e)
            /\ ItemOk(online, inv', updateQueue', uState', e.inventory, e.instances, E \cup items)
  <2>1. ItemOk(online, inv', pending, state, c.inventory, c.instances, E \cup items)
    BY <1>10, <1>14
  <2>2. QueueSaved(pending, state, p, updateQueue', uState')
    BY <1>6, <1>9, SavedOne
  <2> QED BY ONLY <1>6, <1>7, <2>1, <2>2, c \in Tables, Save
<1>16. /\ e \in Tables /\ e.money = [future.money EXCEPT ![p] = money'[p]]
       /\ \A r \in Players \ {p} : \A j \in Items : e.inventory[j] = r <=> future.inventory[j] = r
       /\ e.mail = c.mail /\ e.auction = future.auction
  BY <1>11, <1>14, <1>15 DEF RowsSaved, OthersKept
<1>17. Runs(future, detach \o InsertMails(FreeIds, drafts)
                    \o SaveInventoryAndGold(p, pending[p], state, money'[p]), e)
  <2>1. Runs(future, detach \o InsertMails(FreeIds, drafts), c)
    BY ONLY <1>10, <1>14, RunsConcat
  <2> QED BY ONLY <1>15, <2>1, RunsConcat
<1>18. /\ MailOk(e.mail, e.auction) /\ Elsewhere(e.mail, e.auction) = E \cup items
       /\ \A id \in MailIds : future.mail[id] # None => e.mail[id] = future.mail[id]
  <2>1. MailOk(future.mail, future.auction)
    BY <1>1 DEF MemoryOk
  <2>2. Posted(future.mail, FreeIds, drafts, e.mail) /\ e.mail \in [MailIds -> Mail \cup {None}]
    BY <1>11, <1>14, <1>16 DEF Tables
  <2>3. Carry(drafts, items) /\ items \cap Elsewhere(future.mail, future.auction) = {}
    BY <1>8, <1>10, <1>12 DEF DraftsOf
  <2>4. \A k \in 1..Len(drafts) : future.mail[FreeIds[k]] = None
    BY <1>11, <1>13
  <2>5. /\ MailOk(e.mail, future.auction)
        /\ Elsewhere(e.mail, future.auction) = Elsewhere(future.mail, future.auction) \cup items
        /\ \A id \in MailIds : future.mail[id] # None => e.mail[id] = future.mail[id]
    BY ONLY <1>13, <2>1, <2>2, <2>3, <2>4, MailsPosted
  <2> QED BY <1>8, <1>16, <2>5
<1>19. ASSUME NEW r \in Players PROVE UnreadKept(future, e, r) /\ (r # p => RowsKept(future, e, r))
  <2>1. r # p => e.money[r] = future.money[r]
    BY <1>16, Before
  <2> QED BY <1>16, <1>18, <2>1 DEF RowsKept, UnreadKept
<1>20. MailSync(mails', loaded', e.mail)
  BY <1>6, <1>13, <1>14, <1>16
<1>21. ASSUME NEW r \in online PROVE money'[r] = e.money[r]
  <2>1. money \in [Players -> Nat] /\ money[r] = future.money[r] /\ r \in Players
    BY <1>1, Before DEF MemoryOk
  <2>2. future.money \in [Players -> Nat]
    BY Before
  <2> QED BY ONLY <1>6, <1>16, <2>1, <2>2, p \in Players
<1>22. auctions' = e.auction /\ loaded \subseteq online /\ trash \subseteq MailIds
  BY <1>1, <1>6, <1>16 DEF MemoryOk
<1>23. Follows(e)
  BY ONLY <1>6, <1>7, <1>13, <1>15, <1>18, <1>19, <1>20, <1>21, <1>22 DEF Follows
<1>24. Kept(e)
  <2>1. ASSUME NEW r \in Players, NEW j \in inv[r]
        PROVE  j \in items \/ j \in inv'[r]
    BY <1>6, Before
  <2> QED BY <1>8, <1>18, <2>1 DEF Kept
<1> QED BY ONLY MailInv, <1>6, <1>17, <1>23, <1>24, Committed

-----------------------------------------------------------------------------
(***************************************************************************)
(* Mailboxes                                                                *)
(***************************************************************************)

\* Ids for drafts.
LEMMA IdsFor ==
    ASSUME MailInv, NEW drafts \in Seq(Mail), Len(drafts) <= Len(FreeIds)
    PROVE  Drafts(FreeIds, drafts) /\ \A k \in 1..Len(drafts) : future.mail[FreeIds[k]] = None
<1>1. PICK ids : ids = FreeIds
  OBVIOUS
<1>2. PICK st : Chain(st)
  BY DEF MailInv, Chained
<1>3. /\ Len(ids) \in Nat
      /\ \A k \in 1..Len(ids) : ids[k] \in MailIds /\ future.mail[ids[k]] = None
      /\ \A k, l \in 1..Len(ids) : ids[k] = ids[l] => k = l
  BY <1>1, <1>2, FreeIdsAre
<1>4. Len(drafts) \in Nat /\ \A k \in 1..Len(drafts) : k \in 1..Len(ids)
  BY <1>1, <1>3
<1>5. Drafts(ids, drafts)
  BY <1>1, <1>3 DEF Drafts
<1> QED BY <1>1, <1>3, <1>4, <1>5

\* The rows n after _SaveMail, with the mail of p under id.
Empties(p, id, mail, n) ==
    /\ n \in [MailIds -> Mail \cup {None}]
    /\ \A k \in MailIds :
          n[k] = IF k \in Deleted(p) THEN None ELSE IF k = id THEN mail ELSE future.mail[k]
    /\ id \in MailIds =>
          /\ mail \in Mail /\ mail.to = p /\ p \in loaded
          /\ future.mail[id] # None /\ future.mail[id].to = p
          /\ mail.items \subseteq future.mail[id].items /\ (mail.cod > 0 => mail.from # None)

\* The mails that p threw away are in the tables to come.
LEMMA DeletedRows ==
    ASSUME MailInv, NEW p \in Players, NEW k \in Deleted(p)
    PROVE  /\ k \in MailIds /\ p \in loaded /\ future.mail[k] # None
           /\ future.mail[k] = mails[p][k] /\ future.mail[k].to = p
  BY Before DEF Deleted, MemoryOk, MailSync

\* A mail that is read is in the tables to come.
LEMMA ReadableRows ==
    ASSUME MailInv, NEW p \in Players, NEW id \in MailIds, Readable(p, id)
    PROVE  /\ p \in loaded /\ p \in online /\ id \notin Deleted(p) /\ mails[p][id] \in Mail
           /\ future.mail[id] # None /\ future.mail[id] = mails[p][id]
           /\ future.mail[id].to = p
           /\ mails[p][id].cod > 0 => mails[p][id].from # None
<1>1. MemoryOk
  BY Before
<1>2. /\ p \in loaded /\ p \in online /\ id \notin Deleted(p) /\ mails[p][id] # None
      /\ mails[p][id] \in Mail \cup {None}
  BY <1>1 DEF Readable, Deleted, MemoryOk
<1>3. future.mail[id] = mails[p][id] /\ future.mail[id].to = p
  BY <1>1, <1>2 DEF MemoryOk, MailSync
<1>4. future.mail[id].cod > 0 => future.mail[id].from # None
  BY <1>1, <1>2, <1>3 DEF MemoryOk, MailOk, MailSound
<1> QED BY <1>2, <1>3, <1>4

\* What _SaveMail leaves of the mails, and where the items of the others were.
LEMMA MailsEmptied ==
    ASSUME MailInv, NEW p \in Players, NEW id, NEW mail, NEW n, Empties(p, id, mail, n),
           NEW E, E = Elsewhere(future.mail, future.auction),
           NEW F, F = Elsewhere(n, future.auction)
    PROVE  /\ MailOk(n, future.auction) /\ F \subseteq E
           /\ DeletedItems(p) \subseteq E /\ DeletedItems(p) \cap F = {}
           /\ id \in MailIds \ Deleted(p) => \A i \in Items :
                 i \in future.mail[id].items /\ i \notin mail.items =>
                    i \in E /\ i \notin F /\ i \notin DeletedItems(p)
           /\ \A q \in Players \ loaded : \A k \in MailIds :
                 future.mail[k] # None /\ future.mail[k].to = q => n[k] = future.mail[k]
<1>1. MemoryOk
  BY Before
<1>2. MailOk(future.mail, future.auction)
  BY <1>1 DEF MemoryOk
<1>3. /\ n \in [MailIds -> Mail \cup {None}]
      /\ \A k \in MailIds :
            n[k] = IF k \in Deleted(p) THEN None ELSE IF k = id THEN mail ELSE future.mail[k]
      /\ id \in MailIds =>
            /\ mail \in Mail /\ mail.to = p /\ p \in loaded
            /\ future.mail[id] # None /\ future.mail[id].to = p
            /\ mail.items \subseteq future.mail[id].items /\ (mail.cod > 0 => mail.from # None)
  BY DEF Empties
<1>4. ASSUME NEW k \in MailIds, n[k] # None
      PROVE  /\ future.mail[k] # None /\ n[k].items \subseteq future.mail[k].items
             /\ n[k].cod > 0 => n[k].from # None
  <2>1. CASE k = id
    BY <1>3, <1>4, <2>1
  <2>2. CASE k # id
    <3>1. n[k] = future.mail[k]
      BY <1>3, <1>4, <2>2
    <3> QED BY <1>2, <1>4, <3>1 DEF MailOk, MailSound
  <2> QED BY <2>1, <2>2
<1>5. /\ MailOk(n, future.auction) /\ F \subseteq E
      /\ \A k \in MailIds : \A i \in Items :
            future.mail[k] # None /\ i \in future.mail[k].items
               /\ (n[k] = None \/ i \notin n[k].items) => i \in E /\ i \notin F
  BY <1>2, <1>3, <1>4, MailsShrink
<1>6. ASSUME NEW i \in DeletedItems(p)
      PROVE  /\ i \in E /\ i \notin F /\ i \in Items
             /\ \E k \in Deleted(p) : k \in MailIds /\ future.mail[k] # None /\ i \in future.mail[k].items
  <2>1. PICK k \in Deleted(p) : i \in mails[p][k].items
    BY DEF DeletedItems
  <2>2. k \in MailIds /\ future.mail[k] # None /\ future.mail[k] = mails[p][k] /\ n[k] = None
    BY <1>3, DeletedRows
  <2>3. i \in Items
    BY <2>1, <2>2, Before DEF Mail
  <2> QED BY <1>5, <2>1, <2>2, <2>3
<1>7. ASSUME id \in MailIds \ Deleted(p), NEW i \in Items, i \in future.mail[id].items,
             i \notin mail.items
      PROVE  i \in E /\ i \notin F /\ i \notin DeletedItems(p)
  <2>1. n[id] = mail /\ future.mail[id] # None
    BY <1>3, <1>7
  <2>2. i \in E /\ i \notin F
    BY <1>5, <1>7, <2>1
  <2>3. \A k \in MailIds : future.mail[k] # None /\ i \in future.mail[k].items => k = id
    BY <1>2, <1>7, <2>1 DEF MailOk, MailSound
  <2> QED BY <1>6, <1>7, <2>2, <2>3
<1>8. ASSUME NEW q \in Players \ loaded, NEW k \in MailIds,
             future.mail[k] # None, future.mail[k].to = q
      PROVE  n[k] = future.mail[k]
  <2>1. k \notin Deleted(p)
    BY <1>8, DeletedRows
  <2>2. k # id
    BY <1>3, <1>8
  <2> QED BY <1>3, <2>1, <2>2
<1>9. DeletedItems(p) \subseteq E /\ DeletedItems(p) \cap F = {}
  BY <1>6
<1> QED BY <1>5, <1>7, <1>8, <1>9

\* The items of a mail that is gone were thrown away, or taken from the mail.
LEMMA MailsGone ==
    ASSUME MailInv, NEW p \in Players, NEW id, NEW mail, NEW n, Empties(p, id, mail, n),
           NEW i \in Elsewhere(future.mail, future.auction),
           i \notin Elsewhere(n, future.auction)
    PROVE  \/ \E k \in Deleted(p) : /\ k \in MailIds /\ k \in trash /\ n[k] = None
                                   /\ future.mail[k] # None /\ i \in future.mail[k].items
           \/ id \in MailIds /\ i \in future.mail[id].items /\ i \notin mail.items
<1>1. /\ \A k \in MailIds :
            n[k] = IF k \in Deleted(p) THEN None ELSE IF k = id THEN mail ELSE future.mail[k]
      /\ id \in MailIds => mail \in Mail
  BY DEF Empties
<1>2. PICK k \in MailIds : future.mail[k] # None /\ i \in future.mail[k].items
  BY DEF Elsewhere
<1>3. n[k] = None \/ i \notin n[k].items
  BY DEF Elsewhere
<1>4. CASE k \in Deleted(p)
  BY <1>1, <1>2, <1>4 DEF Deleted
<1>5. CASE k \notin Deleted(p)
  <2>1. k = id
    BY <1>1, <1>2, <1>3, <1>5
  <2>2. n[k] = mail /\ mail # None
    BY <1>1, <1>5, <2>1, NullAssumption
  <2> QED BY <1>2, <1>3, <2>1, <2>2
<1> QED BY <1>4, <1>5

\* What _SaveMail leaves in the mailboxes.
LEMMA BoxEmptied ==
    ASSUME MailInv, NEW p \in Players, NEW id, NEW mail, NEW n, Empties(p, id, mail, n),
           NEW box, box = Emptied(p, id, mail)
    PROVE  box \in [Players -> [MailIds -> Mail \cup {None}]] /\ MailSync(box, loaded, n)
<1>1. /\ mails \in [Players -> [MailIds -> Mail \cup {None}]]
      /\ MailSync(mails, loaded, future.mail)
  BY Before DEF MemoryOk
<1>2. /\ \A k \in MailIds :
            n[k] = IF k \in Deleted(p) THEN None ELSE IF k = id THEN mail ELSE future.mail[k]
      /\ id \in MailIds =>
            /\ mail \in Mail /\ mail.to = p /\ p \in loaded
            /\ future.mail[id] # None /\ future.mail[id].to = p
  BY DEF Empties
<1>3. PICK own : own = [k \in MailIds |->
          IF k \in Deleted(p) THEN None ELSE IF k = id THEN mail ELSE mails[p][k]]
  OBVIOUS
<1>4. box = [mails EXCEPT ![p] = own]
  BY <1>3 DEF Emptied
<1>5. own \in [MailIds -> Mail \cup {None}]
  BY <1>1, <1>2, <1>3
<1>6. box[p] = own /\ \A q \in Players : q # p => box[q] = mails[q]
  BY <1>1, <1>4
<1>7. box \in [Players -> [MailIds -> Mail \cup {None}]]
  BY ONLY <1>1, <1>4, <1>5, p \in Players
<1>8. ASSUME NEW q \in Players, NEW k \in MailIds, box[q][k] # None
      PROVE  q \in loaded /\ n[k] = box[q][k] /\ n[k].to = q
  <2>1. CASE q = p
    <3>1. k \notin Deleted(p)
      BY <1>3, <1>6, <1>8, <2>1
    <3>2. CASE k = id
      BY <1>2, <1>3, <1>6, <1>8, <2>1, <3>1, <3>2
    <3>3. CASE k # id
      <4>1. box[q][k] = mails[p][k] /\ n[k] = future.mail[k]
        BY <1>2, <1>3, <1>6, <2>1, <3>1, <3>3
      <4> QED BY <1>1, <1>8, <2>1, <4>1 DEF MailSync
    <3> QED BY <3>2, <3>3
  <2>2. CASE q # p
    <3>1. mails[q][k] # None /\ box[q][k] = mails[q][k]
      BY <1>6, <1>8, <2>2
    <3>2. q \in loaded /\ future.mail[k] = mails[q][k] /\ future.mail[k].to = q
      BY <1>1, <3>1 DEF MailSync
    <3>3. k \notin Deleted(p)
      BY <2>2, <3>2, DeletedRows
    <3>4. k # id
      BY <1>2, <2>2, <3>2
    <3> QED BY <1>2, <3>1, <3>2, <3>3, <3>4
  <2> QED BY <2>1, <2>2
<1> QED BY <1>7, <1>8 DEF MailSync

\* HandleMailTakeMoney.
LEMMA MailTakeMoneyInv ==
    ASSUME MailInv, NEW p \in Players, NEW id \in MailIds, HandleMailTakeMoney(p, id)
    PROVE  MailInv' /\ KeepsItems
<1>1. MemoryOk /\ future \in Tables
  BY Before
<1>2. PICK r : r = mails[p][id]
  OBVIOUS
<1>3. Readable(p, id)
  BY DEF HandleMailTakeMoney
<1>4. /\ p \in loaded /\ p \in online /\ id \notin Deleted(p) /\ r \in Mail
      /\ future.mail[id] # None /\ future.mail[id] = r /\ r.to = p
      /\ r.cod > 0 => r.from # None
  BY <1>2, <1>3, ReadableRows
<1>5. PICK taken : taken = [r EXCEPT !.money = 0]
  OBVIOUS
<1>6. /\ taken \in Mail /\ taken.to = p /\ taken.items = r.items /\ taken.cod = r.cod
      /\ taken.from = r.from /\ taken.money = 0
  BY <1>4, <1>5 DEF Mail
<1>7. /\ money' = [money EXCEPT ![p] = @ + r.money]
      /\ mails' = Emptied(p, id, taken) /\ trash' = trash \ Deleted(p)
      /\ Commit(<< Gold(p, money'[p]), UpdateMail(id, taken, {}) >> \o SaveMail(p))
      /\ UNCHANGED <<online, inv, updateQueue, uState, loaded, auctions, db, refused>>
  BY <1>2, <1>5 DEF HandleMailTakeMoney
<1>8. money' \in [Players -> Nat] /\ money'[p] \in Nat
  <2>1. money \in [Players -> Nat] /\ r.money \in Nat
    BY <1>1, <1>4 DEF MemoryOk, Mail
  <2>2. money[p] + r.money \in Nat
    BY <2>1
  <2> QED BY <1>7, <2>1, <2>2
<1>9. PICK b \in Tables :
            /\ Runs(future, << Gold(p, money'[p]) >>, b)
            /\ b.inventory = future.inventory /\ b.instances = future.instances
            /\ b.money = [future.money EXCEPT ![p] = money'[p]]
            /\ b.mail = future.mail /\ b.auction = future.auction
  BY ONLY <1>1, <1>8, p \in Players, GoldRuns
<1>10. PICK c \in Tables :
            /\ Runs(b, << UpdateMail(id, taken, {}) >>, c)
            /\ c.inventory = b.inventory /\ c.instances = b.instances
            /\ c.money = b.money /\ c.auction = b.auction
            /\ c.mail = [b.mail EXCEPT ![id] = taken]
  <2>1. b.mail[id] = r /\ b.mail[id] # None
    BY <1>4, <1>9
  <2>2. Taken(r, taken, {})
    BY <1>4, <1>5 DEF Mail, Taken
  <2>3. \A k \in MailIds : k # id /\ b.mail[k] # None => b.mail[k].items \cap {} = {}
    OBVIOUS
  <2>4. {} \in SUBSET Items
    OBVIOUS
  <2> QED BY ONLY <1>6, <2>1, <2>2, <2>3, <2>4, b \in Tables, id \in MailIds, UpdateMailRuns
<1>11. PICK e \in Tables :
            /\ Runs(c, SaveMail(p), e)
            /\ e.inventory = c.inventory /\ e.instances = c.instances \ DeletedItems(p)
            /\ e.money = c.money /\ e.auction = c.auction
            /\ \A k \in MailIds : e.mail[k] = IF k \in Deleted(p) THEN None ELSE c.mail[k]
  BY SaveMailRuns
<1>12. Runs(future, << Gold(p, money'[p]), UpdateMail(id, taken, {}) >> \o SaveMail(p), e)
  <2>1. PICK s : s = Gold(p, money'[p])
    OBVIOUS
  <2>2. PICK t : t = UpdateMail(id, taken, {})
    OBVIOUS
  <2>3. <<s>> \o <<t>> = <<s, t>>
    BY ONLY ListOfTwo
  <2>4. Runs(future, <<s>> \o <<t>>, c)
    BY ONLY <1>9, <1>10, <2>1, <2>2, RunsConcat
  <2> QED BY ONLY <1>11, <2>1, <2>2, <2>3, <2>4, RunsConcat
<1>13. Empties(p, id, taken, e.mail)
  <2>1. e.mail \in [MailIds -> Mail \cup {None}]
    BY DEF Tables
  <2>2. c.mail = [future.mail EXCEPT ![id] = taken]
    BY <1>9, <1>10
  <2>3. \A k \in MailIds : c.mail[k] = IF k = id THEN taken ELSE future.mail[k]
    BY <2>2, Before
  <2>4. \A k \in MailIds :
          e.mail[k] = IF k \in Deleted(p) THEN None ELSE IF k = id THEN taken ELSE future.mail[k]
    BY ONLY <1>11, <2>3
  <2> QED BY ONLY <1>4, <1>6, <2>1, <2>4 DEF Empties
<1>14. PICK E, F : /\ E = Elsewhere(future.mail, future.auction)
                   /\ F = Elsewhere(e.mail, future.auction)
  OBVIOUS
<1>15. /\ MailOk(e.mail, future.auction) /\ F \subseteq E
       /\ DeletedItems(p) \subseteq E /\ DeletedItems(p) \cap F = {}
       /\ \A q \in Players \ loaded : \A k \in MailIds :
             future.mail[k] # None /\ future.mail[k].to = q => e.mail[k] = future.mail[k]
  BY ONLY <1>13, <1>14, MailInv, p \in Players, MailsEmptied
<1>16. mails' \in [Players -> [MailIds -> Mail \cup {None}]] /\ MailSync(mails', loaded, e.mail)
  BY ONLY <1>7, <1>13, MailInv, p \in Players, BoxEmptied
<1>17. ItemOk(online, inv, updateQueue, uState, e.inventory, e.instances, F)
  <2>1. ItemOk(online, inv, updateQueue, uState, future.inventory, future.instances, E)
    BY <1>1, <1>14 DEF MemoryOk
  <2>2. ItemOk(online, inv, updateQueue, uState, future.inventory,
               future.instances \ DeletedItems(p), F)
    BY ONLY <1>15, <2>1, ItemsDropped
  <2> QED BY <1>9, <1>10, <1>11, <2>2
<1>18. e.auction = future.auction /\ e.inventory = future.inventory
       /\ e.money = [future.money EXCEPT ![p] = money'[p]]
  BY <1>9, <1>10, <1>11
<1>19. ASSUME NEW q \in Players \ online PROVE RowsKept(future, e, q)
  <2>1. e.money[q] = future.money[q]
    BY <1>4, <1>18, Before
  <2> QED BY <1>18, <2>1 DEF RowsKept
<1>20. ASSUME NEW q \in Players \ loaded PROVE UnreadKept(future, e, q)
  BY <1>15 DEF UnreadKept
<1>21. ASSUME NEW q \in online PROVE money'[q] = e.money[q]
  <2>1. money \in [Players -> Nat] /\ money[q] = future.money[q] /\ q \in Players
    BY <1>1, Before DEF MemoryOk
  <2>2. future.money \in [Players -> Nat]
    BY Before
  <2> QED BY ONLY <1>7, <1>18, <2>1, <2>2, p \in Players
<1>22. auctions' = e.auction /\ loaded \subseteq online /\ trash' \subseteq MailIds
  BY <1>1, <1>7, <1>18 DEF MemoryOk
<1>23. Follows(e)
  BY ONLY <1>7, <1>8, <1>14, <1>15, <1>16, <1>17, <1>18, <1>19, <1>20, <1>21, <1>22 DEF Follows
<1>24. Kept(e)
  <2>1. ASSUME NEW j \in Elsewhere(future.mail, future.auction),
               j \notin Elsewhere(e.mail, e.auction)
        PROVE  Lost(e, j)
    <3>1. j \notin Elsewhere(e.mail, future.auction)
      BY <1>18, <2>1
    <3>2. \E k \in Deleted(p) : /\ k \in MailIds /\ k \in trash /\ e.mail[k] = None
                                /\ future.mail[k] # None /\ j \in future.mail[k].items
      BY <1>4, <1>6, <1>13, <3>1, MailsGone
    <3> QED BY <3>2 DEF Lost
  <2> QED BY <1>7, <2>1 DEF Kept
<1> QED BY ONLY MailInv, <1>7, <1>12, <1>23, <1>24, Committed

\* HandleMailReturnToSender.
LEMMA MailReturnToSenderInv ==
    ASSUME MailInv, NEW p \in Players, NEW id \in MailIds, HandleMailReturnToSender(p, id)
    PROVE  MailInv' /\ KeepsItems
<1>1. MemoryOk /\ future \in Tables
  BY Before
<1>2. PICK r : r = mails[p][id]
  OBVIOUS
<1>3. Readable(p, id)
  BY DEF HandleMailReturnToSender
<1>4. /\ p \in loaded /\ p \in online /\ r \in Mail
      /\ future.mail[id] # None /\ future.mail[id] = r /\ r.to = p
  BY <1>2, <1>3, ReadableRows
<1>5. PICK drafts : drafts = IF r.from = None THEN <<>>
                             ELSE << Draft(p, r.from, r.money, 0, r.items) >>
  OBVIOUS
<1>6. PICK boxes : boxes = [mails EXCEPT ![p][id] = None]
  OBVIOUS
<1>7. /\ SendMailTo(boxes, FreeIds, drafts)
      /\ Commit(<< DeleteMails({id}, {}) >> \o InsertMails(FreeIds, drafts))
      /\ UNCHANGED <<online, inv, money, updateQueue, uState, loaded, trash,
                     auctions, db, refused>>
  BY <1>2, <1>5, <1>6 DEF HandleMailReturnToSender
<1>8. PICK X : X = IF r.from = None THEN {} ELSE r.items
  OBVIOUS
<1>9. DraftsOf(drafts, X) /\ X \subseteq r.items
  <2>1. CASE r.from = None
    <3>1. drafts = <<>> /\ X = {}
      BY <1>5, <1>8, <2>1
    <3> QED BY <3>1 DEF DraftsOf, Carry
  <2>2. CASE r.from # None
    <3>1. r.from \in Players /\ r.money \in Nat /\ r.items \in SUBSET Items
          /\ p \in Players \cup {None}
      BY <1>4, <2>2 DEF Mail
    <3>2. drafts = << Draft(p, r.from, r.money, 0, r.items) >> /\ X = r.items
      BY <1>5, <1>8, <2>2
    <3> QED BY ONLY <3>1, <3>2, DraftMail
  <2> QED BY <2>1, <2>2
<1>10. PICK b \in Tables :
            /\ Runs(future, << DeleteMails({id}, {}) >>, b)
            /\ b.inventory = future.inventory /\ b.instances = future.instances \ {}
            /\ b.money = future.money /\ b.auction = future.auction
            /\ \A k \in MailIds : b.mail[k] = IF k \in {id} THEN None ELSE future.mail[k]
  <2>1. PICK ids, items : ids = {id} /\ items = {}
    OBVIOUS
  <2>2. PICK b \in Tables :
            /\ Runs(future, << DeleteMails(ids, items) >>, b)
            /\ b.inventory = future.inventory /\ b.instances = future.instances \ items
            /\ b.money = future.money /\ b.auction = future.auction
            /\ \A k \in MailIds : b.mail[k] = IF k \in ids THEN None ELSE future.mail[k]
    BY ONLY <1>1, DeleteMailsRuns
  <2>3. DeleteMails(ids, items) = DeleteMails({id}, {})
    BY <2>1
  <2> QED BY ONLY <2>1, <2>2, <2>3
<1>11. b.mail \in [MailIds -> Mail \cup {None}]
  BY DEF Tables
<1>12. PICK E, F : /\ E = Elsewhere(future.mail, future.auction)
                   /\ F = Elsewhere(b.mail, future.auction)
  OBVIOUS
<1>13. /\ MailOk(b.mail, future.auction) /\ F \subseteq E
       /\ \A k \in MailIds : \A i \in Items :
            future.mail[k] # None /\ i \in future.mail[k].items
               /\ (b.mail[k] = None \/ i \notin b.mail[k].items) => i \in E /\ i \notin F
  <2>1. MailOk(future.mail, future.auction)
    BY <1>1 DEF MemoryOk
  <2>2. \A k \in MailIds : b.mail[k] # None =>
               /\ future.mail[k] # None /\ b.mail[k].items \subseteq future.mail[k].items
               /\ b.mail[k].cod > 0 => b.mail[k].from # None
    BY <1>10, <2>1 DEF MailOk, MailSound
  <2> QED BY ONLY <1>11, <1>12, <2>1, <2>2, MailsShrink
<1>14. X \subseteq E /\ X \cap F = {}
  <2>1. ASSUME NEW i \in X PROVE i \in E /\ i \notin F
    <3>1. i \in Items /\ i \in future.mail[id].items /\ b.mail[id] = None
      BY <1>4, <1>9, <1>10 DEF Mail
    <3> QED BY <1>4, <1>13, <3>1
  <2> QED BY <2>1
<1>15. /\ boxes \in [Players -> [MailIds -> Mail \cup {None}]]
       /\ MailSync(boxes, loaded, b.mail)
  <2>1. /\ mails \in [Players -> [MailIds -> Mail \cup {None}]]
        /\ MailSync(mails, loaded, future.mail)
    BY <1>1 DEF MemoryOk
  <2>2. PICK own : own = [mails[p] EXCEPT ![id] = None]
    OBVIOUS
  <2>3. own \in [MailIds -> Mail \cup {None}] /\ boxes = [mails EXCEPT ![p] = own]
    BY <1>6, <2>1, <2>2
  <2>4. boxes \in [Players -> [MailIds -> Mail \cup {None}]]
    BY ONLY <2>1, <2>3, p \in Players
  <2>5. ASSUME NEW q \in Players, NEW k \in MailIds, boxes[q][k] # None
        PROVE  q \in loaded /\ b.mail[k] = boxes[q][k] /\ b.mail[k].to = q
    <3>1. boxes[q][k] = mails[q][k] /\ (q = p => k # id)
      <4>1. CASE q = p
        BY ONLY <2>1, <2>2, <2>3, <2>5, <4>1, p \in Players, id \in MailIds, k \in MailIds
      <4>2. CASE q # p
        BY ONLY <2>1, <2>3, <4>2, p \in Players, q \in Players
      <4> QED BY <4>1, <4>2
    <3>2. q \in loaded /\ future.mail[k] = mails[q][k] /\ future.mail[k].to = q
      BY <2>1, <2>5, <3>1 DEF MailSync
    <3>3. k # id
      BY <1>4, <3>1, <3>2
    <3> QED BY <1>10, <3>1, <3>2, <3>3
  <2> QED BY <2>4, <2>5 DEF MailSync
<1>16. /\ Drafts(FreeIds, drafts) /\ \A k \in 1..Len(drafts) : b.mail[FreeIds[k]] = None
       /\ \E e \in Tables :
            /\ Runs(b, InsertMails(FreeIds, drafts), e)
            /\ e.inventory = b.inventory /\ e.instances = b.instances
            /\ e.money = b.money /\ e.auction = b.auction
            /\ Posted(b.mail, FreeIds, drafts, e.mail)
       /\ mails' \in [Players -> [MailIds -> Mail \cup {None}]]
       /\ \A n : Posted(b.mail, FreeIds, drafts, n) => MailSync(mails', loaded, n)
  <2>1. \A k \in MailIds : future.mail[k] = None => b.mail[k] = None
    BY <1>10
  <2>2. SendMailTo(boxes, FreeIds, drafts)
    BY <1>7
  <2> QED BY ONLY <1>9, <1>15, <2>1, <2>2, MailInv, b \in Tables, Post
<1>17. PICK e \in Tables :
            /\ Runs(b, InsertMails(FreeIds, drafts), e)
            /\ e.inventory = b.inventory /\ e.instances = b.instances
            /\ e.money = b.money /\ e.auction = b.auction
            /\ Posted(b.mail, FreeIds, drafts, e.mail)
  BY <1>16
<1>18. Runs(future, << DeleteMails({id}, {}) >> \o InsertMails(FreeIds, drafts), e)
  BY ONLY <1>10, <1>17, RunsConcat
<1>19. /\ e.inventory = future.inventory /\ e.instances = future.instances
       /\ e.money = future.money /\ e.auction = future.auction
  BY <1>10, <1>17
<1>20. /\ MailOk(e.mail, e.auction) /\ Elsewhere(e.mail, e.auction) = F \cup X
       /\ \A k \in MailIds : b.mail[k] # None => e.mail[k] = b.mail[k]
  <2>1. e.mail \in [MailIds -> Mail \cup {None}] /\ Carry(drafts, X)
    BY <1>9 DEF Tables, DraftsOf
  <2>2. X \cap Elsewhere(b.mail, future.auction) = {}
    BY <1>12, <1>14
  <2>3. /\ MailOk(e.mail, future.auction)
        /\ Elsewhere(e.mail, future.auction) = Elsewhere(b.mail, future.auction) \cup X
        /\ \A k \in MailIds : b.mail[k] # None => e.mail[k] = b.mail[k]
    BY ONLY <1>13, <1>16, <1>17, <2>1, <2>2, MailsPosted
  <2> QED BY <1>12, <1>19, <2>3
<1>21. ItemOk(online, inv, updateQueue, uState, e.inventory, e.instances, F \cup X)
  <2>1. ItemOk(online, inv, updateQueue, uState, future.inventory, future.instances, E)
    BY <1>1, <1>12 DEF MemoryOk
  <2>2. PICK G : G = F \cup X
    OBVIOUS
  <2>3. {} \subseteq E /\ G \subseteq E /\ {} \cap G = {}
    BY <1>13, <1>14, <2>2
  <2>4. ItemOk(online, inv, updateQueue, uState, future.inventory, future.instances \ {}, G)
    BY ONLY <2>1, <2>3, ItemsDropped
  <2>5. future.instances \ {} = future.instances
    OBVIOUS
  <2> QED BY <1>19, <2>2, <2>4, <2>5
<1>22. ASSUME NEW q \in Players PROVE RowsKept(future, e, q)
  BY <1>19 DEF RowsKept
<1>23. ASSUME NEW q \in Players \ loaded PROVE UnreadKept(future, e, q)
  <2>1. ASSUME NEW k \in MailIds, future.mail[k] # None, future.mail[k].to = q
        PROVE  e.mail[k] = future.mail[k]
    <3>1. k # id
      BY <1>4, <2>1
    <3> QED BY <1>10, <1>20, <2>1, <3>1
  <2> QED BY <2>1 DEF UnreadKept
<1>24. MailSync(mails', loaded', e.mail)
  BY <1>7, <1>16, <1>17
<1>25. /\ auctions' = e.auction /\ loaded \subseteq online /\ trash \subseteq MailIds
       /\ money \in [Players -> Nat] /\ \A q \in online : money'[q] = e.money[q]
  BY <1>1, <1>7, <1>19 DEF MemoryOk
<1>26. Follows(e)
  BY ONLY <1>7, <1>16, <1>20, <1>21, <1>22, <1>23, <1>24, <1>25 DEF Follows
<1>27. Kept(e)
  <2>1. ASSUME NEW j \in Elsewhere(future.mail, future.auction),
               j \notin Elsewhere(e.mail, e.auction)
        PROVE  Lost(e, j)
    <3>1. PICK k \in MailIds : future.mail[k] # None /\ j \in future.mail[k].items
      BY <1>19, <2>1 DEF Elsewhere
    <3>2. k = id
      <4>1. SUFFICES ASSUME k # id PROVE FALSE
        OBVIOUS
      <4>2. e.mail[k] = future.mail[k]
        BY <1>10, <1>20, <3>1, <4>1
      <4> QED BY <2>1, <3>1, <4>2 DEF Elsewhere
    <3>3. j \notin X
      BY <1>20, <2>1
    <3>4. r.from = None
      BY <1>4, <1>8, <3>1, <3>2, <3>3
    <3>5. Len(drafts) = 0
      BY <1>5, <3>4
    <3>6. e.mail[id] = None
      BY <1>10, <1>17, <3>5 DEF Posted
    <3> QED BY <1>4, <3>1, <3>2, <3>4, <3>6 DEF Lost
  <2> QED BY <1>7, <2>1 DEF Kept
<1> QED BY ONLY MailInv, <1>7, <1>18, <1>26, <1>27, Committed


\* The rows n are those of m, but for the mails D that are gone and one that changed.
Shrinks(m, D, id, mail, n) ==
    \A k \in MailIds : n[k] = IF k \in D THEN None ELSE IF k = id THEN mail ELSE m[k]

\* Rows that are posted before others are emptied, or after.
LEMMA PostedEmptied ==
    ASSUME NEW m, NEW n, NEW ids, NEW drafts, Drafts(ids, drafts),
           \A k \in 1..Len(drafts) : m[ids[k]] = None,
           NEW b, Posted(m, ids, drafts, b),
           NEW D, \A k \in D : m[k] # None,
           NEW id, m[id] # None, NEW mail, Shrinks(m, D, id, mail, n),
           NEW e, Shrinks(b, D, id, mail, e)
    PROVE  Posted(n, ids, drafts, e)
<1>1. ASSUME NEW k \in 1..Len(drafts) PROVE e[ids[k]] = drafts[k]
  <2>1. ids[k] \in MailIds /\ m[ids[k]] = None
    BY DEF Drafts
  <2>2. ids[k] \notin D /\ ids[k] # id
    BY <2>1
  <2> QED BY <2>1, <2>2 DEF Posted, Shrinks
<1>2. ASSUME NEW l \in MailIds, \A k \in 1..Len(drafts) : ids[k] # l PROVE e[l] = n[l]
  <2>1. b[l] = m[l]
    BY <1>2 DEF Posted
  <2> QED BY <2>1 DEF Shrinks
<1> QED BY <1>1, <1>2 DEF Posted

\* An item comes from a mail: p has it, and it is new.
Enters(iv, uq, us, p, i, iw, ur, ut) ==
    /\ iw = [iv EXCEPT ![p] = @ \cup {i}] /\ ur = [uq EXCEPT ![p] = @ \cup {i}]
    /\ ut = [us EXCEPT ![i] = "new"]

\* It is elsewhere no more.
LEMMA ItemTaken ==
    ASSUME NEW on, NEW iv, NEW uq, NEW us, NEW V, NEW N, NEW E,
           ItemOk(on, iv, uq, us, V, N, E), NEW p \in on, NEW i \in Items, i \in E,
           NEW iw, NEW ur, NEW ut, Enters(iv, uq, us, p, i, iw, ur, ut)
    PROVE  ItemOk(on, iw, ur, ut, V, N, E \ {i})
<1>1. \A q \in Players : i \notin iv[q] \cup uq[q]
  BY ItemAbsent
<1>2. V[i] = None
  BY DEF ItemOk, PlacesSound
<1>3. PICK F : F = E \ {i}
  OBVIOUS
<1>4. i \notin F /\ F \subseteq E
  BY <1>3
<1>5. /\ iw = [iv EXCEPT ![p] = @ \cup {i}] /\ ur = [uq EXCEPT ![p] = @ \cup {i}]
      /\ ut = [us EXCEPT ![i] = "new"]
  BY DEF Enters
<1>6. ItemOk(on, iv, uq, us, V, N, E) /\ p \in on /\ i \in Items
  OBVIOUS
<1>7. ItemOk(on, iw, ur, ut, V, N, F)
  BY ONLY <1>1, <1>2, <1>4, <1>5, <1>6, ItemEnters
<1> QED BY <1>3, <1>7

\* HandleMailTakeItem.
LEMMA MailTakeItemInv ==
    ASSUME MailInv, NEW p \in Players, NEW id \in MailIds, NEW i \in Items,
           HandleMailTakeItem(p, id, i)
    PROVE  MailInv' /\ KeepsItems
<1>1. MemoryOk /\ future \in Tables
  BY Before
<1>2. PICK r : r = mails[p][id]
  OBVIOUS
<1>3. Readable(p, id)
  BY DEF HandleMailTakeItem
<1>4. /\ p \in loaded /\ p \in online /\ id \notin Deleted(p) /\ r \in Mail
      /\ future.mail[id] # None /\ future.mail[id] = r /\ r.to = p
      /\ r.cod > 0 => r.from # None
  BY <1>2, <1>3, ReadableRows
<1>5. PICK taken : taken = [r EXCEPT !.cod = 0, !.items = @ \ {i}]
  OBVIOUS
<1>6. /\ taken \in Mail /\ taken.to = p /\ taken.items = r.items \ {i} /\ taken.cod = 0
      /\ Taken(r, taken, {i})
  BY <1>4, <1>5 DEF Mail, Taken
<1>7. PICK drafts : drafts = IF r.cod > 0 THEN << Draft(p, r.from, r.cod, 0, {}) >> ELSE <<>>
  OBVIOUS
<1>8. PICK pending : pending = [updateQueue EXCEPT ![p] = @ \cup {i}]
  OBVIOUS
<1>9. PICK state : state = TakenState(i)
  OBVIOUS
<1>10. /\ i \in r.items /\ HasEnoughMoney(p, r.cod)
       /\ inv' = [inv EXCEPT ![p] = @ \cup {i}]
       /\ money' = [money EXCEPT ![p] = @ - r.cod]
       /\ SendMailTo(Emptied(p, id, taken), FreeIds, drafts)
       /\ trash' = trash \ Deleted(p)
       /\ Saved({p}, pending, state)
       /\ Commit(   InsertMails(FreeIds, drafts)
                 \o SaveInventoryAndGold(p, pending[p], state, money'[p])
                 \o << UpdateMail(id, taken, {i}) >> \o SaveMail(p))
       /\ UNCHANGED <<online, loaded, auctions, db, refused>>
  BY <1>2, <1>5, <1>7, <1>8, <1>9 DEF HandleMailTakeItem
<1>11. money' \in [Players -> Nat] /\ money'[p] \in Nat
  <2>1. money \in [Players -> Nat] /\ r.cod \in Nat /\ money[p] >= r.cod
    BY <1>1, <1>4, <1>10 DEF MemoryOk, Mail, HasEnoughMoney
  <2>2. money[p] - r.cod \in Nat
    BY <2>1
  <2> QED BY <1>10, <2>1, <2>2
<1>12. DraftsOf(drafts, {})
  <2>1. CASE r.cod > 0
    <3>1. r.from \in Players /\ r.cod \in Nat /\ p \in Players \cup {None}
          /\ {} \in SUBSET Items /\ 0 \in Nat /\ ~(0 > 0)
      BY <1>4, <2>1 DEF Mail
    <3>2. drafts = << Draft(p, r.from, r.cod, 0, {}) >>
      BY <1>7, <2>1
    <3> QED BY ONLY <3>1, <3>2, DraftMail
  <2>2. CASE ~(r.cod > 0)
    <3>1. drafts = <<>>
      BY <1>7, <2>2
    <3> QED BY <3>1 DEF DraftsOf, Carry
  <2> QED BY <2>1, <2>2
<1>13. PICK n : n = [k \in MailIds |->
            IF k \in Deleted(p) THEN None ELSE IF k = id THEN taken ELSE future.mail[k]]
  OBVIOUS
<1>14. Empties(p, id, taken, n)
  <2>1. /\ n \in [MailIds -> Mail \cup {None}]
        /\ \A k \in MailIds :
              n[k] = IF k \in Deleted(p) THEN None ELSE IF k = id THEN taken ELSE future.mail[k]
    BY <1>6, <1>13, Before
  <2> QED BY <1>4, <1>6, <2>1 DEF Empties
<1>15. PICK E, F, D : /\ E = Elsewhere(future.mail, future.auction)
                      /\ F = Elsewhere(n, future.auction) /\ D = DeletedItems(p)
  OBVIOUS
<1>16. /\ MailOk(n, future.auction) /\ F \subseteq E
       /\ D \subseteq E /\ D \cap F = {} /\ i \in E /\ i \notin F /\ i \notin D
       /\ \A q \in Players \ loaded : \A k \in MailIds :
             future.mail[k] # None /\ future.mail[k].to = q => n[k] = future.mail[k]
  <2>1. /\ MailOk(n, future.auction) /\ F \subseteq E
        /\ DeletedItems(p) \subseteq E /\ DeletedItems(p) \cap F = {}
        /\ id \in MailIds \ Deleted(p) => \A j \in Items :
              j \in future.mail[id].items /\ j \notin taken.items =>
                 j \in E /\ j \notin F /\ j \notin DeletedItems(p)
        /\ \A q \in Players \ loaded : \A k \in MailIds :
              future.mail[k] # None /\ future.mail[k].to = q => n[k] = future.mail[k]
    BY ONLY <1>14, <1>15, MailInv, p \in Players, MailsEmptied
  <2>2. i \in future.mail[id].items /\ i \notin taken.items
    BY <1>4, <1>6, <1>10
  <2> QED BY <1>4, <1>15, <2>1, <2>2
<1>17. PICK box : box = Emptied(p, id, taken)
  OBVIOUS
<1>18. box \in [Players -> [MailIds -> Mail \cup {None}]] /\ MailSync(box, loaded, n)
  BY ONLY <1>14, <1>17, MailInv, p \in Players, BoxEmptied
<1>19. /\ Drafts(FreeIds, drafts) /\ \A k \in 1..Len(drafts) : n[FreeIds[k]] = None
       /\ mails' \in [Players -> [MailIds -> Mail \cup {None}]]
       /\ \A m : Posted(n, FreeIds, drafts, m) => MailSync(mails', loaded, m)
  <2>1. PICK d : d = [future EXCEPT !.mail = n]
    OBVIOUS
  <2>2. d \in Tables /\ d.mail = n
    BY <1>1, <1>14, <2>1 DEF Tables, Empties
  <2>3. \A k \in MailIds : future.mail[k] = None => d.mail[k] = None
    BY <1>4, <1>13, <2>2
  <2>4. MailSync(box, loaded, d.mail) /\ SendMailTo(box, FreeIds, drafts)
    BY <1>10, <1>17, <1>18, <2>2
  <2>5. /\ Drafts(FreeIds, drafts) /\ \A k \in 1..Len(drafts) : d.mail[FreeIds[k]] = None
        /\ mails' \in [Players -> [MailIds -> Mail \cup {None}]]
        /\ \A m : Posted(d.mail, FreeIds, drafts, m) => MailSync(mails', loaded, m)
    BY ONLY <1>12, <1>18, <2>2, <2>3, <2>4, MailInv, Post
  <2> QED BY ONLY <2>2, <2>5
<1>20. \A k \in 1..Len(drafts) : future.mail[FreeIds[k]] = None
  <2>1. drafts \in Seq(Mail) /\ Len(drafts) <= Len(FreeIds)
    BY <1>19 DEF Drafts
  <2> QED BY ONLY MailInv, <2>1, IdsFor
<1>21. PICK b \in Tables :
            /\ Runs(future, InsertMails(FreeIds, drafts), b)
            /\ b.inventory = future.inventory /\ b.instances = future.instances
            /\ b.money = future.money /\ b.auction = future.auction
            /\ Posted(future.mail, FreeIds, drafts, b.mail)
  BY ONLY <1>1, <1>19, <1>20, InsertMailsRuns
<1>22. /\ MailOk(b.mail, future.auction) /\ b.mail[id] = r
       /\ Carry(drafts, {})
  <2>1. MailOk(future.mail, future.auction)
    BY <1>1 DEF MemoryOk
  <2>2. b.mail \in [MailIds -> Mail \cup {None}] /\ Carry(drafts, {})
    BY <1>12 DEF Tables, DraftsOf
  <2>3. {} \cap Elsewhere(future.mail, future.auction) = {}
    OBVIOUS
  <2>4. /\ MailOk(b.mail, future.auction)
        /\ \A k \in MailIds : future.mail[k] # None => b.mail[k] = future.mail[k]
    BY ONLY <1>19, <1>20, <1>21, <2>1, <2>2, <2>3, MailsPosted
  <2> QED BY <1>4, <2>2, <2>4
<1>23. ItemOk(online, inv', pending, state, b.inventory, b.instances, E \ {i})
  <2>1. ItemOk(online, inv, updateQueue, uState, future.inventory, future.instances, E)
    BY <1>1, <1>15 DEF MemoryOk
  <2>2. Enters(inv, updateQueue, uState, p, i, inv', pending, state)
    BY <1>8, <1>9, <1>10 DEF Enters, TakenState
  <2>3. ItemOk(online, inv', pending, state, future.inventory, future.instances, E \ {i})
    BY ONLY <1>4, <1>16, <2>1, <2>2, i \in Items, ItemTaken
  <2> QED BY <1>21, <2>3
<1>24. PICK c :
            /\ RowsSaved(b, p, money'[p], c)
            /\ Runs(b, SaveInventoryAndGold(p, pending[p], state, money'[p]), c)
            /\ ItemOk(online, inv', updateQueue', uState', c.inventory, c.instances, E \ {i})
  <2>1. pending \in [Players -> SUBSET Items]
    BY <1>8, Before
  <2>2. QueueSaved(pending, state, p, updateQueue', uState')
    BY <1>10, <2>1, SavedOne
  <2> QED BY ONLY <1>4, <1>11, <1>23, <2>2, b \in Tables, Save
<1>25. PICK f \in Tables :
            /\ Runs(c, << UpdateMail(id, taken, {i}) >>, f)
            /\ f.inventory = c.inventory /\ f.instances = c.instances
            /\ f.money = c.money /\ f.auction = c.auction
            /\ f.mail = [c.mail EXCEPT ![id] = taken]
  <2>1. c \in Tables /\ c.mail = b.mail
    BY <1>24 DEF RowsSaved
  <2>2. c.mail[id] # None /\ Taken(c.mail[id], taken, {i})
    BY <1>4, <1>6, <1>22, <2>1
  <2>3. ASSUME NEW k \in MailIds, k # id, b.mail[k] # None PROVE b.mail[k].items \cap {i} = {}
    <3>1. i \in b.mail[id].items /\ b.mail[id] # None
      BY <1>4, <1>10, <1>22
    <3>2. i \notin b.mail[k].items
      BY <1>22, <2>3, <3>1 DEF MailOk, MailSound
    <3> QED BY <3>2
  <2>4. \A k \in MailIds : k # id /\ c.mail[k] # None => c.mail[k].items \cap {i} = {}
    BY <2>1, <2>3
  <2>5. {i} \in SUBSET Items
    OBVIOUS
  <2> QED BY ONLY <1>6, <2>1, <2>2, <2>4, <2>5, id \in MailIds, UpdateMailRuns
<1>26. PICK e \in Tables :
            /\ Runs(f, SaveMail(p), e)
            /\ e.inventory = f.inventory /\ e.instances = f.instances \ DeletedItems(p)
            /\ e.money = f.money /\ e.auction = f.auction
            /\ \A k \in MailIds : e.mail[k] = IF k \in Deleted(p) THEN None ELSE f.mail[k]
  BY ONLY <1>25, SaveMailRuns
<1>27. Runs(future,    InsertMails(FreeIds, drafts)
                    \o SaveInventoryAndGold(p, pending[p], state, money'[p])
                    \o << UpdateMail(id, taken, {i}) >> \o SaveMail(p), e)
  <2>1. PICK s, t, u, w : /\ s = InsertMails(FreeIds, drafts)
                          /\ t = SaveInventoryAndGold(p, pending[p], state, money'[p])
                          /\ u = << UpdateMail(id, taken, {i}) >> /\ w = SaveMail(p)
    OBVIOUS
  <2>2. Runs(future, s, b) /\ Runs(b, t, c) /\ Runs(c, u, f) /\ Runs(f, w, e)
    BY <1>21, <1>24, <1>25, <1>26, <2>1
  <2>3. Runs(future, s \o t, c)
    BY ONLY <2>2, RunsConcat
  <2>4. Runs(future, s \o t \o u, f)
    BY ONLY <2>2, <2>3, RunsConcat
  <2>5. Runs(future, s \o t \o u \o w, e)
    BY ONLY <2>2, <2>4, RunsConcat
  <2> QED BY ONLY <2>1, <2>5
<1>28. Posted(n, FreeIds, drafts, e.mail)
  <2>1. \A k \in Deleted(p) : future.mail[k] # None
    BY DeletedRows
  <2>2. \A k \in MailIds :
          n[k] = IF k \in Deleted(p) THEN None ELSE IF k = id THEN taken ELSE future.mail[k]
    BY <1>13
  <2>3. \A k \in MailIds : f.mail[k] = IF k = id THEN taken ELSE b.mail[k]
    <3>1. b.mail \in [MailIds -> Mail \cup {None}] /\ c.mail = b.mail
      BY <1>24 DEF Tables, RowsSaved
    <3> QED BY <1>25, <3>1
  <2>4. \A k \in MailIds :
          e.mail[k] = IF k \in Deleted(p) THEN None ELSE IF k = id THEN taken ELSE b.mail[k]
    BY ONLY <1>26, <2>3
  <2>5. Shrinks(future.mail, Deleted(p), id, taken, n) /\ Shrinks(b.mail, Deleted(p), id, taken, e.mail)
    BY ONLY <2>2, <2>4 DEF Shrinks
  <2>6. /\ Drafts(FreeIds, drafts) /\ future.mail[id] # None
        /\ Posted(future.mail, FreeIds, drafts, b.mail)
    BY <1>4, <1>19, <1>21
  <2> QED BY ONLY <1>20, <2>1, <2>5, <2>6, PostedEmptied
<1>29. /\ e.auction = future.auction /\ e.money = [future.money EXCEPT ![p] = money'[p]]
       /\ e.instances = c.instances \ D /\ e.inventory = c.inventory
       /\ \A q \in Players \ {p} : \A j \in Items : e.inventory[j] = q <=> future.inventory[j] = q
  BY <1>15, <1>21, <1>24, <1>25, <1>26 DEF RowsSaved, OthersKept
<1>30. /\ MailOk(e.mail, future.auction) /\ Elsewhere(e.mail, future.auction) = F
       /\ \A k \in MailIds : n[k] # None => e.mail[k] = n[k]
  <2>1. e.mail \in [MailIds -> Mail \cup {None}]
    BY DEF Tables
  <2>2. PICK X : X = {}
    OBVIOUS
  <2>3. X \cap Elsewhere(n, future.auction) = {} /\ Carry(drafts, X) /\ MailOk(n, future.auction)
    BY <1>16, <1>22, <2>2
  <2>4. /\ MailOk(e.mail, future.auction)
        /\ Elsewhere(e.mail, future.auction) = Elsewhere(n, future.auction) \cup X
        /\ \A k \in MailIds : n[k] # None => e.mail[k] = n[k]
    BY ONLY <1>19, <1>28, <2>1, <2>3, MailsPosted
  <2> QED BY <1>15, <2>2, <2>4
<1>31. ItemOk(online, inv', updateQueue', uState', e.inventory, e.instances, F)
  <2>1. PICK G : G = E \ {i}
    OBVIOUS
  <2>2. D \subseteq G /\ F \subseteq G /\ D \cap F = {}
    BY <1>16, <2>1
  <2>3. ItemOk(online, inv', updateQueue', uState', c.inventory, c.instances, G)
    BY <1>24, <2>1
  <2>4. ItemOk(online, inv', updateQueue', uState', c.inventory, c.instances \ D, F)
    BY ONLY <2>2, <2>3, ItemsDropped
  <2> QED BY <1>29, <2>4
<1>32. ASSUME NEW q \in Players \ online PROVE RowsKept(future, e, q)
  <2>1. q # p /\ e.money[q] = future.money[q]
    BY <1>4, <1>29, Before
  <2> QED BY <1>29, <2>1 DEF RowsKept
<1>33. ASSUME NEW q \in Players \ loaded PROVE UnreadKept(future, e, q)
  BY <1>16, <1>30 DEF UnreadKept
<1>34. ASSUME NEW q \in online PROVE money'[q] = e.money[q]
  <2>1. money \in [Players -> Nat] /\ money[q] = future.money[q] /\ q \in Players
    BY <1>1, Before DEF MemoryOk
  <2>2. future.money \in [Players -> Nat]
    BY Before
  <2> QED BY ONLY <1>10, <1>29, <2>1, <2>2, p \in Players
<1>35. /\ auctions' = e.auction /\ loaded \subseteq online /\ trash' \subseteq MailIds
       /\ MailSync(mails', loaded', e.mail)
  BY <1>1, <1>10, <1>19, <1>28, <1>29 DEF MemoryOk
<1>36. Follows(e)
  BY ONLY <1>10, <1>11, <1>19, <1>29, <1>30, <1>31, <1>32, <1>33, <1>34, <1>35 DEF Follows
<1>37. Kept(e)
  <2>1. inv \in [Players -> SUBSET Items]
    BY Before
  <2>2. i \in inv'[p] /\ \A q \in Players : inv[q] \subseteq inv'[q]
    BY <1>10, <2>1
  <2>3. ASSUME NEW j \in Elsewhere(future.mail, future.auction), j # i,
               j \notin Elsewhere(e.mail, e.auction)
        PROVE  Lost(e, j)
    <3>1. j \notin Elsewhere(n, future.auction)
      BY <1>15, <1>29, <1>30, <2>3
    <3>2. PICK k \in Deleted(p) : /\ k \in MailIds /\ k \in trash
                                  /\ future.mail[k] # None /\ j \in future.mail[k].items
      BY <1>4, <1>6, <1>14, <2>3, <3>1, MailsGone
    <3>3. e.mail[k] = None
      BY <1>26, <3>2
    <3> QED BY <3>2, <3>3 DEF Lost
  <2> QED BY <2>2, <2>3 DEF Kept
<1> QED BY ONLY MailInv, <1>10, <1>27, <1>36, <1>37, Committed

-----------------------------------------------------------------------------
(***************************************************************************)
(* Saving, leaving and coming back                                          *)
(***************************************************************************)

\* The tables e after SaveToDB, and what memory says of the items.
SavedAll(p, e) ==
    /\ e \in Tables /\ Runs(future, SaveAll(p), e)
    /\ Empties(p, None, None, e.mail) /\ MailOk(e.mail, e.auction)
    /\ ItemOk(online, inv, updateQueue', uState', e.inventory, e.instances,
              Elsewhere(e.mail, e.auction))
    /\ e.auction = future.auction /\ e.money = future.money
    /\ OthersKept(p, future.inventory, e.inventory)
    /\ \A q \in Players \ loaded : UnreadKept(future, e, q)

\* Player::SaveToDB.
LEMMA SaveAllRuns ==
    ASSUME MailInv, NEW p \in online, Saved({p}, updateQueue, uState)
    PROVE  \E e : SavedAll(p, e)
<1>1. /\ MemoryOk /\ future \in Tables /\ p \in Players /\ p \in online
      /\ future.money \in [Players -> Nat] /\ updateQueue \in [Players -> SUBSET Items]
  BY Before
<1>2. money[p] = future.money[p] /\ money[p] \in Nat
  BY <1>1 DEF MemoryOk
<1>3. PICK b \in Tables :
            /\ Runs(future, << Gold(p, money[p]) >>, b)
            /\ b.inventory = future.inventory /\ b.instances = future.instances
            /\ b.money = [future.money EXCEPT ![p] = money[p]]
            /\ b.mail = future.mail /\ b.auction = future.auction
  BY ONLY <1>1, <1>2, GoldRuns
<1>4. b.money = future.money
  BY <1>1, <1>2, <1>3
<1>5. PICK c \in Tables :
            /\ Runs(b, SaveMail(p), c)
            /\ c.inventory = b.inventory /\ c.instances = b.instances \ DeletedItems(p)
            /\ c.money = b.money /\ c.auction = b.auction
            /\ \A k \in MailIds : c.mail[k] = IF k \in Deleted(p) THEN None ELSE b.mail[k]
  BY ONLY <1>3, SaveMailRuns
<1>6. Empties(p, None, None, c.mail)
  <2>1. None \notin MailIds
    BY NullAssumption
  <2>2. c.mail \in [MailIds -> Mail \cup {None}]
    BY DEF Tables
  <2>3. \A k \in MailIds :
          c.mail[k] = IF k \in Deleted(p) THEN None ELSE IF k = None THEN None ELSE future.mail[k]
    BY <1>3, <1>5, <2>1
  <2> QED BY ONLY <2>1, <2>2, <2>3 DEF Empties
<1>7. PICK E, F, D : /\ E = Elsewhere(future.mail, future.auction)
                     /\ F = Elsewhere(c.mail, future.auction) /\ D = DeletedItems(p)
  OBVIOUS
<1>8. /\ MailOk(c.mail, future.auction) /\ F \subseteq E
      /\ DeletedItems(p) \subseteq E /\ DeletedItems(p) \cap F = {}
      /\ \A q \in Players \ loaded : \A k \in MailIds :
            future.mail[k] # None /\ future.mail[k].to = q => c.mail[k] = future.mail[k]
  BY ONLY <1>1, <1>6, <1>7, MailInv, MailsEmptied
<1>9. PICK V, N : V = c.inventory /\ N = c.instances
  OBVIOUS
<1>10. ItemOk(online, inv, updateQueue, uState, V, N, F)
  <2>1. ItemOk(online, inv, updateQueue, uState, future.inventory, future.instances, E)
    BY <1>1, <1>7 DEF MemoryOk
  <2>2. D \subseteq E /\ F \subseteq E /\ D \cap F = {}
    BY <1>7, <1>8
  <2>3. ItemOk(online, inv, updateQueue, uState, future.inventory, future.instances \ D, F)
    BY ONLY <2>1, <2>2, ItemsDropped
  <2> QED BY <1>3, <1>5, <1>7, <1>9, <2>3
<1>11. /\ ItemOk(online, inv, updateQueue', uState', Stored(V, p, updateQueue[p], uState),
                 Instances(N, updateQueue[p], uState), F)
       /\ OthersKept(p, V, Stored(V, p, updateQueue[p], uState))
  <2>1. QueueSaved(updateQueue, uState, p, updateQueue', uState')
    BY <1>1, SavedOne
  <2> QED BY ONLY <1>1, <1>10, <2>1, ItemsSaved
<1>12. PICK e \in Tables :
            /\ Runs(c, SaveInventory(p, updateQueue[p], uState), e)
            /\ e.inventory = Stored(c.inventory, p, updateQueue[p], uState)
            /\ e.instances = Instances(c.instances, updateQueue[p], uState)
            /\ e.money = c.money /\ e.mail = c.mail /\ e.auction = c.auction
  <2>1. PICK queued : queued = updateQueue[p]
    OBVIOUS
  <2>2. queued \in SUBSET Items
    BY <1>1, <2>1
  <2>3. \A i \in queued : uState[i] = "new" => c.inventory[i] = None
    BY <1>9, <1>10, <2>2 DEF ItemOk, ItemSync
  <2>4. p \in Players
    BY <1>1
  <2>5. PICK e \in Tables :
            /\ Runs(c, SaveInventory(p, queued, uState), e)
            /\ e.inventory = Stored(c.inventory, p, queued, uState)
            /\ e.instances = Instances(c.instances, queued, uState)
            /\ e.money = c.money /\ e.mail = c.mail /\ e.auction = c.auction
    BY ONLY <2>2, <2>3, <2>4, c \in Tables, SaveInventoryRuns
  <2> QED BY ONLY <2>1, <2>5
<1>13. Runs(future, SaveAll(p), e)
  <2>1. PICK s, t, u : /\ s = << Gold(p, money[p]) >> /\ t = SaveMail(p)
                       /\ u = SaveInventory(p, updateQueue[p], uState)
    OBVIOUS
  <2>2. Runs(future, s, b) /\ Runs(b, t, c) /\ Runs(c, u, e) /\ SaveAll(p) = s \o t \o u
    BY <1>3, <1>5, <1>12, <2>1 DEF SaveAll
  <2>3. Runs(future, s \o t, c)
    BY ONLY <2>2, RunsConcat
  <2>4. Runs(future, s \o t \o u, e)
    BY ONLY <2>2, <2>3, RunsConcat
  <2> QED BY ONLY <2>2, <2>4
<1>14. /\ e.auction = future.auction /\ e.money = future.money /\ e.mail = c.mail
       /\ e.inventory = Stored(V, p, updateQueue[p], uState)
       /\ e.instances = Instances(N, updateQueue[p], uState)
       /\ V = future.inventory
  BY <1>3, <1>4, <1>5, <1>9, <1>12
<1>15. ItemOk(online, inv, updateQueue', uState', e.inventory, e.instances,
              Elsewhere(e.mail, e.auction))
  BY ONLY <1>7, <1>11, <1>14
<1>16. ASSUME NEW q \in Players \ loaded PROVE UnreadKept(future, e, q)
  BY <1>8, <1>14 DEF UnreadKept
<1>17. MailOk(e.mail, e.auction) /\ Empties(p, None, None, e.mail)
  BY ONLY <1>6, <1>8, <1>14
<1>18. OthersKept(p, future.inventory, e.inventory)
  BY ONLY <1>11, <1>14
<1>19. SavedAll(p, e)
  BY ONLY <1>12, <1>13, <1>14, <1>15, <1>16, <1>17, <1>18 DEF SavedAll
<1> QED BY ONLY <1>19

\* What is gone from the mails was thrown away.
LEMMA SavedAllLost ==
    ASSUME MailInv, NEW p \in Players, NEW e, SavedAll(p, e),
           NEW i \in Elsewhere(future.mail, future.auction),
           i \notin Elsewhere(e.mail, e.auction)
    PROVE  Lost(e, i)
<1>1. Empties(p, None, None, e.mail) /\ e.auction = future.auction /\ None \notin MailIds
  BY NullAssumption DEF SavedAll
<1>2. \E k \in Deleted(p) : /\ k \in MailIds /\ k \in trash /\ e.mail[k] = None
                            /\ future.mail[k] # None /\ i \in future.mail[k].items
  BY <1>1, MailsGone
<1> QED BY <1>2 DEF Lost

\* SaveToDB.
LEMMA SaveToDBInv ==
    ASSUME MailInv, NEW p \in Players, SaveToDB(p)
    PROVE  MailInv' /\ KeepsItems
<1>1. MemoryOk
  BY Before
<1>2. /\ p \in online /\ Saved({p}, updateQueue, uState) /\ mails' = Emptied(p, None, None)
      /\ trash' = trash \ Deleted(p) /\ Commit(SaveAll(p))
      /\ UNCHANGED <<online, inv, money, loaded, auctions, db, refused>>
  BY DEF SaveToDB
<1>3. PICK e : SavedAll(p, e)
  BY ONLY MailInv, <1>2, SaveAllRuns
<1>4. /\ Runs(future, SaveAll(p), e)
      /\ Empties(p, None, None, e.mail) /\ MailOk(e.mail, e.auction)
      /\ ItemOk(online, inv, updateQueue', uState', e.inventory, e.instances,
                Elsewhere(e.mail, e.auction))
      /\ e.auction = future.auction /\ e.money = future.money
      /\ OthersKept(p, future.inventory, e.inventory)
      /\ \A q \in Players \ loaded : UnreadKept(future, e, q)
  BY <1>3 DEF SavedAll
<1>5. mails' \in [Players -> [MailIds -> Mail \cup {None}]] /\ MailSync(mails', loaded, e.mail)
  BY ONLY <1>2, <1>4, MailInv, p \in Players, BoxEmptied
<1>6. ASSUME NEW q \in Players \ online PROVE RowsKept(future, e, q)
  BY <1>2, <1>4 DEF RowsKept, OthersKept
<1>7. /\ auctions' = e.auction /\ loaded \subseteq online /\ trash' \subseteq MailIds
      /\ money' \in [Players -> Nat] /\ \A q \in online : money'[q] = e.money[q]
  BY <1>1, <1>2, <1>4 DEF MemoryOk
<1>8. Follows(e)
  BY ONLY <1>2, <1>4, <1>5, <1>6, <1>7 DEF Follows
<1>9. Kept(e)
  <2>1. \A i \in Elsewhere(future.mail, future.auction) :
           i \in Elsewhere(e.mail, e.auction) \/ Lost(e, i)
    BY <1>3, SavedAllLost
  <2> QED BY <1>2, <2>1 DEF Kept
<1> QED BY ONLY MailInv, <1>2, <1>4, <1>8, <1>9, Committed

\* LogoutPlayer.
LEMMA LogoutPlayerInv ==
    ASSUME MailInv, NEW p \in Players, LogoutPlayer(p)
    PROVE  MailInv' /\ KeepsItems
<1>1. MemoryOk
  BY Before
<1>2. /\ p \in online /\ Saved({p}, updateQueue, uState)
      /\ online' = online \ {p} /\ loaded' = loaded \ {p}
      /\ inv' = [inv EXCEPT ![p] = {}] /\ money' = [money EXCEPT ![p] = 0]
      /\ mails' = [mails EXCEPT ![p] = NoMails]
      /\ trash' = trash \ Deleted(p) /\ Commit(SaveAll(p))
      /\ UNCHANGED <<auctions, db, refused>>
  BY DEF LogoutPlayer
<1>3. PICK e : SavedAll(p, e)
  BY ONLY MailInv, <1>2, SaveAllRuns
<1>4. /\ Runs(future, SaveAll(p), e)
      /\ Empties(p, None, None, e.mail) /\ MailOk(e.mail, e.auction)
      /\ ItemOk(online, inv, updateQueue', uState', e.inventory, e.instances,
                Elsewhere(e.mail, e.auction))
      /\ e.auction = future.auction /\ e.money = future.money
      /\ OthersKept(p, future.inventory, e.inventory)
      /\ \A q \in Players \ loaded : UnreadKept(future, e, q)
  BY <1>3 DEF SavedAll
<1>5. ItemOk(online', inv', updateQueue', uState', e.inventory, e.instances,
             Elsewhere(e.mail, e.auction))
  <2>1. PICK V, N, E, ur, ut, iw : /\ V = e.inventory /\ N = e.instances
                                   /\ E = Elsewhere(e.mail, e.auction)
                                   /\ ur = updateQueue' /\ ut = uState' /\ iw = inv'
    OBVIOUS
  <2>2. ItemOk(online, inv, ur, ut, V, N, E)
    BY <1>4, <2>1
  <2>3. updateQueue \in [Players -> SUBSET Items]
    BY Before
  <2>4. QueueSaved(updateQueue, uState, p, updateQueue', uState')
    BY <1>2, <2>3, SavedOne
  <2>5. ur[p] = {} /\ iw = [inv EXCEPT ![p] = {}]
    BY <1>2, <2>1, <2>3, <2>4 DEF QueueSaved
  <2>6. ItemOk(online \ {p}, iw, ur, ut, V, N, E)
    BY ONLY <2>2, <2>5, p \in Players, PlayerLeaves
  <2> QED BY <1>2, <2>1, <2>6
<1>6. mails' \in [Players -> [MailIds -> Mail \cup {None}]] /\ MailSync(mails', loaded', e.mail)
  <2>1. PICK box : box = Emptied(p, None, None)
    OBVIOUS
  <2>2. box \in [Players -> [MailIds -> Mail \cup {None}]] /\ MailSync(box, loaded, e.mail)
    BY ONLY <1>4, <2>1, MailInv, p \in Players, BoxEmptied
  <2>3. mails \in [Players -> [MailIds -> Mail \cup {None}]]
    BY <1>1 DEF MemoryOk
  <2>4. NoMails \in [MailIds -> Mail \cup {None}]
    BY DEF NoMails
  <2>5. mails' \in [Players -> [MailIds -> Mail \cup {None}]]
    BY ONLY <1>2, <2>3, <2>4, p \in Players
  <2>6. ASSUME NEW q \in Players, NEW k \in MailIds, mails'[q][k] # None
        PROVE  q \in loaded' /\ e.mail[k] = mails'[q][k] /\ e.mail[k].to = q
    <3>1. q # p
      <4>1. SUFFICES ASSUME q = p PROVE FALSE
        OBVIOUS
      <4>2. mails'[p] = NoMails
        BY <1>2, <2>3
      <4> QED BY <2>6, <4>1, <4>2 DEF NoMails
    <3>2. mails'[q] = mails[q]
      BY <1>2, <2>3, <3>1
    <3>3. box[q] = mails[q]
      BY <2>1, <2>3, <3>1 DEF Emptied
    <3>4. q \in loaded /\ e.mail[k] = box[q][k] /\ e.mail[k].to = q
      BY <2>2, <2>6, <3>2, <3>3 DEF MailSync
    <3> QED BY <1>2, <3>1, <3>2, <3>3, <3>4
  <2> QED BY <2>5, <2>6 DEF MailSync
<1>7. ASSUME NEW q \in Players \ online PROVE RowsKept(future, e, q)
  BY <1>2, <1>4 DEF RowsKept, OthersKept
<1>8. /\ auctions' = e.auction /\ loaded' \subseteq online' /\ trash' \subseteq MailIds
      /\ online' \subseteq online /\ online' \ loaded' \subseteq online \ loaded
      /\ money' \in [Players -> Nat] /\ \A q \in online' : money'[q] = e.money[q]
  <2>1. /\ money \in [Players -> Nat] /\ \A q \in online : money[q] = future.money[q] /\ q \in Players
        /\ loaded \subseteq online /\ trash \subseteq MailIds /\ auctions = future.auction
    BY <1>1, Before DEF MemoryOk
  <2>2. money' \in [Players -> Nat] /\ \A q \in online' : money'[q] = e.money[q]
    BY <1>2, <1>4, <2>1
  <2> QED BY <1>2, <1>4, <2>1, <2>2
<1>9. Follows(e)
  BY ONLY <1>2, <1>4, <1>5, <1>6, <1>7, <1>8 DEF Follows
<1>10. Kept(e)
  <2>1. \A i \in Elsewhere(future.mail, future.auction) :
           i \in Elsewhere(e.mail, e.auction) \/ Lost(e, i)
    BY <1>3, SavedAllLost
  <2>2. inv \in [Players -> SUBSET Items] /\ updateQueue \in [Players -> SUBSET Items]
    BY Before
  <2>3. QueueSaved(updateQueue, uState, p, updateQueue', uState')
    BY <1>2, <2>2, SavedOne
  <2>4. updateQueue'[p] = {}
    BY <2>2, <2>3 DEF QueueSaved
  <2>5. ASSUME NEW i \in inv[p] PROVE e.inventory[i] # None
    <3>1. i \in Items /\ ItemSync(online, inv, updateQueue', uState', e.inventory,
                                  Elsewhere(e.mail, e.auction))
      BY <1>4, <2>2 DEF ItemOk
    <3>2. uState'[i] = "unchanged"
      BY <2>4, <3>1 DEF ItemSync
    <3>3. e.inventory[i] = p
      BY <1>2, <3>1, <3>2 DEF ItemSync
    <3> QED BY <3>3, NullAssumption
  <2>6. \A q \in Players : q # p => inv'[q] = inv[q]
    BY <1>2, <2>2
  <2> QED BY <2>1, <2>5, <2>6 DEF Kept
<1> QED BY ONLY MailInv, <1>2, <1>4, <1>9, <1>10, Committed

\* V and W differ only in the row of an item that is new, or has a row in both.
SameBut(V, W, i, us) ==
    /\ us[i] = "new" \/ (us[i] = "changed" /\ V[i] # None /\ W[i] # None)
    /\ \A j \in Items : j # i => V[j] = W[j]

\* Two update queues are saved: the row of an item in the second may say either that
\* it is in the first inventory or that it is in the second.
LEMMA StoredTwice ==
    ASSUME NEW V, NEW W, NEW p, NEW q, NEW A \in SUBSET Items, NEW B \in SUBSET Items,
           A \cap B = {}, NEW i \in B, NEW us, NEW ut, \A j \in B : ut[j] = us[j],
           SameBut(V, W, i, us), NEW M
    PROVE  /\ Stored(Stored(W, p, A, us), q, B, ut) = Stored(Stored(V, p, A, us), q, B, us)
           /\ Instances(M, B, ut) = Instances(M, B, us)
<1>1. Instances(M, B, ut) = Instances(M, B, us)
  BY DEF Instances
<1>2. PICK X, Y : X = Stored(W, p, A, us) /\ Y = Stored(V, p, A, us)
  OBVIOUS
<1>3. \A j \in Items : j # i => X[j] = Y[j]
  BY <1>2 DEF Stored, SameBut
<1>4. i \in Items /\ i \notin A /\ X[i] = W[i] /\ Y[i] = V[i]
  BY <1>2 DEF Stored
<1>5. ASSUME NEW j \in Items
      PROVE  Stored(X, q, B, ut)[j] = Stored(Y, q, B, us)[j]
  <2>1. CASE j = i
    <3>1. Stored(X, q, B, ut)[i] = q /\ Stored(Y, q, B, us)[i] = q
      BY <1>4 DEF Stored, SameBut
    <3> QED BY <2>1, <3>1
  <2>2. CASE j # i
    BY <1>3, <2>2 DEF Stored
  <2> QED BY <2>1, <2>2
<1>6. Stored(X, q, B, ut) = Stored(Y, q, B, us)
  BY <1>5 DEF Stored
<1> QED BY <1>1, <1>2, <1>6

\* The update queues of p and q are saved, first the one, then the other.
SavedInTurn(uq, us, p, q, ur, ut) ==
    /\ QueueSaved(uq, us, p, ur, ut)
    /\ QueueSaved(ur, ut, q, updateQueue', uState')
    /\ ur[q] = uq[q] /\ \A j \in uq[q] : ut[j] = us[j]

\* Saved, for two players.
LEMMA SavedTwo ==
    ASSUME NEW p \in Players, NEW q \in Players, p # q,
           NEW pending \in [Players -> SUBSET Items], NEW us,
           NEW ps, ps = {p, q}, Saved(ps, pending, us),
           pending[p] \cap pending[q] = {}
    PROVE  \E ur, ut : SavedInTurn(pending, us, p, q, ur, ut)
<1>1. PICK ur, ut : /\ ur = [pending EXCEPT ![p] = {}]
                    /\ ut = [i \in Items |-> IF i \in pending[p] THEN "unchanged" ELSE us[i]]
  OBVIOUS
<1>2. /\ ur[q] = pending[q] /\ \A j \in pending[q] : ut[j] = us[j]
      /\ ur \in [Players -> SUBSET Items]
  BY <1>1
<1>3. updateQueue' = [ur EXCEPT ![q] = {}]
  <2>1. updateQueue' = [x \in Players |-> IF x \in {p, q} THEN {} ELSE pending[x]]
    BY DEF Saved
  <2> QED BY <1>1, <1>2, <2>1
<1>4. uState' = [i \in Items |-> IF i \in ur[q] THEN "unchanged" ELSE ut[i]]
  <2>1. uState' = [i \in Items |->
                     IF \E x \in {p, q} : i \in pending[x] THEN "unchanged" ELSE us[i]]
    BY DEF Saved
  <2> QED BY <1>1, <1>2, <2>1
<1>5. QueueSaved(pending, us, p, ur, ut) /\ QueueSaved(ur, ut, q, updateQueue', uState')
  BY <1>1, <1>3, <1>4 DEF QueueSaved
<1> QED BY <1>2, <1>5 DEF SavedInTurn

\* What the tables say once p and q are saved, with update queues uq and states us.
TradeStored(on, iw, uq, us, V, N, E, p, q) ==
    /\ \A j \in uq[p] : us[j] = "new" => V[j] = None
    /\ \A j \in uq[q] : us[j] = "new" => Stored(V, p, uq[p], us)[j] = None
    /\ uq \in [Players -> SUBSET Items]
    /\ ItemOk(on, iw, updateQueue', uState', Stored(Stored(V, p, uq[p], us), q, uq[q], us),
              Instances(Instances(N, uq[p], us), uq[q], us), E)
    /\ \A r \in Players \ {p, q} : \A j \in Items :
          Stored(Stored(V, p, uq[p], us), q, uq[q], us)[j] = r <=> V[j] = r

\* An item has gone from p to q, and their update queues are saved.
LEMMA SaveTraded ==
    ASSUME NEW on, NEW iv, NEW uq, NEW us, NEW V, NEW N, NEW E,
           ItemOk(on, iv, uq, us, V, N, E),
           NEW p \in on, NEW q \in on, NEW i, NEW iw, NEW ur, NEW ut,
           Moves(iv, uq, us, p, q, i, iw, ur, ut), NEW ps, ps = {p, q}, Saved(ps, ur, ut)
    PROVE  TradeStored(on, iw, ur, ut, V, N, E, p, q)
<1>1. PICK W : W = [V EXCEPT ![i] = IF us[i] = "new" THEN None ELSE q]
  OBVIOUS
<1>2. ItemOk(on, iw, ur, ut, W, N, E)
  <2>1. Reassigned(us, V, q, i, W)
    BY ONLY <1>1 DEF Reassigned
  <2> QED BY ONLY ItemOk(on, iv, uq, us, V, N, E), p \in on, q \in on,
                  Moves(iv, uq, us, p, q, i, iw, ur, ut), <2>1, ItemMoves
<1>3. /\ ItemTypes(iw, ur, ut, W) /\ ItemTypes(iv, uq, us, V) /\ on \subseteq Players
      /\ ItemSync(on, iw, ur, ut, W, E)
  BY <1>2 DEF ItemOk
<1>4. /\ p # q /\ i \in Items /\ i \in iv[p] /\ p \in Players /\ q \in Players
      /\ ur = [uq EXCEPT ![p] = @ \ {i}, ![q] = @ \cup {i}]
      /\ ut = [us EXCEPT ![i] = IF @ = "new" THEN "new" ELSE "changed"]
  BY <1>3 DEF Moves
<1>5. /\ i \in ur[q] /\ i \notin ur[p]
      /\ ut[i] = IF us[i] = "new" THEN "new" ELSE "changed"
  BY <1>3, <1>4 DEF ItemTypes
<1>6. /\ us[i] # "new" => V[i] = p
      /\ us[i] = "new" => V[i] = None
  BY <1>3, <1>4, ItemRows
<1>7. ur[p] \cap ur[q] = {}
  BY <1>3, <1>4 DEF ItemSync, ItemTypes
<1>8. \A j \in Items : j # i => V[j] = W[j]
  BY <1>1, <1>3 DEF ItemTypes
<1>9. W[i] = IF us[i] = "new" THEN None ELSE q
  BY <1>1, <1>3, <1>4 DEF ItemTypes
<1>10. p # None /\ q # None
  BY <1>4, NullAssumption
<1>11. PICK vr, vt :
              /\ QueueSaved(ur, ut, p, vr, vt)
              /\ QueueSaved(vr, vt, q, updateQueue', uState')
              /\ vr[q] = ur[q] /\ \A j \in ur[q] : vt[j] = ut[j]
  <2>1. p \in Players /\ q \in Players /\ p # q /\ ur \in [Players -> SUBSET Items]
    BY <1>3, <1>4 DEF ItemTypes
  <2>2. \E vr, vt : SavedInTurn(ur, ut, p, q, vr, vt)
    BY ONLY <1>7, <2>1, ps = {p, q}, Saved(ps, ur, ut), SavedTwo
  <2> QED BY ONLY <2>2 DEF SavedInTurn
<1>12. PICK S, M : S = Stored(W, p, ur[p], ut) /\ M = Instances(N, ur[p], ut)
  OBVIOUS
<1>13. ItemOk(on, iw, vr, vt, S, M, E) /\ OthersKept(p, W, S)
  BY ONLY <1>2, <1>11, <1>12, p \in on, ItemsSaved
<1>14. /\ ItemOk(on, iw, updateQueue', uState', Stored(S, q, vr[q], vt),
                 Instances(M, vr[q], vt), E)
       /\ OthersKept(q, S, Stored(S, q, vr[q], vt))
  BY ONLY <1>11, <1>13, q \in on, ItemsSaved
<1>15. PICK A, B : A = ur[p] /\ B = ur[q]
  OBVIOUS
<1>16. /\ Stored(Stored(W, p, A, ut), q, B, vt) = Stored(Stored(V, p, A, ut), q, B, ut)
       /\ Instances(M, B, vt) = Instances(M, B, ut)
  <2>1. A \in SUBSET Items /\ B \in SUBSET Items /\ A \cap B = {} /\ i \in B
    BY <1>3, <1>4, <1>5, <1>7, <1>15 DEF ItemTypes
  <2>2. \A j \in B : vt[j] = ut[j]
    BY <1>11, <1>15
  <2>3. ut[i] = "new" \/ (ut[i] = "changed" /\ V[i] # None /\ W[i] # None)
    BY <1>5, <1>6, <1>9, <1>10
  <2>4. SameBut(V, W, i, ut)
    BY ONLY <1>8, <2>3 DEF SameBut
  <2> QED BY ONLY <2>1, <2>2, <2>4, StoredTwice
<1>17. PICK T : T = Stored(Stored(V, p, A, ut), q, B, ut)
  OBVIOUS
<1>18. /\ ItemOk(on, iw, updateQueue', uState', T, Instances(Instances(N, A, ut), B, ut), E)
       /\ OthersKept(q, S, T)
  BY ONLY <1>11, <1>12, <1>14, <1>15, <1>16, <1>17
<1>19. ASSUME NEW r \in Players \ {p, q}, NEW j \in Items PROVE T[j] = r <=> V[j] = r
  <2>1. T[j] = r <=> W[j] = r
    BY <1>4, <1>13, <1>18 DEF OthersKept
  <2>2. CASE j = i
    BY <1>6, <1>9, <2>1, <2>2, NullAssumption
  <2>3. CASE j # i
    BY <1>8, <2>1, <2>3
  <2> QED BY <2>2, <2>3
<1>20. ASSUME NEW j \in A, ut[j] = "new" PROVE V[j] = None
  <2>1. j \in Items /\ j # i
    BY <1>3, <1>4, <1>5, <1>15 DEF ItemTypes
  <2> QED BY <1>3, <1>8, <1>20, <2>1 DEF ItemSync
<1>21. ASSUME NEW j \in B, ut[j] = "new" PROVE Stored(V, p, A, ut)[j] = None
  <2>1. j \in Items /\ j \notin A
    BY <1>3, <1>4, <1>7, <1>15 DEF ItemTypes
  <2>2. V[j] = None
    BY <1>3, <1>5, <1>6, <1>8, <1>21, <2>1 DEF ItemSync
  <2> QED BY <2>1, <2>2 DEF Stored
<1>22. ur \in [Players -> SUBSET Items]
  BY <1>3 DEF ItemTypes
<1> QED BY ONLY <1>15, <1>17, <1>18, <1>19, <1>20, <1>21, <1>22 DEF TradeStored

\* What HandleAcceptTradeOpcode does in the end.
LEMMA TradeItemInv ==
    ASSUME MailInv, NEW p \in Players, NEW q \in Players, NEW i \in Items, NEW m \in Nat,
           TradeItem(p, q, i, m)
    PROVE  MailInv' /\ KeepsItems
<1>1. /\ MemoryOk /\ future \in Tables /\ future.money \in [Players -> Nat]
  BY Before
<1>2. PICK pending : pending = [updateQueue EXCEPT ![p] = @ \ {i}, ![q] = @ \cup {i}]
  OBVIOUS
<1>3. PICK state : state = TradedState(i)
  OBVIOUS
<1>4. /\ p \in online /\ q \in online /\ p # q /\ i \in inv[p] /\ HasEnoughMoney(q, m)
      /\ inv' = [inv EXCEPT ![p] = @ \ {i}, ![q] = @ \cup {i}]
      /\ money' = [money EXCEPT ![p] = @ + m, ![q] = @ - m]
      /\ Saved({p, q}, pending, state)
      /\ Commit(   SaveInventoryAndGold(p, pending[p], state, money'[p])
                \o SaveInventoryAndGold(q, pending[q], state, money'[q]))
      /\ UNCHANGED <<online, mails, loaded, trash, auctions, db, refused>>
  BY <1>2, <1>3 DEF TradeItem
<1>5. money' \in [Players -> Nat] /\ money'[p] \in Nat /\ money'[q] \in Nat
  <2>1. money \in [Players -> Nat] /\ money[q] >= m
    BY <1>1, <1>4 DEF MemoryOk, HasEnoughMoney
  <2>2. money[p] + m \in Nat /\ money[q] - m \in Nat
    BY <2>1
  <2> QED BY <1>4, <2>1, <2>2
<1>6. PICK V, N, E : /\ V = future.inventory /\ N = future.instances
                     /\ E = Elsewhere(future.mail, future.auction)
  OBVIOUS
<1>7. PICK A, B : A = pending[p] /\ B = pending[q]
  OBVIOUS
<1>8. PICK S, T : S = Stored(V, p, A, state) /\ T = Stored(S, q, B, state)
  OBVIOUS
<1>9. /\ \A j \in A : state[j] = "new" => V[j] = None
      /\ \A j \in B : state[j] = "new" => S[j] = None
      /\ pending \in [Players -> SUBSET Items]
      /\ ItemOk(online, inv', updateQueue', uState', T,
                Instances(Instances(N, A, state), B, state), E)
      /\ \A r \in Players \ {p, q} : \A j \in Items : T[j] = r <=> V[j] = r
  <2>1. ItemOk(online, inv, updateQueue, uState, V, N, E)
    BY <1>1, <1>6 DEF MemoryOk
  <2>2. Moves(inv, updateQueue, uState, p, q, i, inv', pending, state)
    BY <1>2, <1>3, <1>4 DEF Moves, TradedState, Touched
  <2>3. PICK ps : ps = {p, q}
    OBVIOUS
  <2>4. Saved(ps, pending, state) /\ p \in online /\ q \in online
    BY <1>4, <2>3
  <2>5. TradeStored(online, inv', pending, state, V, N, E, p, q)
    BY ONLY <2>1, <2>2, <2>3, <2>4, SaveTraded
  <2> QED BY ONLY <1>7, <1>8, <2>5 DEF TradeStored
<1>10. A \in SUBSET Items /\ B \in SUBSET Items
  BY <1>7, <1>9
<1>11. PICK b \in Tables :
            /\ Runs(future, SaveInventoryAndGold(p, A, state, money'[p]), b)
            /\ b.inventory = Stored(future.inventory, p, A, state)
            /\ b.instances = Instances(future.instances, A, state)
            /\ b.money = [future.money EXCEPT ![p] = money'[p]]
            /\ b.mail = future.mail /\ b.auction = future.auction
  <2>1. \A j \in A : state[j] = "new" => future.inventory[j] = None
    BY <1>6, <1>9
  <2>2. future \in Tables /\ money'[p] \in Nat
    BY <1>1, <1>5
  <2> QED BY ONLY <1>10, <2>1, <2>2, p \in Players, SaveInventoryAndGoldRuns
<1>12. PICK e \in Tables :
            /\ Runs(b, SaveInventoryAndGold(q, B, state, money'[q]), e)
            /\ e.inventory = Stored(b.inventory, q, B, state)
            /\ e.instances = Instances(b.instances, B, state)
            /\ e.money = [b.money EXCEPT ![q] = money'[q]]
            /\ e.mail = b.mail /\ e.auction = b.auction
  <2>1. \A j \in B : state[j] = "new" => b.inventory[j] = None
    BY <1>6, <1>8, <1>9, <1>11
  <2>2. b \in Tables /\ money'[q] \in Nat
    BY <1>5
  <2> QED BY ONLY <1>10, <2>1, <2>2, q \in Players, SaveInventoryAndGoldRuns
<1>13. Runs(future,    SaveInventoryAndGold(p, pending[p], state, money'[p])
                    \o SaveInventoryAndGold(q, pending[q], state, money'[q]), e)
  BY ONLY <1>7, <1>11, <1>12, RunsConcat
<1>14. /\ e.inventory = T /\ e.instances = Instances(Instances(N, A, state), B, state)
       /\ e.money = [[future.money EXCEPT ![p] = money'[p]] EXCEPT ![q] = money'[q]]
       /\ e.mail = future.mail /\ e.auction = future.auction
  BY ONLY <1>6, <1>8, <1>11, <1>12
<1>15. ItemOk(online, inv', updateQueue', uState', e.inventory, e.instances,
              Elsewhere(e.mail, e.auction))
  BY ONLY <1>6, <1>9, <1>14
<1>16. ASSUME NEW r \in Players \ online PROVE RowsKept(future, e, r)
  <2>1. r # p /\ r # q
    BY <1>4
  <2>2. e.money[r] = future.money[r]
    BY ONLY <1>1, <1>14, <2>1, r \in Players \ online
  <2> QED BY <1>6, <1>9, <1>14, <2>1, <2>2 DEF RowsKept
<1>17. ASSUME NEW r \in Players PROVE UnreadKept(future, e, r)
  BY <1>14 DEF UnreadKept
<1>18. ASSUME NEW r \in online PROVE money'[r] = e.money[r]
  <2>1. money \in [Players -> Nat] /\ money[r] = future.money[r] /\ r \in Players
    BY <1>1, Before DEF MemoryOk
  <2>2. r # p /\ r # q => money'[r] = money[r]
    BY ONLY <1>4, <2>1, p \in Players, q \in Players
  <2>3. e.money[r] = IF r = q THEN money'[q] ELSE IF r = p THEN money'[p] ELSE future.money[r]
    BY ONLY <1>1, <1>14, <2>1, p \in Players, q \in Players
  <2> QED BY <2>1, <2>2, <2>3
<1>19. /\ auctions' = e.auction /\ loaded \subseteq online /\ trash \subseteq MailIds
       /\ MailSync(mails', loaded', e.mail) /\ mails' \in [Players -> [MailIds -> Mail \cup {None}]]
       /\ MailOk(e.mail, e.auction)
  BY <1>1, <1>4, <1>14 DEF MemoryOk
<1>20. Follows(e)
  BY ONLY <1>4, <1>5, <1>15, <1>16, <1>17, <1>18, <1>19 DEF Follows
<1>21. Kept(e)
  <2>1. inv \in [Players -> SUBSET Items]
    BY Before
  <2>2. i \in inv'[q] /\ \A r \in Players : \A j \in inv[r] : j # i => j \in inv'[r]
    BY ONLY <1>4, <2>1, p \in Players, q \in Players
  <2> QED BY <1>14, <2>2 DEF Kept
<1> QED BY ONLY MailInv, <1>4, <1>13, <1>20, <1>21, Committed

\* HandlePlayerLogin: the holder waits behind all that is committed.
LEMMA PlayerLoginInv ==
    ASSUME MailInv, NEW p \in Players, HandlePlayerLogin(p)
    PROVE  MailInv'
<1>1. MemoryOk /\ future \in Tables /\ online \subseteq Players
  BY Before
<1>2. PICK st : Chain(st)
  BY DEF MailInv, Chained
<1>3. PICK w : w = [trans |-> <<>>, login |-> p]
  OBVIOUS
<1>4. w.trans = <<>> /\ w.login = p
  BY <1>3
<1>5. /\ p \notin online /\ \A k \in DOMAIN queue : queue[k].login # p
      /\ queue' = Append(queue, w) /\ UNCHANGED <<memory, db, future, refused>>
  BY <1>3 DEF HandlePlayerLogin
<1>6. Execute(future, w.trans) = future
  BY <1>1, <1>4, RunsEmpty, RunsExecute
<1>7. Sound(future) /\ loaded \subseteq online
  BY <1>2, ChainTables DEF MailInv, Types
<1>8. \A q \in Players : RowsKept(future, future, q) /\ UnreadKept(future, future, q)
  BY KeptTwice
<1>9. w.login # None =>
          /\ w.login \in Players \ online /\ w.trans = <<>> /\ future = future
          /\ \A k \in DOMAIN queue : queue[k].login # w.login
  BY <1>4, <1>5
<1>10. future' = future /\ db' = db /\ online' = online /\ loaded' = loaded
  BY <1>5 DEF memory
<1>11. Chained'
  <2>1. \A id \in MailIds : future.mail[id] # None =>
            future.mail[id] # None \/ Inserts(w.trans, id)
    OBVIOUS
  <2>2. online' \subseteq online /\ online' \ loaded' \subseteq online \ loaded
    BY <1>10
  <2>3. /\ \A q \in Players \ online : RowsKept(future, future, q)
        /\ \A q \in Players \ loaded : UnreadKept(future, future, q)
    BY <1>8
  <2>4. queue' = Append(queue, w)
    BY <1>5
  <2> QED BY ONLY <1>1, <1>2, <1>6, <1>7, <1>9, <1>10, <2>1, <2>2, <2>3, <2>4, ChainGrows
<1>12. MemoryOk'
  BY <1>1, <1>5 DEF MemoryOk, memory
<1>13. MailInv' <=> MemoryOk'
  BY <1>11, MailInvParts, PTL
<1> QED BY <1>12, <1>13

\* The database worker.
LEMMA ExecuteTaskInv ==
    ASSUME MailInv, ExecuteTask
    PROVE  MailInv'
<1>1. MemoryOk /\ future \in Tables /\ online \subseteq Players /\ db \in Tables /\ Sound(db)
  BY Before
<1>2. PICK st : Chain(st)
  BY DEF MailInv, Chained
<1>3. PICK w : w = Head(queue)
  OBVIOUS
<1>4. queue # <<>> /\ queue' = Tail(queue) /\ future' = future
  BY DEF ExecuteTask
<1>5. CASE w.login = None
  <2>1. PICK d : d = Execute(db, w.trans)
    OBVIOUS
  <2>2. /\ db' = IF d = None THEN db ELSE d
        /\ refused' = (refused \/ d = None)
        /\ UNCHANGED memory
    BY <1>3, <1>5, <2>1 DEF ExecuteTask
  <2>3. d \in Tables
    <3>1. PICK S : queue \in Seq(S)
      BY <1>2 DEF Chain, Linked, IsList
    <3>2. Len(queue) \in Nat /\ Len(queue) >= 1 /\ w = queue[1]
      BY <1>3, <1>4, <3>1
    <3>3. 1 \in 1..Len(queue) /\ 1 \in 0..Len(queue) /\ 1 - 1 = 0
      BY <3>2
    <3>4. /\ st[1] = Execute(st[1 - 1], queue[1].trans) /\ st[0] = db
          /\ st \in [0..Len(queue) -> Tables]
      BY ONLY <1>2, <3>3 DEF Chain, Linked
    <3> QED BY ONLY <2>1, <3>2, <3>3, <3>4
  <2>4. d # None
    BY <2>3, NullAssumption
  <2>5. db' = Execute(db, w.trans) /\ refused' = FALSE
    <3>1. db' = Execute(db, w.trans)
      BY <2>1, <2>2, <2>4
    <3>2. refused = FALSE
      BY <1>1 DEF MemoryOk
    <3> QED BY <2>2, <2>4, <3>1, <3>2
  <2>6. online' = online /\ loaded' = loaded
    BY <2>2 DEF memory
  <2>7. Chained'
    BY <1>2, <1>3, <1>4, <1>5, <2>5, <2>6, ChainShrinks
  <2>8. MemoryOk'
    BY <1>1, <1>4, <2>2, <2>5 DEF MemoryOk, memory
  <2>9. MailInv' <=> MemoryOk'
    BY <2>7, MailInvParts, PTL
  <2> QED BY <2>8, <2>9
<1>6. CASE w.login # None
  <2>1. PICK p : p = w.login
    OBVIOUS
  <2>2. LoadFromDB(p)
    BY <1>3, <1>6, <2>1 DEF ExecuteTask
  <2>3. /\ online' = online \cup {p}
        /\ inv' = [inv EXCEPT ![p] = {i \in db.instances : db.inventory[i] = p}]
        /\ money' = [money EXCEPT ![p] = db.money[p]]
        /\ UNCHANGED <<updateQueue, uState, mails, loaded, trash, auctions, db, refused>>
    BY <2>2 DEF LoadFromDB
  <2>4. Chained' /\ p \in Players \ online /\ RowsKept(db, future, p)
    BY <1>2, <1>3, <1>4, <1>6, <2>1, <2>3, ChainShrinks
  <2>5. MailInv' <=> MemoryOk'
    BY <2>4, MailInvParts, PTL
  <2>6. {i \in db.instances : db.inventory[i] = p} = {i \in Items : future.inventory[i] = p}
    <3>1. p # None
      BY <2>4, NullAssumption
    <3>2. /\ db.instances \subseteq Items
          /\ \A i \in Items : db.inventory[i] # None => i \in db.instances
      BY <1>1 DEF Tables, Sound, PlacesSound
    <3>3. \A i \in Items : db.inventory[i] = p <=> future.inventory[i] = p
      BY <2>4 DEF RowsKept
    <3> QED BY <3>1, <3>2, <3>3
  <2>7. ItemOk(online', inv', updateQueue', uState', future.inventory, future.instances,
               Elsewhere(future.mail, future.auction))
    <3>1. PICK V, N, E : /\ V = future.inventory /\ N = future.instances
                         /\ E = Elsewhere(future.mail, future.auction)
      OBVIOUS
    <3>2. ItemOk(online, inv, updateQueue, uState, V, N, E)
      BY <1>1, <3>1 DEF MemoryOk
    <3>3. PICK iw : iw = [inv EXCEPT ![p] = {i \in Items : V[i] = p}]
      OBVIOUS
    <3>4. ItemOk(online \cup {p}, iw, updateQueue, uState, V, N, E)
      BY <2>4, <3>2, <3>3, PlayerComes
    <3>5. inv' = iw
      BY <2>3, <2>6, <3>1, <3>3
    <3> QED BY <2>3, <3>1, <3>4, <3>5
  <2>8. money' \in [Players -> Nat] /\ \A q \in online' : money'[q] = future.money[q]
    <3>1. /\ money \in [Players -> Nat] /\ \A q \in online : money[q] = future.money[q]
          /\ db.money \in [Players -> Nat]
      BY <1>1 DEF MemoryOk, Tables
    <3>2. db.money[p] = future.money[p]
      BY <2>4 DEF RowsKept
    <3> QED BY <1>1, <2>3, <2>4, <3>1, <3>2
  <2>9. MemoryOk'
    BY <1>1, <1>4, <2>3, <2>7, <2>8 DEF MemoryOk
  <2> QED BY <2>5, <2>9
<1> QED BY <1>5, <1>6

\* Nobody is in the world, nothing waits, and the auctions are those of the tables.
Fresh ==
    /\ db \in Tables /\ Sound(db) /\ future = db /\ queue = <<>> /\ refused = FALSE
    /\ online = {} /\ loaded = {} /\ trash = {}
    /\ inv = [p \in Players |-> {}]
    /\ money = [p \in Players |-> 0]
    /\ updateQueue = [p \in Players |-> {}]
    /\ uState = [i \in Items |-> "unchanged"]
    /\ mails = [p \in Players |-> NoMails]
    /\ auctions = db.auction

\* A server that starts.
LEMMA FreshInv == Fresh => MailInv
<1> SUFFICES ASSUME Fresh PROVE MailInv
  OBVIOUS
<1>1. Chained
  BY ChainNew DEF Fresh
<1>2. /\ MailOk(future.mail, future.auction)
      /\ PlacesSound(future.inventory, future.instances, Elsewhere(future.mail, future.auction))
  BY DEF Fresh, Sound, MailOk, Tables
<1>3. ItemTypes(inv, updateQueue, uState, future.inventory)
  BY DEF Fresh, ItemTypes, Tables
<1>4. ItemSync(online, inv, updateQueue, uState, future.inventory,
               Elsewhere(future.mail, future.auction))
  BY DEF Fresh, ItemSync
<1>5. mails \in [Players -> [MailIds -> Mail \cup {None}]] /\ MailSync(mails, loaded, future.mail)
  BY DEF Fresh, MailSync, NoMails
<1>6. money \in [Players -> Nat]
  BY DEF Fresh
<1>7. MemoryOk
  BY <1>2, <1>3, <1>4, <1>5, <1>6 DEF MemoryOk, ItemOk, Fresh
<1> QED BY <1>1, <1>7, MailInvParts

\* The server dies and comes back.
LEMMA CrashInv ==
    ASSUME MailInv, Crash
    PROVE  MailInv'
<1>1. db \in Tables /\ Sound(db) /\ refused = FALSE
  BY Before DEF MemoryOk
<1>2. auctions' = db.auction
  <2>1. auctions' = [i \in Items |-> IF i \in db.instances THEN db.auction[i] ELSE None]
    BY DEF Crash
  <2>2. db.auction \in [Items -> Auction \cup {None}]
    BY <1>1 DEF Tables
  <2>3. \A i \in Items : db.auction[i] # None => i \in db.instances
    BY <1>1 DEF Sound, PlacesSound, Elsewhere
  <2> QED BY <2>1, <2>2, <2>3
<1>3. Fresh'
  BY <1>1, <1>2 DEF Crash, Fresh
<1> QED BY <1>3, FreshInv, PTL

\* The server starts for the first time.
LEMMA InitInv == Init => MailInv
<1> SUFFICES ASSUME Init PROVE MailInv
  OBVIOUS
<1>1. Auctioned \subseteq Auction
  BY MailAuctionAssumption DEF Auctioned, Auction
<1>2. auctions \in [Items -> Auction \cup {None}]
  BY <1>1 DEF Init
<1>3. /\ db.inventory = [i \in Items |-> None] /\ db.instances = {i \in Items : auctions[i] # None}
      /\ db.money = InitialMoney /\ db.mail = NoMails /\ db.auction = auctions
      /\ db = [inventory |-> db.inventory, instances |-> db.instances, money |-> db.money,
               mail |-> db.mail, auction |-> db.auction]
  BY DEF Init
<1>4. /\ db.inventory \in [Items -> Players \cup {None}] /\ db.instances \in SUBSET Items
      /\ db.money \in [Players -> Nat] /\ db.mail \in [MailIds -> Mail \cup {None}]
      /\ db.auction \in [Items -> Auction \cup {None}]
  BY <1>2, <1>3, MailAuctionAssumption DEF NoMails
<1>5. db \in Tables
  BY ONLY <1>3, <1>4 DEF Tables
<1>6. Sound(db)
  <2>1. \A id \in MailIds : db.mail[id] = None
    BY <1>3 DEF NoMails
  <2>2. MailSound(db.mail, db.auction)
    BY <2>1 DEF MailSound
  <2>3. PlacesSound(db.inventory, db.instances, Elsewhere(db.mail, db.auction))
    BY <1>3, <2>1 DEF PlacesSound, Elsewhere
  <2> QED BY <2>2, <2>3 DEF Sound
<1>7. Fresh
  BY <1>3, <1>5, <1>6 DEF Init, Fresh
<1> QED BY <1>7, FreshInv

-----------------------------------------------------------------------------
(***************************************************************************)
(* Every step                                                               *)
(***************************************************************************)

\* The numbers that handlers get.
LEMMA InputNumbers ==
    /\ 0..MaxSent \subseteq Nat /\ 1..MaxPrice \subseteq Nat /\ Buyouts \subseteq Nat
  BY MailAuctionAssumption

\* The invariant is inductive.
LEMMA NextInv ==
    ASSUME ~PostToOnline, MailInv, [Next]_vars
    PROVE  MailInv'
<1>1. CASE UNCHANGED vars
  <2>1. /\ UNCHANGED <<queue, db, future, refused, online, money, auctions>>
        /\ UNCHANGED <<inv, updateQueue, uState, mails, loaded, trash>>
    BY <1>1 DEF vars, memory
  <2>2. MemoryOk
    BY Before
  <2>3. loaded \subseteq loaded' /\ loaded' \subseteq online /\ trash' \subseteq MailIds
    BY <2>1, <2>2 DEF MemoryOk
  <2>4. ItemOk(online, inv', updateQueue', uState', future.inventory, future.instances,
               Elsewhere(future.mail, future.auction))
    BY <2>1, <2>2 DEF MemoryOk
  <2>5. /\ mails' \in [Players -> [MailIds -> Mail \cup {None}]]
        /\ MailSync(mails', loaded', future.mail)
    BY <2>1, <2>2 DEF MemoryOk
  <2> QED BY ONLY MailInv, <2>1, <2>3, <2>4, <2>5, NotCommitted
<1>2. ASSUME NEW p \in Players, NEW q \in Players, NEW items \in {{}} \cup {{i} : i \in Items},
             NEW m \in 0..MaxSent, NEW cod \in 0..MaxSent, HandleSendMail(p, q, items, m, cod)
      PROVE  MailInv'
  BY <1>2, InputNumbers, SendMailInv
<1>3. ASSUME NEW p \in Players, NEW id \in MailIds, NEW i \in Items, HandleMailTakeItem(p, id, i)
      PROVE  MailInv'
  BY <1>3, MailTakeItemInv
<1>4. ASSUME NEW p \in Players, NEW id \in MailIds,
             \/ HandleMailTakeMoney(p, id) \/ HandleMailReturnToSender(p, id)
             \/ HandleMailDelete(p, id)
      PROVE  MailInv'
  BY <1>4, MailTakeMoneyInv, MailReturnToSenderInv, MailDeleteInv
<1>5. ASSUME NEW p \in Players, NEW i \in Items, NEW buyout \in Buyouts,
             HandleAuctionSellItem(p, i, buyout)
      PROVE  MailInv'
  BY <1>5, InputNumbers, AuctionSellItemInv
<1>6. ASSUME NEW p \in Players, NEW i \in Items, NEW price \in 1..MaxPrice,
             HandleAuctionPlaceBid(p, i, price)
      PROVE  MailInv'
  BY <1>6, InputNumbers, AuctionPlaceBidInv
<1>7. ASSUME NEW p \in Players, NEW i \in Items,
             \/ HandleAuctionRemoveItem(p, i) \/ StoreNewItem(p, i) \/ ChangeItem(p, i)
             \/ DestroyItem(p, i)
      PROVE  MailInv'
  BY <1>7, AuctionRemoveItemInv, StoreNewItemInv, ChangeItemInv, DestroyItemInv
<1>8. ASSUME NEW p \in Players, NEW i \in Items, NEW q \in Players, NEW m \in 0..MaxSent,
             TradeItem(p, q, i, m)
      PROVE  MailInv'
  BY <1>8, InputNumbers, TradeItemInv
<1>9. ASSUME NEW p \in Players,
             \/ HandleGetMailList(p) \/ SaveToDB(p) \/ LogoutPlayer(p) \/ HandlePlayerLogin(p)
      PROVE  MailInv'
  BY <1>9, GetMailListInv, SaveToDBInv, LogoutPlayerInv, PlayerLoginInv
<1>10. ASSUME NEW i \in Items, AuctionExpires(i) PROVE MailInv'
  BY <1>10, AuctionExpiresInv
<1>11. CASE ExecuteTask \/ Crash
  BY <1>11, ExecuteTaskInv, CrashInv
<1> QED BY <1>1, <1>2, <1>3, <1>4, <1>5, <1>6, <1>7, <1>8, <1>9, <1>10, <1>11 DEF Next

\* The invariant holds at every moment.
THEOREM MailSpecInv ==
    ASSUME ~PostToOnline PROVE Spec => []MailInv
<1>1. MailInv /\ [Next]_vars => MailInv'
  BY NextInv
<1> QED BY <1>1, InitInv, PTL DEF Spec

\* StoreNewItem takes nothing away.
LEMMA StoreNewItemKeeps ==
    ASSUME MailInv, NEW p \in Players, NEW i \in Items, StoreNewItem(p, i)
    PROVE  KeepsItems
<1>1. inv \in [Players -> SUBSET Items] /\ updateQueue \in [Players -> SUBSET Items]
  BY Before
<1>2. /\ inv' = [inv EXCEPT ![p] = @ \cup {i}] /\ future' = future
      /\ updateQueue' = [updateQueue EXCEPT ![p] = @ \cup {i}]
  BY DEF StoreNewItem
<1>3. \A q \in Players : inv[q] \subseteq inv'[q] /\ updateQueue[q] \subseteq updateQueue'[q]
  BY <1>1, <1>2
<1> QED BY <1>2, <1>3, NothingTaken

\* DestroyItem takes a new item, or leaves its removal to the update queue.
LEMMA DestroyItemKeeps ==
    ASSUME MailInv, NEW p \in Players, NEW i \in Items, DestroyItem(p, i)
    PROVE  KeepsItems
<1>1. inv \in [Players -> SUBSET Items] /\ updateQueue \in [Players -> SUBSET Items]
  BY Before
<1>2. /\ inv' = [inv EXCEPT ![p] = @ \ {i}] /\ future' = future /\ queue' = queue
      /\ \/ /\ uState[i] = "new" /\ updateQueue' = [updateQueue EXCEPT ![p] = @ \ {i}]
         \/ /\ uState[i] # "new" /\ updateQueue' = [updateQueue EXCEPT ![p] = @ \cup {i}]
  BY DEF DestroyItem
<1>3. \A j \in Items : \A q \in Players :
          j # i /\ j \in inv[q] \cup updateQueue[q] => j \in inv'[q] \cup updateQueue'[q]
  BY <1>1, <1>2
<1>4. uState[i] = "new" \/ i \in updateQueue'[p]
  BY <1>1, <1>2
<1>5. ASSUME NEW j \in Items, Known(j), ~Known(j)' PROVE j = i /\ uState[i] = "new"
  BY <1>2, <1>3, <1>4, <1>5 DEF Known
<1> QED BY <1>2, <1>5 DEF KeepsItems

\* A player who comes into the world takes nothing.
LEMMA ExecuteTaskKeeps ==
    ASSUME MailInv, ExecuteTask
    PROVE  KeepsItems \/ <<future, inv>>' = <<future, inv>>
<1>1. future' = future
  BY DEF ExecuteTask
<1>2. CASE Head(queue).login = None
  BY <1>1, <1>2 DEF ExecuteTask, memory
<1>3. CASE Head(queue).login # None
  <2>1. PICK p : p = Head(queue).login
    OBVIOUS
  <2>2. PICK X : X = {i \in db.instances : db.inventory[i] = p}
    OBVIOUS
  <2>3. inv' = [inv EXCEPT ![p] = X] /\ updateQueue' = updateQueue /\ online' = online \cup {p}
        /\ loaded' = loaded /\ db' = db
    BY <1>3, <2>1, <2>2 DEF ExecuteTask, LoadFromDB
  <2>4. PICK st : Chain(st)
    BY DEF MailInv, Chained
  <2>5. queue # <<>> /\ queue' = Tail(queue)
    BY DEF ExecuteTask
  <2>6. p \in Players \ online
    BY <1>1, <1>3, <2>1, <2>3, <2>4, <2>5, ChainShrinks
  <2>7. inv[p] = {} /\ inv \in [Players -> SUBSET Items]
    BY <2>6, Before DEF MemoryOk, ItemOk, ItemSync
  <2>8. \A q \in Players : inv[q] \subseteq inv'[q]
    BY <2>3, <2>6, <2>7
  <2> QED BY <1>1, <2>3, <2>8, NothingTaken
<1> QED BY <1>2, <1>3

\* No step but a crash loses an item.
LEMMA NextKeeps ==
    ASSUME ~PostToOnline, MailInv, Next
    PROVE  Crash \/ KeepsItems \/ <<future, inv>>' = <<future, inv>>
<1>1. ASSUME NEW p \in Players, NEW q \in Players, NEW items \in {{}} \cup {{i} : i \in Items},
             NEW m \in 0..MaxSent, NEW cod \in 0..MaxSent, HandleSendMail(p, q, items, m, cod)
      PROVE  KeepsItems
  BY <1>1, InputNumbers, SendMailInv
<1>2. ASSUME NEW p \in Players, NEW id \in MailIds, NEW i \in Items, HandleMailTakeItem(p, id, i)
      PROVE  KeepsItems
  BY <1>2, MailTakeItemInv
<1>3. ASSUME NEW p \in Players, NEW id \in MailIds,
             HandleMailTakeMoney(p, id) \/ HandleMailReturnToSender(p, id)
      PROVE  KeepsItems
  BY <1>3, MailTakeMoneyInv, MailReturnToSenderInv
<1>4. ASSUME NEW p \in Players, NEW i \in Items, NEW buyout \in Buyouts,
             HandleAuctionSellItem(p, i, buyout)
      PROVE  KeepsItems
  BY <1>4, InputNumbers, AuctionSellItemInv
<1>5. ASSUME NEW p \in Players, NEW i \in Items, NEW price \in 1..MaxPrice,
             HandleAuctionPlaceBid(p, i, price)
      PROVE  KeepsItems
  BY <1>5, InputNumbers, AuctionPlaceBidInv
<1>6. ASSUME NEW p \in Players, NEW i \in Items,
             HandleAuctionRemoveItem(p, i) \/ StoreNewItem(p, i) \/ DestroyItem(p, i)
      PROVE  KeepsItems
  BY <1>6, AuctionRemoveItemInv, StoreNewItemKeeps, DestroyItemKeeps
<1>7. ASSUME NEW p \in Players, NEW i \in Items, NEW q \in Players, NEW m \in 0..MaxSent,
             TradeItem(p, q, i, m)
      PROVE  KeepsItems
  BY <1>7, InputNumbers, TradeItemInv
<1>8. ASSUME NEW p \in Players, SaveToDB(p) \/ LogoutPlayer(p)
      PROVE  KeepsItems
  BY <1>8, SaveToDBInv, LogoutPlayerInv
<1>9. ASSUME NEW i \in Items, AuctionExpires(i) PROVE KeepsItems
  BY <1>9, AuctionExpiresInv
<1>10. CASE ExecuteTask
  BY <1>10, ExecuteTaskKeeps
<1>11. ASSUME NEW p \in Players,
              \/ HandleGetMailList(p) \/ HandlePlayerLogin(p)
              \/ \E id \in MailIds : HandleMailDelete(p, id)
              \/ \E i \in Items : ChangeItem(p, i)
       PROVE  <<future, inv>>' = <<future, inv>>
  BY <1>11 DEF HandleGetMailList, HandlePlayerLogin, HandleMailDelete, ChangeItem, memory
<1> QED BY <1>1, <1>2, <1>3, <1>4, <1>5, <1>6, <1>7, <1>8, <1>9, <1>10, <1>11 DEF Next

-----------------------------------------------------------------------------
(***************************************************************************)
(* What it means                                                            *)
(***************************************************************************)

\* An item in sound tables has one place at most.
LEMMA SoundPlaces ==
    ASSUME NEW d \in Tables, Sound(d), NEW i \in Items
    PROVE  Places(d, i) <= 1 /\ (Places(d, i) = 1 => i \in d.instances)
<1>1. PICK M : M = {id \in MailIds : d.mail[id] # None /\ i \in d.mail[id].items}
  OBVIOUS
<1>2. Places(d, i) =   (IF d.inventory[i] = None THEN 0 ELSE 1)
                     + (IF d.auction[i] = None THEN 0 ELSE 1) + Cardinality(M)
  BY <1>1 DEF Places
<1>3. PICK E : E = Elsewhere(d.mail, d.auction)
  OBVIOUS
<1>4. /\ d.inventory[i] # None => i \notin E
      /\ d.inventory[i] # None \/ i \in E => i \in d.instances
  BY <1>3 DEF Sound, PlacesSound
<1>5. i \in E <=> d.auction[i] # None \/ M # {}
  BY <1>1, <1>3 DEF Elsewhere
<1>6. M # {} => d.auction[i] = None /\ \E id : M = {id}
  <2>1. SUFFICES ASSUME NEW id \in M PROVE d.auction[i] = None /\ M = {id}
    OBVIOUS
  <2>2. \A k \in M : k = id
    BY <1>1 DEF Sound, MailSound
  <2>3. d.auction[i] = None
    BY <1>1 DEF Sound, MailSound
  <2> QED BY <2>2, <2>3
<1>7. /\ M = {} => Cardinality(M) = 0
      /\ M # {} => Cardinality(M) = 1
  BY <1>6, FS_EmptySet, FS_Singleton
<1> QED BY <1>2, <1>4, <1>5, <1>6, <1>7

\* No item is in two places of the tables.
LEMMA InvOnePlace == MailInv => OnePlace
<1> SUFFICES ASSUME MailInv PROVE OnePlace
  OBVIOUS
<1>1. /\ MemoryOk /\ future \in Tables /\ db \in Tables /\ Sound(db)
      /\ online \subseteq Players
      /\ future.auction \in [Items -> Auction \cup {None}]
      /\ inv \in [Players -> SUBSET Items] /\ updateQueue \in [Players -> SUBSET Items]
      /\ uState \in [Items -> {"new", "changed", "removed", "unchanged"}]
  BY Before
<1>2. TypeOK
  <2>1. /\ loaded \subseteq online /\ money \in [Players -> Nat] /\ trash \subseteq MailIds
        /\ mails \in [Players -> [MailIds -> Mail \cup {None}]] /\ refused = FALSE
        /\ auctions = future.auction
    BY <1>1 DEF MemoryOk
  <2>2. db.money \in [Players -> Nat]
    BY <1>1 DEF Tables
  <2>3. \A p \in Players : \A id \in MailIds : mails[p][id] \in {None} \cup Mail
    BY <2>1
  <2> QED BY <1>1, <2>1, <2>2, <2>3 DEF TypeOK
<1>3. \A i \in Items : Places(db, i) <= 1 /\ (Places(db, i) = 1 => i \in db.instances)
  BY <1>1, SoundPlaces
<1> QED BY <1>2, <1>3 DEF OnePlace

\* The tables to come hold what memory holds.
LEMMA InvDurable == MailInv => Durable
<1> SUFFICES ASSUME MailInv PROVE Durable
  OBVIOUS
<1>1. MemoryOk /\ online \subseteq Players
  BY Before
<1>2. /\ ItemSync(online, inv, updateQueue, uState, future.inventory,
                  Elsewhere(future.mail, future.auction))
      /\ ItemTypes(inv, updateQueue, uState, future.inventory)
  BY <1>1 DEF MemoryOk, ItemOk
<1>3. ~refused /\ auctions = future.auction /\ \A p \in online : money[p] = future.money[p]
  BY <1>1 DEF MemoryOk
<1>4. UpdateQueueSound
  BY <1>2 DEF UpdateQueueSound, ItemSync
<1>5. queue = <<>> => db = future
  <2>1. PICK st : Chain(st)
    BY DEF MailInv, Chained
  <2>2. queue = <<>> => Len(queue) = 0
    OBVIOUS
  <2> QED BY <2>1, <2>2 DEF Chain, Linked
<1>6. ASSUME NEW p \in online
      PROVE  {i \in Items : future.inventory[i] = p} =
                {i \in inv[p] : uState[i] # "new"} \cup
                {i \in updateQueue[p] : uState[i] = "removed"}
  <2>1. p \in Players /\ inv[p] \subseteq Items /\ updateQueue[p] \subseteq Items
    BY <1>1, <1>2 DEF ItemTypes
  <2>2. \A i \in Items :
          future.inventory[i] = p <=> \/ i \in inv[p] /\ uState[i] # "new"
                                      \/ i \in updateQueue[p] /\ uState[i] = "removed"
    BY <1>2 DEF ItemSync
  <2> QED BY <2>1, <2>2
<1>7. ASSUME NEW p \in online, NEW i \in inv[p], uState[i] # "unchanged"
      PROVE  i \in updateQueue[p]
  BY <1>1, <1>2, <1>7 DEF ItemSync
<1>8. \A p \in loaded : \A id \in MailIds :
          mails[p][id] # None => future.mail[id] = mails[p][id]
  BY <1>1 DEF MemoryOk, MailSync
<1> QED BY <1>3, <1>4, <1>5, <1>6, <1>7, <1>8 DEF Durable

\* In the tables, as they are whenever the server may die, no item is in two of
\* inventory, mail and auction, and what has a place has an instance (Player.cpp,
\* Mail.cpp and AuctionHouseMgr.cpp write these tables in transactions).
THEOREM ItemsInOnePlace ==
    ASSUME ~PostToOnline PROVE Spec => []OnePlace
  BY MailSpecInv, InvOnePlace, PTL

\* Once what waits is executed the tables hold what memory holds, no transaction
\* is rolled back, and no update queue holds another player's item.
THEOREM MemoryIsDurable ==
    ASSUME ~PostToOnline PROVE Spec => []Durable
  BY MailSpecInv, InvDurable, PTL

\* Without a crash no item is lost that has a place in memory or in the tables to
\* come, but those that are destroyed or thrown away with a mail.
THEOREM NoItemIsLost ==
    ASSUME ~PostToOnline PROVE Spec => ItemsKept
<1>1. MailInv /\ [Next]_vars =>
          [<<future, inv>>' # <<future, inv>> /\ ~Crash => KeepsItems]_vars
  <2>1. CASE UNCHANGED vars
    BY <2>1
  <2>2. ASSUME MailInv, Next
        PROVE  <<future, inv>>' # <<future, inv>> /\ ~Crash => KeepsItems
    BY <2>2, NextKeeps
  <2> QED BY <2>1, <2>2
<1> QED BY <1>1, MailSpecInv, PTL DEF Spec, ItemsKept
=============================================================================
