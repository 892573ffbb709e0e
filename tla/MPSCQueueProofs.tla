--------------------------- MODULE MPSCQueueProofs ---------------------------
(***************************************************************************)
(* Proofs about MPSCQueue, for any producers, heap and number of calls: no  *)
(* thread touches deleted memory, and the list is a FIFO queue.             *)
(***************************************************************************)
EXTENDS MPSCQueue, FiniteSetTheorems, NaturalsInduction, SequenceTheorems, TLAPS

\* c is the list of the nodes from _tail to _head, without repetition.
Ordered(c) ==
    /\ c \in Seq(Nodes) /\ Len(c) > 0
    /\ c[1] = tail /\ c[Len(c)] = head
    /\ \A i, j \in 1..Len(c) : c[i] = c[j] => i = j

\* The links are those of c, but for the ones that a producer has still to write.
Linked(c) ==
    /\ \A i \in 1..(Len(c) - 1) :
          \/ heap[c[i]].next = c[i + 1]
          \/ /\ heap[c[i]].next = Nil
             /\ \E p \in Producers : /\ prod[p].pc = "link"
                                     /\ prod[p].prev = c[i]
                                     /\ prod[p].node = c[i + 1]
    /\ heap[head].next = Nil
    /\ \A p \in Producers : prod[p].pc = "link" =>
          \E i \in 1..(Len(c) - 1) : /\ prod[p].prev = c[i]
                                     /\ prod[p].node = c[i + 1]
                                     /\ heap[c[i]].next = Nil

\* A node whose producer is before the exchange is his alone.
Pending(c) ==
    /\ \A p \in Producers : prod[p].pc = "exchange" =>
          /\ prod[p].node \in Nodes
          /\ heap[prod[p].node] = Node(<<p, sent[p] + 1>>)
          /\ sent[p] < MaxItems
          /\ \A i \in 1..Len(c) : c[i] # prod[p].node
    /\ \A p, q \in Producers :
          /\ prod[p].pc # "idle" /\ prod[q].pc # "idle"
          /\ prod[p].node = prod[q].node
          => p = q

\* The memory in use is that of the list, of the nodes before their exchange and
\* of the one the consumer is about to delete.
Allocated(c) ==
    /\ cpc # "gone" => \A i \in 1..Len(c) : heap[c[i]].used
    /\ \A n \in Nodes : heap[n].used =>
          \/ \E i \in 1..Len(c) : c[i] = n
          \/ \E p \in Producers : prod[p].pc = "exchange" /\ prod[p].node = n
          \/ cpc = "delete" /\ old = n

\* Where the consumer is.
Consuming(c) ==
    /\ cpc = "take" => /\ Len(c) > 1 /\ old = tail
                       /\ next = c[2] /\ heap[tail].next = c[2]
    /\ cpc = "delete" =>
          /\ old \in Nodes /\ heap[old].used
          /\ \A i \in 1..Len(c) : c[i] # old
          /\ \A p \in Producers : prod[p].pc = "exchange" => prod[p].node # old
    /\ cpc = "gone" => Len(c) = 1 /\ closing /\ ~heap[head].used
    /\ closing => \A p \in Producers : prod[p].pc = "idle"

\* The inductive invariant, for the list c.
QueueInv(c) ==
    TypeOK /\ Ordered(c) /\ Linked(c) /\ Pending(c) /\ Allocated(c) /\ Consuming(c)

-----------------------------------------------------------------------------
\* What the constructor of a node sets.
LEMMA NodeFields ==
    /\ \A d : Node(d).used /\ Node(d).data = d /\ Node(d).next = Nil
    /\ Free.used = FALSE /\ Free.data = NoValue /\ Free.next = Nil
  BY DEF Node, Free, NoValue

\* The values a node holds.
Data == {NoValue} \cup (Producers \X (1..MaxItems))
NodeType == [used : BOOLEAN, data : Data, next : Nodes \cup {Nil}]
CallType == [pc : {"idle", "exchange", "link"}, node : Nodes \cup {Nil},
             prev : Nodes \cup {Nil}]

\* New and deleted nodes, and calls that are over, have their types.
LEMMA NodeTypes ==
    /\ \A d \in Data : Node(d) \in NodeType
    /\ Free \in NodeType /\ Node(NoValue) \in NodeType
    /\ Idle \in CallType /\ Idle.pc = "idle"
<1>1. NoValue \in Data
  BY DEF Data
<1>2. \A d \in Data : Node(d) \in NodeType
  BY DEF Node, NodeType
<1>3. Free = [used |-> FALSE, data |-> NoValue, next |-> Nil]
  BY DEF Free, NoValue
<1>4. Free \in NodeType
  BY <1>1, <1>3 DEF NodeType
<1>5. Idle \in CallType /\ Idle.pc = "idle"
  BY DEF CallType, Idle
<1> QED BY <1>1, <1>2, <1>4, <1>5

-----------------------------------------------------------------------------
(***************************************************************************)
(* The steps: how each one changes the list                                 *)
(***************************************************************************)

\* The constructor makes a list of one node.
LEMMA InitInv ==
    ASSUME Init
    PROVE  \E c \in Seq(Nodes) : QueueInv(c) /\ Len(c) = 1
<1>1. PICK n \in Nodes :
        /\ heap = [x \in Nodes |-> IF x = n THEN Node(NoValue) ELSE Free]
        /\ head = n /\ tail = n
  BY DEF Init
<1>2. /\ prod = [p \in Producers |-> Idle]
      /\ cpc = "idle" /\ next = Nil /\ old = Nil /\ closing = FALSE
      /\ sent = [p \in Producers |-> 0]
      /\ result = NoValue
  BY DEF Init
<1> DEFINE c == <<n>>
<1>3. c \in Seq(Nodes) /\ Len(c) = 1 /\ c[1] = n
  OBVIOUS
<1> HIDE DEF c
<1>4. TypeOK
  <2>1. /\ heap \in [Nodes -> NodeType] /\ prod \in [Producers -> CallType]
        /\ result \in Data
    BY <1>1, <1>2, NodeTypes DEF Data
  <2>2. sent \in [Producers -> 0..MaxItems]
    BY <1>2, QueueAssumption
  <2>3. /\ head \in Nodes /\ tail \in Nodes /\ closing \in BOOLEAN
        /\ cpc \in {"idle", "take", "delete", "gone"}
        /\ next \in Nodes \cup {Nil} /\ old \in Nodes \cup {Nil}
    BY <1>1, <1>2
  <2> QED BY <2>1, <2>2, <2>3 DEF TypeOK, NodeType, CallType, Data
<1>5. Ordered(c)
  BY <1>1, <1>3 DEF Ordered
<1>6. Linked(c)
  BY <1>1, <1>2, <1>3, NodeFields DEF Linked, Idle
<1>7. Pending(c)
  BY <1>2 DEF Pending, Idle
<1>8. Allocated(c)
  BY <1>1, <1>2, <1>3, NodeFields DEF Allocated, Idle
<1>9. Consuming(c)
  BY <1>2 DEF Consuming, Idle
<1> QED BY <1>3, <1>4, <1>5, <1>6, <1>7, <1>8, <1>9 DEF QueueInv

\* new Node(input) leaves the list as it is.
LEMMA NewNodeInv ==
    ASSUME NEW c, QueueInv(c), NEW p \in Producers, NEW n \in Nodes, NewNode(p, n)
    PROVE  QueueInv(c)' /\ \A i \in 1..Len(c) : heap'[c[i]] = heap[c[i]]
<1> USE DEF QueueInv
<1> DEFINE new == [pc |-> "exchange", node |-> n, prev |-> Nil]
<1>1. /\ heap' = [heap EXCEPT ![n] = Node(<<p, sent[p] + 1>>)]
      /\ prod' = [prod EXCEPT ![p] = new]
      /\ prod[p].pc = "idle" /\ sent[p] < MaxItems /\ ~closing /\ ~heap[n].used
      /\ head' = head /\ tail' = tail /\ sent' = sent /\ result' = result
      /\ cpc' = cpc /\ next' = next /\ old' = old /\ closing' = closing
  BY DEF NewNode, consumerVars
<1>2. c \in Seq(Nodes) /\ Len(c) \in Nat /\ \A i \in 1..Len(c) : c[i] \in Nodes
  BY ElementOfSeq DEF Ordered
<1>3. /\ heap'[n] = Node(<<p, sent[p] + 1>>) /\ prod'[p] = new
      /\ \A m \in Nodes \ {n} : heap'[m] = heap[m]
      /\ \A q \in Producers \ {p} : prod'[q] = prod[q]
  BY <1>1 DEF TypeOK
<1> HIDE DEF new
<1>n. new.pc = "exchange" /\ new.node = n /\ new.prev = Nil
  BY DEF new
<1>4. \A i \in 1..Len(c) : c[i] # n
  BY <1>1, <1>2 DEF Allocated, Consuming
<1>5. \A i \in 1..Len(c) : heap'[c[i]] = heap[c[i]]
  BY <1>2, <1>3, <1>4
<1>6. TypeOK'
  <2>1. <<p, sent[p] + 1>> \in Data
    BY <1>1, QueueAssumption DEF Data, TypeOK
  <2>2. Node(<<p, sent[p] + 1>>) \in NodeType /\ new \in CallType
    BY <2>1, NodeTypes DEF new, CallType
  <2> QED BY <1>1, <2>2 DEF TypeOK, NodeType, CallType, Data
<1>7. Ordered(c)'
  BY <1>1 DEF Ordered
<1>8. Linked(c)'
  <2>1. head \in Nodes /\ head # n
    BY <1>2, <1>4 DEF Ordered
  <2>2. ASSUME NEW i \in 1..(Len(c) - 1)
        PROVE  \/ heap'[c[i]].next = c[i + 1]
               \/ /\ heap'[c[i]].next = Nil
                  /\ \E q \in Producers : /\ prod'[q].pc = "link"
                                          /\ prod'[q].prev = c[i]
                                          /\ prod'[q].node = c[i + 1]
    <3>1. i \in 1..Len(c)
      BY <1>2
    <3>2. heap'[c[i]] = heap[c[i]]
      BY <1>5, <3>1
    <3>3. prod[p].pc = "idle"
      BY <1>1
    <3>4. \/ heap[c[i]].next = c[i + 1]
          \/ /\ heap[c[i]].next = Nil
             /\ \E q \in Producers : /\ prod[q].pc = "link"
                                     /\ prod[q].prev = c[i]
                                     /\ prod[q].node = c[i + 1]
      BY DEF Linked
    <3>5. ASSUME NEW q \in Producers, prod[q].pc = "link"
          PROVE  prod'[q] = prod[q]
      BY <1>3, <3>3, <3>5
    <3> QED BY <3>2, <3>4, <3>5
  <2>3. ASSUME NEW q \in Producers, prod'[q].pc = "link"
        PROVE  \E i \in 1..(Len(c) - 1) : /\ prod'[q].prev = c[i]
                                          /\ prod'[q].node = c[i + 1]
                                          /\ heap'[c[i]].next = Nil
    <3>1. prod'[q] = prod[q]
      BY <1>3, <1>n, <2>3
    <3>2. PICK i \in 1..(Len(c) - 1) : /\ prod[q].prev = c[i]
                                       /\ prod[q].node = c[i + 1]
                                       /\ heap[c[i]].next = Nil
      BY <2>3, <3>1 DEF Linked
    <3>3. heap'[c[i]] = heap[c[i]]
      BY <1>2, <1>5
    <3> QED BY <3>1, <3>2, <3>3
  <2>4. heap'[head'].next = Nil
    BY <1>1, <1>3, <2>1 DEF Linked
  <2> QED BY <2>2, <2>3, <2>4 DEF Linked
<1>9. Pending(c)'
  <2>1. ASSUME NEW q \in Producers, q # p, prod[q].pc # "idle"
        PROVE  prod[q].node # n /\ prod[q].node \in Nodes
    <3>1. CASE prod[q].pc = "exchange"
      <4>1. /\ prod[q].node \in Nodes
            /\ heap[prod[q].node] = Node(<<q, sent[q] + 1>>)
        BY <3>1 DEF Pending
      <4>2. heap[prod[q].node].used
        BY <4>1, NodeFields
      <4> QED BY <1>1, <4>1, <4>2
    <3>2. CASE prod[q].pc = "link"
      BY <1>2, <1>4, <2>1, <3>2 DEF Linked
    <3> QED BY <2>1, <3>1, <3>2 DEF TypeOK
  <2>2. ASSUME NEW q \in Producers, prod'[q].pc = "exchange"
        PROVE  /\ prod'[q].node \in Nodes
               /\ heap'[prod'[q].node] = Node(<<q, sent'[q] + 1>>)
               /\ sent'[q] < MaxItems
               /\ \A i \in 1..Len(c) : c[i] # prod'[q].node
    <3>1. CASE q = p
      BY <1>1, <1>3, <1>4, <1>n, <3>1
    <3>2. CASE q # p
      BY <1>1, <1>3, <2>1, <2>2, <3>2 DEF Pending
    <3> QED BY <3>1, <3>2
  <2>3. ASSUME NEW q \in Producers, NEW r \in Producers,
               prod'[q].pc # "idle", prod'[r].pc # "idle",
               prod'[q].node = prod'[r].node
        PROVE  q = r
    BY <1>3, <1>n, <2>1, <2>3 DEF Pending
  <2> QED BY <2>2, <2>3 DEF Pending
<1>10. Allocated(c)'
  <2>1. ASSUME NEW m \in Nodes, heap'[m].used
        PROVE  \/ \E i \in 1..Len(c) : c[i] = m
               \/ \E q \in Producers : prod'[q].pc = "exchange" /\ prod'[q].node = m
               \/ cpc' = "delete" /\ old' = m
    <3>1. CASE m = n
      BY <1>3, <1>n, <3>1, NodeFields
    <3>2. CASE m # n
      BY <1>1, <1>3, <2>1, <3>2 DEF Allocated
    <3> QED BY <3>1, <3>2
  <2>2. cpc' # "gone" => \A i \in 1..Len(c) : heap'[c[i]].used
    BY <1>1, <1>5 DEF Allocated
  <2> QED BY <2>1, <2>2 DEF Allocated
<1>11. Consuming(c)'
  <2>1. tail \in Nodes /\ tail # n /\ cpc # "gone"
    BY <1>1, <1>4, <1>2 DEF Ordered, Consuming
  <2>2. cpc' = "delete" =>
          /\ old' \in Nodes /\ heap'[old'].used
          /\ \A i \in 1..Len(c) : c[i] # old'
          /\ \A q \in Producers : prod'[q].pc = "exchange" => prod'[q].node # old'
    BY <1>1, <1>3, <1>n DEF Consuming
  <2> QED BY <2>1, <2>2, <1>1, <1>3 DEF Consuming
<1> QED BY <1>5, <1>6, <1>7, <1>8, <1>9, <1>10, <1>11

\* The exchange puts the node at the end of the list.
LEMMA ExchangeInv ==
    ASSUME NEW c, QueueInv(c), NEW p \in Producers, Exchange(p)
    PROVE  \E n \in Nodes : n = prod[p].node /\ QueueInv(Append(c, n))'
<1> USE DEF QueueInv
<1>n. PICK n \in Nodes : n = prod[p].node
  BY DEF Exchange, Pending
<1> DEFINE d == Append(c, n)
           k == Len(c)
<1>1. /\ prod[p].pc = "exchange"
      /\ prod' = [prod EXCEPT ![p].pc = "link", ![p].prev = head]
      /\ head' = n /\ sent' = [sent EXCEPT ![p] = @ + 1]
      /\ heap' = heap /\ tail' = tail /\ result' = result
      /\ cpc' = cpc /\ next' = next /\ old' = old /\ closing' = closing
  BY <1>n DEF Exchange, consumerVars
<1>2. /\ n \in Nodes /\ heap[n] = Node(<<p, sent[p] + 1>>) /\ sent[p] < MaxItems
      /\ \A i \in 1..k : c[i] # n
  BY <1>1, <1>n DEF Pending
<1>3. /\ c \in Seq(Nodes) /\ k \in Nat /\ k > 0
      /\ c[1] = tail /\ c[k] = head /\ \A i \in 1..k : c[i] \in Nodes
      /\ \A i, j \in 1..k : c[i] = c[j] => i = j
  BY ElementOfSeq DEF Ordered
<1>4. /\ d \in Seq(Nodes) /\ Len(d) = k + 1
      /\ \A i \in 1..k : d[i] = c[i]
      /\ d[k + 1] = n
  BY <1>2, <1>3, AppendProperties
<1>5. /\ prod'[p].pc = "link" /\ prod'[p].node = n /\ prod'[p].prev = head
      /\ \A q \in Producers \ {p} : prod'[q] = prod[q]
  BY <1>1, <1>n DEF TypeOK
<1>6. sent'[p] = sent[p] + 1 /\ \A q \in Producers \ {p} : sent'[q] = sent[q]
  BY <1>1 DEF TypeOK
<1> HIDE DEF d, k
<1>7. TypeOK'
  <2>1. sent' \in [Producers -> 0..MaxItems]
    BY <1>1, <1>2, QueueAssumption DEF TypeOK
  <2>2. prod' \in [Producers -> CallType]
    <3>1. prod \in [Producers -> CallType] /\ head \in Nodes
      BY DEF TypeOK, CallType
    <3>2. [prod[p] EXCEPT !.pc = "link", !.prev = head] \in CallType
      BY <3>1 DEF CallType
    <3> QED BY <1>1, <3>1, <3>2
  <2> QED BY <1>1, <1>2, <2>1, <2>2 DEF TypeOK, CallType
<1>8. Ordered(d)'
  <2>1. ASSUME NEW i \in 1..Len(d), NEW j \in 1..Len(d), d[i] = d[j]
        PROVE  i = j
    <3>1. CASE i \in 1..k /\ j \in 1..k
      BY <2>1, <3>1, <1>3, <1>4
    <3>2. CASE i = k + 1 \/ j = k + 1
      BY <2>1, <3>2, <1>2, <1>3, <1>4
    <3> QED BY <3>1, <3>2, <1>3, <1>4
  <2> QED BY <2>1, <1>1, <1>3, <1>4 DEF Ordered
<1>9. Linked(d)'
  <2>1. ASSUME NEW i \in 1..(Len(d) - 1)
        PROVE  \/ heap'[d[i]].next = d[i + 1]
               \/ /\ heap'[d[i]].next = Nil
                  /\ \E q \in Producers : /\ prod'[q].pc = "link"
                                          /\ prod'[q].prev = d[i]
                                          /\ prod'[q].node = d[i + 1]
    <3>1. CASE i = k
      <4>1. d[i] = head /\ d[i + 1] = n /\ heap'[d[i]].next = Nil
        BY <1>1, <1>3, <1>4, <3>1 DEF Linked
      <4> QED BY <4>1, <1>5
    <3>2. CASE i # k
      <4>1. i \in 1..(k - 1) /\ d[i] = c[i] /\ d[i + 1] = c[i + 1]
        BY <1>3, <1>4, <3>2
      <4>2. \A q \in Producers : prod[q].pc = "link" => prod'[q] = prod[q]
        BY <1>1, <1>5
      <4>3. \/ heap[c[i]].next = c[i + 1]
            \/ /\ heap[c[i]].next = Nil
               /\ \E q \in Producers : /\ prod[q].pc = "link"
                                       /\ prod[q].prev = c[i]
                                       /\ prod[q].node = c[i + 1]
        BY <4>1 DEF Linked, k
      <4> QED BY <4>1, <4>2, <4>3, <1>1
    <3> QED BY <3>1, <3>2
  <2>2. ASSUME NEW q \in Producers, prod'[q].pc = "link"
        PROVE  \E i \in 1..(Len(d) - 1) : /\ prod'[q].prev = d[i]
                                          /\ prod'[q].node = d[i + 1]
                                          /\ heap'[d[i]].next = Nil
    <3>1. CASE q = p
      <4>1. /\ k \in 1..(Len(d) - 1) /\ d[k] = head /\ d[k + 1] = n
        BY <1>3, <1>4
      <4>2. heap'[d[k]].next = Nil
        BY <4>1, <1>1 DEF Linked
      <4> QED BY <4>1, <4>2, <1>5, <3>1
    <3>2. CASE q # p
      <4>1. PICK i \in 1..(k - 1) : /\ prod[q].prev = c[i]
                                    /\ prod[q].node = c[i + 1]
                                    /\ heap[c[i]].next = Nil
        BY <1>5, <2>2, <3>2 DEF Linked, k
      <4>2. i \in 1..(Len(d) - 1) /\ d[i] = c[i] /\ d[i + 1] = c[i + 1]
        BY <1>3, <1>4
      <4> QED BY <4>1, <4>2, <1>1, <1>5, <3>2
    <3> QED BY <3>1, <3>2
  <2>3. heap'[head'].next = Nil
    BY <1>1, <1>2, NodeFields
  <2> QED BY <2>1, <2>2, <2>3 DEF Linked
<1>10. Pending(d)'
  <2>1. ASSUME NEW q \in Producers, prod'[q].pc = "exchange"
        PROVE  /\ prod'[q].node \in Nodes
               /\ heap'[prod'[q].node] = Node(<<q, sent'[q] + 1>>)
               /\ sent'[q] < MaxItems
               /\ \A i \in 1..Len(d) : d[i] # prod'[q].node
    <3>1. q # p /\ prod[q].pc = "exchange" /\ prod'[q] = prod[q] /\ sent'[q] = sent[q]
      BY <1>5, <1>6, <2>1
    <3>2. prod[q].node # n
      BY <3>1, <1>1, <1>n DEF Pending
    <3>3. \A i \in 1..k : d[i] # prod'[q].node
      BY <1>4, <3>1 DEF Pending, k
    <3>4. \A i \in 1..Len(d) : d[i] # prod'[q].node
      <4> TAKE i \in 1..Len(d)
      <4>1. i \in 1..k \/ i = k + 1
        BY <1>3, <1>4
      <4> QED BY <4>1, <1>4, <3>1, <3>2, <3>3
    <3> QED BY <1>1, <3>1, <3>4 DEF Pending
  <2>2. \A q \in Producers : prod'[q].node = prod[q].node
                             /\ (prod'[q].pc # "idle" => prod[q].pc # "idle")
    BY <1>1, <1>5, <1>n
  <2> QED BY <2>1, <2>2 DEF Pending
<1>11. Allocated(d)'
  <2>1. cpc' # "gone" => \A i \in 1..Len(d) : heap'[d[i]].used
    BY <1>1, <1>2, <1>3, <1>4, NodeFields DEF Allocated, k
  <2>2. ASSUME NEW m \in Nodes, heap'[m].used
        PROVE  \/ \E i \in 1..Len(d) : d[i] = m
               \/ \E q \in Producers : prod'[q].pc = "exchange" /\ prod'[q].node = m
               \/ cpc' = "delete" /\ old' = m
    <3>1. CASE \E i \in 1..k : c[i] = m
      BY <3>1, <1>3, <1>4
    <3>2. CASE \E q \in Producers : prod[q].pc = "exchange" /\ prod[q].node = m
      <4>1. PICK q \in Producers : prod[q].pc = "exchange" /\ prod[q].node = m
        BY <3>2
      <4>2. CASE q = p
        BY <4>1, <4>2, <1>3, <1>4, <1>n
      <4>3. CASE q # p
        BY <4>1, <4>3, <1>5
      <4> QED BY <4>2, <4>3
    <3> QED BY <3>1, <3>2, <2>2, <1>1 DEF Allocated, k
  <2> QED BY <2>1, <2>2 DEF Allocated
<1>12. Consuming(d)'
  <2>1. cpc' = "take" => Len(d) > 1 /\ old' = tail' /\ next' = d[2] /\ heap'[tail'].next = d[2]
    BY <1>1, <1>3, <1>4 DEF Consuming, k
  <2>2. cpc' = "delete" =>
          /\ old' \in Nodes /\ heap'[old'].used
          /\ \A i \in 1..Len(d) : d[i] # old'
          /\ \A q \in Producers : prod'[q].pc = "exchange" => prod'[q].node # old'
    <3> HAVE cpc' = "delete"
    <3>1. n # old
      BY <1>1, <1>n DEF Consuming
    <3>2. \A i \in 1..Len(d) : d[i] # old
      <4>1. \A i \in 1..k : c[i] # old
        BY <1>1 DEF Consuming, k
      <4>2. \A i \in 1..k : d[i] # old
        BY <4>1, <1>4
      <4> QED BY <3>1, <4>2, <1>3, <1>4
    <3>3. old \in Nodes /\ heap'[old].used
      BY <1>1, <1>5 DEF Consuming
    <3>4. \A q \in Producers : prod'[q].pc = "exchange" => prod'[q].node # old
      BY <1>1, <1>5 DEF Consuming
    <3> QED BY <1>1, <3>2, <3>3, <3>4
  <2>3. ~closing /\ cpc # "gone"
    BY <1>1 DEF Consuming
  <2> QED BY <1>1, <2>1, <2>2, <2>3 DEF Consuming
<1> QED BY <1>2, <1>7, <1>8, <1>9, <1>10, <1>11, <1>12, <1>n DEF d

\* The store writes one of the missing links.
LEMMA LinkInv ==
    ASSUME NEW c, QueueInv(c), NEW p \in Producers, Link(p)
    PROVE  /\ QueueInv(c)'
           /\ \A n \in Nodes : heap'[n].data = heap[n].data
<1> USE DEF QueueInv
<1> DEFINE k == Len(c)
<1>1. PICK i \in 1..(k - 1) : /\ prod[p].prev = c[i]
                              /\ prod[p].node = c[i + 1]
                              /\ heap[c[i]].next = Nil
  BY DEF Link, Linked
<1>2. /\ prod[p].pc = "link"
      /\ heap' = [heap EXCEPT ![c[i]].next = c[i + 1]]
      /\ prod' = [prod EXCEPT ![p] = Idle]
      /\ head' = head /\ tail' = tail /\ sent' = sent /\ result' = result
      /\ cpc' = cpc /\ next' = next /\ old' = old /\ closing' = closing
  BY <1>1 DEF Link, consumerVars
<1>3. /\ c \in Seq(Nodes) /\ k \in Nat /\ k > 0
      /\ c[1] = tail /\ c[k] = head /\ \A j \in 1..k : c[j] \in Nodes
      /\ \A j, l \in 1..k : c[j] = c[l] => j = l
  BY ElementOfSeq DEF Ordered
<1> HIDE DEF k
<1>4. c[i] \in Nodes /\ c[i + 1] \in Nodes /\ i \in 1..k /\ i + 1 \in 1..k
  BY <1>3
<1>5. /\ heap'[c[i]].next = c[i + 1]
      /\ \A m \in Nodes \ {c[i]} : heap'[m] = heap[m]
      /\ \A m \in Nodes : heap'[m].used = heap[m].used /\ heap'[m].data = heap[m].data
  BY <1>2, <1>4 DEF TypeOK
<1>6. /\ prod'[p].pc = "idle"
      /\ \A q \in Producers \ {p} : prod'[q] = prod[q]
  BY <1>2, NodeTypes DEF TypeOK
<1>7. TypeOK'
  <2>1. heap \in [Nodes -> NodeType] /\ prod \in [Producers -> CallType]
    BY DEF TypeOK, NodeType, CallType, Data
  <2>2. [heap[c[i]] EXCEPT !.next = c[i + 1]] \in NodeType
    BY <2>1, <1>4 DEF NodeType
  <2>3. heap' \in [Nodes -> NodeType] /\ prod' \in [Producers -> CallType]
    BY <2>1, <2>2, <1>2, <1>4, NodeTypes
  <2> QED BY <1>2, <2>3 DEF TypeOK, NodeType, CallType, Data
<1>8. Ordered(c)'
  BY <1>2 DEF Ordered
<1>9. ASSUME NEW j \in 1..k, j # i
      PROVE  heap'[c[j]] = heap[c[j]]
  BY <1>3, <1>4, <1>5, <1>9
<1>10. ASSUME NEW q \in Producers, q # p, prod[q].pc = "link"
       PROVE  \E j \in 1..(k - 1) : /\ prod[q].prev = c[j]
                                    /\ prod[q].node = c[j + 1]
                                    /\ heap'[c[j]].next = Nil
  <2>1. PICK j \in 1..(k - 1) : /\ prod[q].prev = c[j]
                                /\ prod[q].node = c[j + 1]
                                /\ heap[c[j]].next = Nil
    BY <1>10 DEF Linked, k
  <2>2. prod[q].node # prod[p].node
    BY <1>2, <1>10 DEF Pending
  <2>3. j # i /\ j \in 1..k
    BY <2>1, <2>2, <1>1, <1>3
  <2> QED BY <2>1, <2>3, <1>9
<1>11. Linked(c)'
  <2>1. ASSUME NEW j \in 1..(k - 1)
        PROVE  \/ heap'[c[j]].next = c[j + 1]
               \/ /\ heap'[c[j]].next = Nil
                  /\ \E q \in Producers : /\ prod'[q].pc = "link"
                                          /\ prod'[q].prev = c[j]
                                          /\ prod'[q].node = c[j + 1]
    <3>1. CASE j = i
      BY <3>1, <1>5
    <3>2. CASE j # i
      <4>1. heap'[c[j]] = heap[c[j]] /\ j \in 1..k
        BY <1>3, <1>9, <3>2
      <4>2. c[j] # prod[p].prev
        BY <4>1, <1>1, <1>3, <1>4, <3>2
      <4> QED BY <4>1, <4>2, <1>6 DEF Linked, k
    <3> QED BY <3>1, <3>2
  <2>2. heap'[head'].next = Nil
    <3>1. k \in 1..k /\ k # i
      BY <1>3
    <3>2. heap'[c[k]] = heap[c[k]]
      BY <1>9, <3>1
    <3>3. heap[head].next = Nil
      BY DEF Linked
    <3> QED BY <1>2, <1>3, <3>2, <3>3
  <2>3. ASSUME NEW q \in Producers, prod'[q].pc = "link"
        PROVE  \E j \in 1..(k - 1) : /\ prod'[q].prev = c[j]
                                     /\ prod'[q].node = c[j + 1]
                                     /\ heap'[c[j]].next = Nil
    BY <2>3, <1>6, <1>10
  <2> QED BY <2>1, <2>2, <2>3 DEF Linked, k
<1>12. Pending(c)'
  <2>1. ASSUME NEW q \in Producers, prod'[q].pc = "exchange"
        PROVE  /\ prod'[q].node \in Nodes
               /\ heap'[prod'[q].node] = Node(<<q, sent'[q] + 1>>)
               /\ sent'[q] < MaxItems
               /\ \A j \in 1..k : c[j] # prod'[q].node
    BY <2>1, <1>2, <1>4, <1>5, <1>6 DEF Pending, k
  <2> QED BY <2>1, <1>6 DEF Pending, k
<1>13. Allocated(c)'
  <2>1. \A q \in Producers : prod[q].pc = "exchange" => prod'[q] = prod[q]
    BY <1>2, <1>6
  <2>2. \A j \in 1..k : heap'[c[j]].used = heap[c[j]].used
    BY <1>3, <1>5
  <2> QED BY <2>1, <2>2, <1>2, <1>5 DEF Allocated, k
<1>14. Consuming(c)'
  <2>1. cpc = "take" => i # 1
    BY <1>1, <1>3, QueueAssumption DEF Consuming
  <2>2. cpc' = "take" => heap'[tail'].next = c[2]
    <3> HAVE cpc' = "take"
    <3>1. cpc = "take" /\ tail' = tail /\ heap[tail].next = c[2] /\ k > 1
      BY <1>2 DEF Consuming, k
    <3>2. 1 \in 1..k /\ c[1] = tail /\ i # 1
      BY <1>3, <2>1, <3>1 DEF Ordered
    <3>3. heap'[c[1]] = heap[c[1]]
      BY <1>9, <3>2
    <3> QED BY <3>1, <3>2, <3>3
  <2>3. ~closing /\ cpc # "gone"
    BY <1>2 DEF Consuming
  <2>4. cpc' = "delete" => old' \in Nodes /\ heap'[old'].used
    BY <1>2, <1>5 DEF Consuming
  <2>5. \A q \in Producers : prod'[q].pc = "exchange" => prod[q].pc = "exchange" /\ prod'[q] = prod[q]
    BY <1>6
  <2> QED BY <1>2, <2>2, <2>3, <2>4, <2>5 DEF Consuming
<1> QED BY <1>5, <1>7, <1>8, <1>11, <1>12, <1>13, <1>14
\* Dequeue finds the second node of the list, which it has then.
LEMMA LoadNextInv ==
    ASSUME NEW c, QueueInv(c), LoadNext
    PROVE  QueueInv(c)'
<1> USE DEF QueueInv
<1>1. /\ cpc = "idle" /\ heap[tail].next # Nil
      /\ old' = tail /\ next' = heap[tail].next /\ cpc' = "take"
      /\ heap' = heap /\ head' = head /\ tail' = tail /\ prod' = prod
      /\ closing' = closing /\ sent' = sent /\ result' = result
  BY DEF LoadNext
<1>2. Len(c) \in Nat /\ Len(c) > 1
  BY <1>1 DEF Ordered, Linked
<1>3. heap[tail].next = c[2]
  BY <1>1, <1>2 DEF Ordered, Linked
<1>4. TypeOK'
  BY <1>1 DEF TypeOK
<1>5. Ordered(c)' /\ Linked(c)' /\ Pending(c)'
  BY <1>1 DEF Ordered, Linked, Pending
<1>6. Allocated(c)'
  BY <1>1 DEF Allocated
<1>7. Consuming(c)'
  BY <1>1, <1>2, <1>3 DEF Consuming
<1> QED BY <1>4, <1>5, <1>6, <1>7

\* The store to _tail takes the first node off the list.
LEMMA TakeDataInv ==
    ASSUME NEW c, QueueInv(c), TakeData
    PROVE  /\ Len(c) > 1 /\ QueueInv(Tail(c))'
           /\ result' = heap[c[2]].data
<1> USE DEF QueueInv
<1> DEFINE d == Tail(c)
           k == Len(c)
<1>1. /\ cpc = "take" /\ result' = heap[next].data /\ tail' = next
      /\ cpc' = "delete"
      /\ heap' = heap /\ head' = head /\ prod' = prod /\ next' = next
      /\ old' = old /\ closing' = closing /\ sent' = sent
  BY DEF TakeData
<1>2. /\ c \in Seq(Nodes) /\ k \in Nat /\ k > 1
      /\ c[1] = tail /\ c[k] = head /\ \A i \in 1..k : c[i] \in Nodes
      /\ \A i, j \in 1..k : c[i] = c[j] => i = j
      /\ old = tail /\ next = c[2] /\ heap[tail].next = c[2] /\ c[2] \in Nodes
  BY <1>1, ElementOfSeq DEF Ordered, Consuming
<1>3. /\ d \in Seq(Nodes) /\ Len(d) = k - 1
      /\ \A i \in 1..(k - 1) : d[i] = c[i + 1]
  BY <1>2, HeadTailProperties
<1> HIDE DEF d, k
<1>4. TypeOK'
  <2>1. heap[c[2]].data \in Data
    BY <1>2 DEF TypeOK, Data
  <2> QED BY <2>1, <1>1, <1>2 DEF TypeOK, Data
<1>5. Ordered(d)'
  <2>1. ASSUME NEW i \in 1..Len(d), NEW j \in 1..Len(d), d[i] = d[j]
        PROVE  i = j
    <3>1. i + 1 \in 1..k /\ j + 1 \in 1..k /\ c[i + 1] = c[j + 1]
      BY <2>1, <1>2, <1>3
    <3>2. i + 1 = j + 1
      BY <3>1, <1>2
    <3> QED BY <3>2, <1>2, <1>3
  <2>2. Len(d) > 0 /\ d[1] = c[2] /\ d[Len(d)] = c[k]
    BY <1>2, <1>3
  <2> QED BY <2>1, <2>2, <1>1, <1>2, <1>3 DEF Ordered
<1>6. Linked(d)'
  <2>1. ASSUME NEW i \in 1..(Len(d) - 1)
        PROVE  \/ heap'[d[i]].next = d[i + 1]
               \/ /\ heap'[d[i]].next = Nil
                  /\ \E q \in Producers : /\ prod'[q].pc = "link"
                                          /\ prod'[q].prev = d[i]
                                          /\ prod'[q].node = d[i + 1]
    <3> DEFINE j == i + 1
    <3>0. i \in 1..(k - 1) /\ i + 1 \in 1..(k - 1)
      BY <1>2, <1>3
    <3>1. j \in 1..(k - 1) /\ d[i] = c[j] /\ d[i + 1] = c[j + 1]
      BY <1>3, <3>0
    <3> HIDE DEF j
    <3>2. \/ heap[c[j]].next = c[j + 1]
          \/ /\ heap[c[j]].next = Nil
             /\ \E q \in Producers : /\ prod[q].pc = "link"
                                     /\ prod[q].prev = c[j]
                                     /\ prod[q].node = c[j + 1]
      BY <3>1 DEF Linked, k
    <3> QED BY <3>1, <3>2, <1>1
  <2>2. ASSUME NEW q \in Producers, prod'[q].pc = "link"
        PROVE  \E i \in 1..(Len(d) - 1) : /\ prod'[q].prev = d[i]
                                          /\ prod'[q].node = d[i + 1]
                                          /\ heap'[d[i]].next = Nil
    <3>1. PICK j \in 1..(k - 1) : /\ prod[q].prev = c[j]
                                  /\ prod[q].node = c[j + 1]
                                  /\ heap[c[j]].next = Nil
      BY <1>1, <2>2 DEF Linked, k
    <3>2. j # 1
      BY <3>1, <1>2, QueueAssumption
    <3>3. /\ j - 1 \in 1..(Len(d) - 1) /\ d[j - 1] = c[j]
          /\ d[(j - 1) + 1] = c[j + 1]
      BY <3>2, <1>2, <1>3
    <3> QED BY <3>1, <3>3, <1>1
  <2>3. heap'[head'].next = Nil
    BY <1>1 DEF Linked
  <2> QED BY <2>1, <2>2, <2>3 DEF Linked
<1>7. \A i \in 1..Len(d) : \E j \in 1..k : j # 1 /\ d[i] = c[j]
  <2> TAKE i \in 1..Len(d)
  <2>1. i + 1 \in 1..k /\ i + 1 # 1 /\ d[i] = c[i + 1]
    BY <1>2, <1>3
  <2> QED BY <2>1
<1>8. Pending(d)'
  <2>1. ASSUME NEW q \in Producers, prod'[q].pc = "exchange"
        PROVE  \A i \in 1..Len(d) : d[i] # prod'[q].node
    BY <1>1, <1>7, <2>1 DEF Pending, k
  <2> QED BY <2>1, <1>1 DEF Pending
<1>9. Allocated(d)'
  <2>1. \A i \in 1..Len(d) : heap'[d[i]].used
    BY <1>1, <1>7 DEF Allocated, k
  <2>2. ASSUME NEW m \in Nodes, heap'[m].used
        PROVE  \/ \E i \in 1..Len(d) : d[i] = m
               \/ \E q \in Producers : prod'[q].pc = "exchange" /\ prod'[q].node = m
               \/ cpc' = "delete" /\ old' = m
    <3>1. CASE \E j \in 1..k : c[j] = m
      <4>1. PICK j \in 1..k : c[j] = m
        BY <3>1
      <4>2. CASE j = 1
        BY <4>1, <4>2, <1>1, <1>2
      <4>3. CASE j # 1
        <5>1. j - 1 \in 1..Len(d) /\ d[j - 1] = c[(j - 1) + 1] /\ (j - 1) + 1 = j
          BY <4>3, <1>2, <1>3
        <5> QED BY <4>1, <5>1
      <4> QED BY <4>2, <4>3
    <3> QED BY <3>1, <2>2, <1>1 DEF Allocated, k
  <2> QED BY <2>1, <2>2 DEF Allocated
<1>10. Consuming(d)'
  <2>1. old \in Nodes /\ heap[old].used
    BY <1>1, <1>2 DEF Allocated, k
  <2>2. \A i \in 1..Len(d) : d[i] # old
    BY <1>2, <1>7
  <2>3. \A q \in Producers : prod[q].pc = "exchange" => prod[q].node # old
    <3>1. 1 \in 1..k /\ c[1] = old
      BY <1>2
    <3> QED BY <3>1 DEF Pending, k
  <2> QED BY <2>1, <2>2, <2>3, <1>1 DEF Consuming
<1> QED BY <1>1, <1>2, <1>4, <1>5, <1>6, <1>8, <1>9, <1>10 DEF d, k

\* The node that is deleted is in nobody's hands.
LEMMA DeleteTailInv ==
    ASSUME NEW c, QueueInv(c), DeleteTail
    PROVE  QueueInv(c)' /\ \A i \in 1..Len(c) : heap'[c[i]] = heap[c[i]]
<1> USE DEF QueueInv
<1>1. /\ cpc = "delete" /\ heap' = [heap EXCEPT ![old] = Free]
      /\ cpc' = "idle" /\ next' = Nil /\ old' = Nil
      /\ head' = head /\ tail' = tail /\ prod' = prod
      /\ closing' = closing /\ sent' = sent /\ result' = result
  BY DEF DeleteTail
<1>2. /\ c \in Seq(Nodes) /\ Len(c) \in Nat /\ \A i \in 1..Len(c) : c[i] \in Nodes
      /\ old \in Nodes /\ \A i \in 1..Len(c) : c[i] # old
      /\ \A p \in Producers : prod[p].pc = "exchange" => prod[p].node # old
      /\ head \in Nodes /\ head # old
  BY <1>1, ElementOfSeq DEF Ordered, Consuming
<1>3. /\ \A m \in Nodes \ {old} : heap'[m] = heap[m]
      /\ heap'[old].used = FALSE
  BY <1>1, <1>2, NodeFields DEF TypeOK
<1>4. \A i \in 1..Len(c) : heap'[c[i]] = heap[c[i]]
  BY <1>2, <1>3
<1>5. TypeOK'
  <2>1. heap' \in [Nodes -> NodeType]
    BY <1>1, NodeTypes DEF TypeOK, NodeType, Data
  <2> QED BY <2>1, <1>1 DEF TypeOK, NodeType, Data
<1>6. Ordered(c)'
  BY <1>1 DEF Ordered
<1>7. Linked(c)'
  <2>1. \A i \in 1..(Len(c) - 1) : heap'[c[i]] = heap[c[i]]
    BY <1>2, <1>4
  <2>2. heap'[head'].next = Nil
    BY <1>1, <1>2, <1>3 DEF Linked
  <2> QED BY <2>1, <2>2, <1>1 DEF Linked
<1>8. Pending(c)'
  BY <1>1, <1>2, <1>3 DEF Pending
<1>9. Allocated(c)'
  BY <1>1, <1>3, <1>4 DEF Allocated
<1>10. Consuming(c)'
  BY <1>1 DEF Consuming
<1> QED BY <1>4, <1>5, <1>6, <1>7, <1>8, <1>9, <1>10

\* The destructor starts when no call is under way.
LEMMA DestroyInv ==
    ASSUME NEW c, QueueInv(c), Destroy
    PROVE  QueueInv(c)'
<1> USE DEF QueueInv
<1>1. /\ cpc = "idle" /\ \A p \in Producers : prod[p].pc = "idle"
      /\ closing' = TRUE
      /\ heap' = heap /\ head' = head /\ tail' = tail /\ prod' = prod
      /\ cpc' = cpc /\ next' = next /\ old' = old /\ sent' = sent /\ result' = result
  BY DEF Destroy
<1>2. TypeOK' /\ Ordered(c)' /\ Pending(c)'
  BY <1>1 DEF TypeOK, Ordered, Pending
<1>3. Linked(c)' /\ Allocated(c)'
  BY <1>1 DEF Linked, Allocated
<1>4. Consuming(c)'
  BY <1>1 DEF Consuming
<1> QED BY <1>2, <1>3, <1>4

\* The destructor deletes the last node of the list.
LEMMA DeleteFrontInv ==
    ASSUME NEW c, QueueInv(c), DeleteFront
    PROVE  QueueInv(c)' /\ Len(c) = 1
<1> USE DEF QueueInv
<1>1. /\ closing /\ cpc = "idle" /\ heap[tail].next = Nil
      /\ heap' = [heap EXCEPT ![head] = Free] /\ cpc' = "gone"
      /\ head' = head /\ tail' = tail /\ prod' = prod /\ next' = next /\ old' = old
      /\ closing' = closing /\ sent' = sent /\ result' = result
  BY DEF DeleteFront
<1>2. /\ c \in Seq(Nodes) /\ Len(c) \in Nat /\ Len(c) > 0
      /\ \A i \in 1..Len(c) : c[i] \in Nodes
      /\ c[1] = tail /\ c[Len(c)] = head /\ head \in Nodes
  BY <1>1, ElementOfSeq DEF Ordered
<1>3. \A p \in Producers : prod[p].pc = "idle"
  BY <1>1 DEF Consuming
<1>4. Len(c) = 1
  <2>1. ASSUME Len(c) > 1 PROVE FALSE
    <3>1. 1 \in 1..(Len(c) - 1) /\ 2 \in 1..Len(c)
      BY <1>2, <2>1
    <3>2. c[2] \in Nodes /\ heap[c[1]].next = c[2]
      BY <3>1, <1>2, <1>3 DEF Linked
    <3> QED BY <3>2, <1>1, <1>2, QueueAssumption
  <2>2. \A k \in Nat : k > 0 /\ ~(k > 1) => k = 1
    OBVIOUS
  <2> QED BY <2>1, <2>2, <1>2
<1>5. /\ heap'[head] = Free /\ \A m \in Nodes \ {head} : heap'[m] = heap[m]
  BY <1>1, <1>2 DEF TypeOK
<1>6. TypeOK'
  <2>1. heap' \in [Nodes -> NodeType]
    BY <1>1, NodeTypes DEF TypeOK, NodeType, Data
  <2> QED BY <2>1, <1>1 DEF TypeOK, NodeType, Data
<1>7. Ordered(c)'
  BY <1>1 DEF Ordered
<1>8. Linked(c)'
  BY <1>1, <1>2, <1>3, <1>4, <1>5, NodeFields DEF Linked
<1>9. Pending(c)'
  BY <1>1, <1>3 DEF Pending
<1>10. Allocated(c)'
  BY <1>1, <1>2, <1>3, <1>4, <1>5, NodeFields DEF Allocated
<1>11. Consuming(c)'
  BY <1>1, <1>3, <1>4, <1>5, NodeFields DEF Consuming
<1> QED BY <1>4, <1>6, <1>7, <1>8, <1>9, <1>10, <1>11
-----------------------------------------------------------------------------
(***************************************************************************)
(* Safety                                                                   *)
(***************************************************************************)

\* There is a list that the invariant holds of.
SomeList == \E c \in Seq(Nodes) : QueueInv(c)

\* The invariant depends on the variables alone.
LEMMA StutterInv ==
    ASSUME NEW c, QueueInv(c), UNCHANGED vars
    PROVE  QueueInv(c)'
  BY DEF QueueInv, TypeOK, Ordered, Linked, Pending, Allocated, Consuming,
         vars, consumerVars

\* Every step leaves a list behind.
LEMMA NextInv ==
    ASSUME SomeList, [Next]_vars
    PROVE  SomeList'
<1>1. PICK c \in Seq(Nodes) : QueueInv(c)
  BY DEF SomeList
<1> SUFFICES \E d : QueueInv(d)'
  BY DEF SomeList, QueueInv, Ordered
<1>2. ASSUME NEW p \in Producers, NEW n \in Nodes, NewNode(p, n)
      PROVE  QueueInv(c)'
  BY <1>1, <1>2, NewNodeInv
<1>3. ASSUME NEW p \in Producers, Exchange(p)
      PROVE  \E d : QueueInv(d)'
  BY <1>1, <1>3, ExchangeInv
<1>4. ASSUME NEW p \in Producers, Link(p)
      PROVE  QueueInv(c)'
  BY <1>1, <1>4, LinkInv
<1>5. CASE LoadNext
  BY <1>1, <1>5, LoadNextInv
<1>6. CASE TakeData
  BY <1>1, <1>6, TakeDataInv
<1>7. CASE DeleteTail
  BY <1>1, <1>7, DeleteTailInv
<1>8. CASE Destroy
  BY <1>1, <1>8, DestroyInv
<1>9. CASE DeleteFront
  BY <1>1, <1>9, DeleteFrontInv
<1>10. CASE UNCHANGED vars
  BY <1>1, <1>10, StutterInv
<1> QED
  BY <1>2, <1>3, <1>4, <1>5, <1>6, <1>7, <1>8, <1>9, <1>10 DEF Next, Enqueue, Dequeue

\* In every reachable state the nodes form one list with the links that are
\* still to be written.
THEOREM OneList == Spec => []SomeList
<1>1. Init => SomeList
  BY InitInv DEF SomeList
<1>2. SomeList /\ [Next]_vars => SomeList'
  BY NextInv
<1> QED BY <1>1, <1>2, PTL DEF Spec

\* No thread of Enqueue, Dequeue or the destructor touches a node that has been
\* deleted, and the destructor leaves none behind.
THEOREM MemorySafe == Spec => []NoUseAfterFree
<1>1. SomeList => NoUseAfterFree
  <2> SUFFICES ASSUME NEW c \in Seq(Nodes), QueueInv(c)
               PROVE  NoUseAfterFree
    BY DEF SomeList
  <2> USE DEF QueueInv
  <2>1. /\ Len(c) \in Nat /\ Len(c) > 0
        /\ c[1] = tail /\ c[Len(c)] = head /\ \A i \in 1..Len(c) : c[i] \in Nodes
    BY ElementOfSeq DEF Ordered
  <2>2. ASSUME NEW p \in Producers, prod[p].pc = "link"
        PROVE  heap[prod[p].node].used /\ heap[prod[p].prev].used
    <3>1. PICK i \in 1..(Len(c) - 1) : prod[p].prev = c[i] /\ prod[p].node = c[i + 1]
      BY <2>2 DEF Linked
    <3>2. i \in 1..Len(c) /\ i + 1 \in 1..Len(c)
      BY <2>1
    <3>3. cpc # "gone"
      BY <2>2 DEF Consuming
    <3> QED BY <3>1, <3>2, <3>3 DEF Allocated
  <2>3. ASSUME NEW p \in Producers, prod[p].pc = "exchange"
        PROVE  heap[prod[p].node].used
    BY <2>3, NodeFields DEF Pending
  <2>4. \A p \in Producers : prod[p].pc \in {"idle", "exchange", "link"}
    BY DEF TypeOK
  <2>5. cpc # "gone" => heap[tail].used /\ heap[head].used
    <3>1. 1 \in 1..Len(c) /\ Len(c) \in 1..Len(c)
      BY <2>1
    <3> QED BY <3>1, <2>1 DEF Allocated
  <2>6. cpc = "take" => next # Nil /\ heap[next].used
    <3> HAVE cpc = "take"
    <3>1. 2 \in 1..Len(c) /\ next = c[2]
      BY <2>1 DEF Consuming
    <3> QED BY <3>1, <2>1, QueueAssumption DEF Allocated
  <2>7. cpc = "delete" => heap[old].used
    BY DEF Consuming
  <2>8. cpc = "gone" => \A n \in Nodes : ~heap[n].used
    <3> HAVE cpc = "gone"
    <3> TAKE n \in Nodes
    <3>1. \A p \in Producers : prod[p].pc = "idle"
      BY DEF Consuming
    <3>2. Len(c) = 1 /\ ~heap[c[1]].used
      BY <2>1 DEF Consuming
    <3> QED BY <3>1, <3>2 DEF Allocated
  <2> QED BY <2>2, <2>3, <2>4, <2>5, <2>6, <2>7, <2>8 DEF NoUseAfterFree
<1> QED BY <1>1, OneList, PTL
-----------------------------------------------------------------------------
(***************************************************************************)
(* The list is the only one from _tail to _head                             *)
(***************************************************************************)

\* A set of natural numbers that is not empty has a least element.
LEMMA LeastNat ==
    ASSUME NEW T \in SUBSET Nat, T # {}
    PROVE  \E n \in T : \A m \in T : n <= m
<1>1. PICK n \in T : \A m \in T : ~(<<m, n>> \in OpToRel(<, Nat))
  BY NatLessThanWellFounded, WFMin
<1>2. \A m \in T : ~(m < n)
  BY <1>1 DEF OpToRel
<1> QED BY <1>2

\* The list has at most as many nodes as there are.
LEMMA ListIsChain ==
    ASSUME NEW c, QueueInv(c)
    PROVE  c \in Chains /\ IsChain(c)
<1>1. /\ c \in Seq(Nodes) /\ Len(c) \in Nat /\ Len(c) > 0
      /\ c \in [1..Len(c) -> Nodes]
      /\ \A i, j \in 1..Len(c) : c[i] = c[j] => i = j
  BY LenProperties DEF QueueInv, Ordered
<1>2. c \in Injection(1..Len(c), Nodes)
  BY <1>1 DEF Injection, IsInjective
<1>3. Cardinality(1..Len(c)) <= Cardinality(Nodes)
  BY <1>2, FS_Injection, QueueAssumption
<1>4. Cardinality(1..Len(c)) = Len(c)
  BY <1>1, FS_Interval
<1>5. Cardinality(Nodes) \in Nat
  BY FS_CardinalityType, QueueAssumption
<1>6. Len(c) \in 1..Cardinality(Nodes)
  BY <1>1, <1>3, <1>4, <1>5
<1>7. c \in Chains
  BY <1>1, <1>6 DEF Chains
<1>8. ASSUME NEW i \in 1..(Len(c) - 1)
      PROVE  Follows(c[i], c[i + 1])
  BY DEF QueueInv, Linked, Follows
<1> QED BY <1>1, <1>7, <1>8 DEF IsChain, QueueInv, Ordered

\* After a node of the list comes the next one, and after _head none.
LEMMA Successor ==
    ASSUME NEW c, QueueInv(c), NEW i \in 1..Len(c), NEW n \in Nodes,
           Follows(c[i], n)
    PROVE  i < Len(c) /\ n = c[i + 1]
<1> USE DEF QueueInv
<1>1. /\ Len(c) \in Nat /\ c[Len(c)] = head
      /\ \A j, l \in 1..Len(c) : c[j] = c[l] => j = l
  BY DEF Ordered
<1>2. CASE heap[c[i]].next = n
  <2>1. i # Len(c)
    BY <1>1, <1>2, QueueAssumption DEF Linked
  <2>2. i \in 1..(Len(c) - 1) /\ i < Len(c)
    BY <2>1, <1>1
  <2> QED BY <2>2, <1>2, QueueAssumption DEF Linked
<1>3. ASSUME NEW p \in Producers, prod[p].pc = "link",
             prod[p].prev = c[i], prod[p].node = n
      PROVE  i < Len(c) /\ n = c[i + 1]
  <2>1. PICK j \in 1..(Len(c) - 1) : prod[p].prev = c[j] /\ prod[p].node = c[j + 1]
    BY <1>3 DEF Linked
  <2>2. j \in 1..Len(c) /\ j < Len(c)
    BY <1>1
  <2>3. j = i
    BY <2>1, <2>2, <1>1, <1>3
  <2> QED BY <2>1, <2>2, <2>3, <1>3
<1> QED BY <1>2, <1>3 DEF Follows

\* Any chain of the heap is that list.
LEMMA ChainUnique ==
    ASSUME NEW c, QueueInv(c), NEW d \in Chains, IsChain(d)
    PROVE  d = c
<1>1. /\ c \in Seq(Nodes) /\ Len(c) \in Nat /\ Len(c) > 0
      /\ c \in [1..Len(c) -> Nodes] /\ c[1] = tail /\ c[Len(c)] = head
      /\ \A i, j \in 1..Len(c) : c[i] = c[j] => i = j
  BY LenProperties DEF QueueInv, Ordered
<1>2. PICK k \in 1..Cardinality(Nodes) : d \in [1..k -> Nodes]
  BY DEF Chains
<1>3. Cardinality(Nodes) \in Nat
  BY FS_CardinalityType, QueueAssumption
<1>4. k \in Nat /\ k > 0 /\ d \in Seq(Nodes) /\ Len(d) = k
  BY <1>2, <1>3
<1>5. /\ d[1] = tail /\ d[k] = head
      /\ \A i \in 1..(k - 1) : Follows(d[i], d[i + 1])
      /\ \A i \in 1..k : d[i] \in Nodes
  BY <1>2, <1>4 DEF IsChain
<1>6. \A i \in 1..k : i <= Len(c) /\ d[i] = c[i]
  <2> DEFINE T == {i \in 1..k : ~(i <= Len(c) /\ d[i] = c[i])}
  <2> SUFFICES ASSUME T # {} PROVE FALSE
    OBVIOUS
  <2>1. T \in SUBSET Nat
    BY <1>4
  <2>2. PICK i \in T : \A j \in T : i <= j
    BY <2>1, LeastNat
  <2>3. i \in 1..k /\ i # 1
    BY <1>1, <1>5
  <2>4. i - 1 \in 1..(k - 1) /\ i - 1 \in 1..k /\ i - 1 \notin T /\ (i - 1) + 1 = i
    BY <2>2, <2>3, <1>4
  <2>5. i - 1 \in 1..Len(c) /\ d[i - 1] = c[i - 1]
    BY <2>4, <1>1
  <2>6. Follows(c[i - 1], d[i]) /\ d[i] \in Nodes
    BY <2>3, <2>4, <2>5, <1>5
  <2>7. i - 1 < Len(c) /\ d[i] = c[i]
    BY <2>4, <2>5, <2>6, Successor
  <2>8. i <= Len(c)
    BY <2>3, <2>7, <1>1, <1>4
  <2> QED BY <2>2, <2>7, <2>8
<1>7. k = Len(c)
  <2>1. k \in 1..Len(c) /\ Len(c) \in 1..Len(c) /\ c[k] = c[Len(c)]
    BY <1>1, <1>4, <1>5, <1>6
  <2> QED BY <2>1, <1>1
<1> QED BY <1>1, <1>2, <1>6, <1>7

\* The values that the list c holds.
Values(c) == [k \in 1..(Len(c) - 1) |-> heap[c[k + 1]].data]

\* What a queue with the list c contains.
ContentsOf(c) == QueueInv(c) => Contents = Values(c)
ListContents == \A c \in Seq(Nodes) : ContentsOf(c)

\* Contents finds the list, whichever it is.
LEMMA ContentsFound == ListContents
<1> SUFFICES ASSUME NEW c \in Seq(Nodes), QueueInv(c)
             PROVE  Contents = Values(c)
  BY DEF ListContents, ContentsOf
<1>1. c \in Chains /\ IsChain(c)
  BY ListIsChain
<1>2. \A d \in Chains : IsChain(d) => d = c
  BY ChainUnique
<1>3. List = c
  BY <1>1, <1>2 DEF List
<1> QED BY <1>3 DEF Contents, Values
-----------------------------------------------------------------------------
(***************************************************************************)
(* The list is a FIFO queue                                                 *)
(***************************************************************************)

\* The values of a list of nodes.
LEMMA ValuesType ==
    ASSUME NEW c, QueueInv(c)
    PROVE  /\ Len(c) \in Nat /\ Len(c) > 0
           /\ \A k \in 1..Len(c) : c[k] \in Nodes
           /\ Values(c) \in Seq(Data) /\ Len(Values(c)) = Len(c) - 1
           /\ \A k \in 1..(Len(c) - 1) : Values(c)[k] = heap[c[k + 1]].data
<1>1. /\ c \in Seq(Nodes) /\ Len(c) \in Nat /\ Len(c) > 0
      /\ \A k \in 1..Len(c) : c[k] \in Nodes
  BY ElementOfSeq DEF QueueInv, Ordered
<1>2. \A k \in 1..(Len(c) - 1) : k + 1 \in 1..Len(c)
  BY <1>1
<1>3. \A n \in Nodes : heap[n].data \in Data
  BY DEF QueueInv, TypeOK, Data
<1>4. Values(c) \in [1..(Len(c) - 1) -> Data] /\ Len(c) - 1 \in Nat
  BY <1>1, <1>2, <1>3 DEF Values
<1>5. Values(c) \in Seq(Data) /\ Len(Values(c)) = Len(c) - 1
  BY <1>4
<1> QED BY <1>1, <1>5 DEF Values

\* A step that keeps the list and its data keeps the contents.
LEMMA SameValues ==
    ASSUME NEW c, QueueInv(c), QueueInv(c)', ListContents, ListContents',
           \A k \in 1..Len(c) : heap'[c[k]].data = heap[c[k]].data,
           sent' = sent, result' = result
    PROVE  UNCHANGED Fifo!vars
<1>1. c \in Seq(Nodes) /\ Len(c) \in Nat
  BY DEF QueueInv, Ordered
<1>2. Contents = Values(c) /\ Contents' = Values(c)'
  BY <1>1 DEF ListContents, ContentsOf
<1>3. \A k \in 1..(Len(c) - 1) : heap'[c[k + 1]].data = heap[c[k + 1]].data
  <2> TAKE k \in 1..(Len(c) - 1)
  <2>1. k + 1 \in 1..Len(c)
    BY <1>1
  <2> QED BY <2>1
<1>4. Values(c)' = Values(c)
  BY <1>3 DEF Values
<1> QED BY <1>2, <1>4 DEF Fifo!vars

\* The exchange is the abstract Enqueue.
LEMMA ExchangeIsEnqueue ==
    ASSUME NEW c, QueueInv(c), ListContents, ListContents',
           NEW p \in Producers, Exchange(p)
    PROVE  Fifo!Enqueue(p)
<1>1. PICK n \in Nodes : n = prod[p].node /\ QueueInv(Append(c, n))'
  BY ExchangeInv
<1> DEFINE d == Append(c, n)
           k == Len(c)
           x == <<p, sent[p] + 1>>
<1>2. /\ sent' = [sent EXCEPT ![p] = @ + 1] /\ heap' = heap /\ result' = result
      /\ prod[p].pc = "exchange"
  BY DEF Exchange
<1>3. sent[p] < MaxItems /\ heap[n].data = x
  BY <1>1, <1>2, NodeFields DEF QueueInv, Pending
<1>4. /\ c \in Seq(Nodes) /\ k \in Nat /\ k > 0
      /\ Values(c) \in Seq(Data) /\ Len(Values(c)) = k - 1
      /\ \A i \in 1..(k - 1) : Values(c)[i] = heap[c[i + 1]].data
  BY ValuesType DEF QueueInv, Ordered
<1>5. /\ d \in Seq(Nodes) /\ Len(d) = k + 1
      /\ \A i \in 1..k : d[i] = c[i]
      /\ d[k + 1] = n
  BY <1>4, AppendProperties
<1> HIDE DEF d, k, x
<1>6. Contents = Values(c) /\ Contents' = Values(d)'
  BY <1>1, <1>4, <1>5 DEF ListContents, ContentsOf, d
<1>7. Values(d)' = [i \in 1..k |-> heap[d[i + 1]].data]
  BY <1>2, <1>4, <1>5 DEF Values
<1>8. x \in Data
  BY <1>1, <1>3 DEF QueueInv, TypeOK, Data
<1>9. /\ Append(Values(c), x) \in Seq(Data) /\ Len(Append(Values(c), x)) = k
      /\ \A i \in 1..(k - 1) : Append(Values(c), x)[i] = Values(c)[i]
      /\ Append(Values(c), x)[k] = x
  BY <1>4, <1>8, AppendProperties
<1>10. ASSUME NEW i \in 1..k
       PROVE  heap[d[i + 1]].data = Append(Values(c), x)[i]
  <2>1. CASE i = k
    BY <2>1, <1>3, <1>5, <1>9
  <2>2. CASE i # k
    <3>1. i \in 1..(k - 1) /\ i + 1 \in 1..k
      BY <2>2, <1>4
    <3> QED BY <3>1, <1>4, <1>5, <1>9
  <2> QED BY <2>1, <2>2
<1>11. Append(Values(c), x) = [i \in 1..k |-> Append(Values(c), x)[i]]
  BY <1>9, LenProperties
<1>12. Values(d)' = Append(Values(c), x)
  BY <1>7, <1>10, <1>11
<1> QED BY <1>2, <1>3, <1>6, <1>12 DEF Fifo!Enqueue, Fifo!Item, x

\* The store to _tail is the abstract Dequeue.
LEMMA TakeDataIsDequeue ==
    ASSUME NEW c, QueueInv(c), ListContents, ListContents', TakeData
    PROVE  Fifo!Dequeue
<1> DEFINE d == Tail(c)
           k == Len(c)
           v == Values(c)
<1>1. QueueInv(d)' /\ result' = heap[c[2]].data /\ k > 1
  BY TakeDataInv
<1>2. heap' = heap /\ sent' = sent
  BY DEF TakeData
<1>3. /\ c \in Seq(Nodes) /\ k \in Nat
      /\ v \in Seq(Data) /\ Len(v) = k - 1
      /\ \A i \in 1..(k - 1) : v[i] = heap[c[i + 1]].data
  BY ValuesType DEF QueueInv, Ordered
<1>4. /\ d \in Seq(Nodes) /\ Len(d) = k - 1
      /\ \A i \in 1..(k - 1) : d[i] = c[i + 1]
  BY <1>1, <1>3, HeadTailProperties
<1>5. Contents = v /\ Contents' = Values(d)'
  BY <1>1, <1>3, <1>4 DEF ListContents, ContentsOf
<1>6. Values(d)' = [i \in 1..(k - 2) |-> heap[d[i + 1]].data]
  <2>1. Len(d) - 1 = k - 2
    BY <1>3, <1>4
  <2> QED BY <1>2, <2>1 DEF Values
<1> HIDE DEF d, k, v
<1>7. v # <<>> /\ Head(v) = v[1] /\ v[1] = heap[c[2]].data
  BY <1>1, <1>3
<1>8. /\ Tail(v) \in Seq(Data) /\ Len(Tail(v)) = k - 2
      /\ \A i \in 1..(k - 2) : Tail(v)[i] = v[i + 1]
  BY <1>3, <1>7, HeadTailProperties
<1>9. ASSUME NEW i \in 1..(k - 2)
      PROVE  heap[d[i + 1]].data = Tail(v)[i]
  <2>1. i + 1 \in 1..(k - 1)
    BY <1>3
  <2> QED BY <2>1, <1>3, <1>4, <1>8
<1>10. Tail(v) = [i \in 1..(k - 2) |-> Tail(v)[i]]
  BY <1>8, LenProperties
<1>11. Values(d)' = Tail(v)
  BY <1>6, <1>9, <1>10
<1> QED BY <1>1, <1>2, <1>5, <1>7, <1>11 DEF Fifo!Dequeue

\* Every step is one of the abstract queue, or none of its business.
LEMMA StepIsFifo ==
    ASSUME SomeList, ListContents, ListContents', [Next]_vars
    PROVE  [Fifo!Next]_(Fifo!vars)
<1>1. PICK c \in Seq(Nodes) : QueueInv(c)
  BY DEF SomeList
<1>k. \A k \in 1..Len(c) : c[k] \in Nodes
  BY ElementOfSeq
<1>2. ASSUME NEW p \in Producers, NEW n \in Nodes, NewNode(p, n)
      PROVE  UNCHANGED Fifo!vars
  <2>1. QueueInv(c)' /\ \A i \in 1..Len(c) : heap'[c[i]] = heap[c[i]]
    BY <1>1, <1>2, NewNodeInv
  <2>2. sent' = sent /\ result' = result
    BY <1>2 DEF NewNode
  <2> QED BY <1>1, <2>1, <2>2, SameValues
<1>3. ASSUME NEW p \in Producers, Exchange(p)
      PROVE  Fifo!Next
  BY <1>1, <1>3, ExchangeIsEnqueue DEF Fifo!Next
<1>4. ASSUME NEW p \in Producers, Link(p)
      PROVE  UNCHANGED Fifo!vars
  <2>1. QueueInv(c)' /\ \A n \in Nodes : heap'[n].data = heap[n].data
    BY <1>1, <1>4, LinkInv
  <2>2. sent' = sent /\ result' = result
    BY <1>4 DEF Link
  <2> QED BY <1>1, <1>k, <2>1, <2>2, SameValues
<1>5. CASE LoadNext
  <2>1. QueueInv(c)' /\ heap' = heap /\ sent' = sent /\ result' = result
    BY <1>1, <1>5, LoadNextInv DEF LoadNext
  <2> QED BY <1>1, <2>1, SameValues
<1>6. CASE TakeData
  BY <1>1, <1>6, TakeDataIsDequeue DEF Fifo!Next
<1>7. CASE DeleteTail
  <2>1. QueueInv(c)' /\ \A i \in 1..Len(c) : heap'[c[i]] = heap[c[i]]
    BY <1>1, <1>7, DeleteTailInv
  <2>2. sent' = sent /\ result' = result
    BY <1>7 DEF DeleteTail
  <2> QED BY <1>1, <2>1, <2>2, SameValues
<1>8. CASE Destroy
  <2>1. QueueInv(c)' /\ heap' = heap /\ sent' = sent /\ result' = result
    BY <1>1, <1>8, DestroyInv DEF Destroy
  <2> QED BY <1>1, <2>1, SameValues
<1>9. CASE DeleteFront
  <2>1. QueueInv(c)' /\ Len(c) = 1
    BY <1>1, <1>9, DeleteFrontInv
  <2>2. sent' = sent /\ result' = result
    BY <1>9 DEF DeleteFront
  <2>3. Contents = Values(c) /\ Contents' = Values(c)'
    BY <1>1, <2>1 DEF ListContents, ContentsOf
  <2>4. 1..(Len(c) - 1) = {}
    BY <2>1
  <2>5. Values(c)' = Values(c)
    BY <2>4 DEF Values
  <2> QED BY <2>2, <2>3, <2>5 DEF Fifo!vars
<1>10. CASE UNCHANGED vars
  <2>1. QueueInv(c)' /\ heap' = heap /\ sent' = sent /\ result' = result
    BY <1>1, <1>10, StutterInv DEF vars
  <2> QED BY <1>1, <2>1, SameValues
<1> QED
  BY <1>2, <1>3, <1>4, <1>5, <1>6, <1>7, <1>8, <1>9, <1>10 DEF Next, Enqueue, Dequeue

\* An empty list is an empty queue.
LEMMA InitIsFifo ==
    ASSUME Init, ListContents
    PROVE  Fifo!Init
<1>1. PICK c \in Seq(Nodes) : QueueInv(c) /\ Len(c) = 1
  BY InitInv
<1>2. Contents = Values(c)
  BY <1>1 DEF ListContents, ContentsOf
<1>3. Values(c) \in Seq(Data) /\ Len(Values(c)) = 0
  BY <1>1, ValuesType
<1>4. Values(c) = <<>>
  BY <1>3, EmptySeq
<1> QED BY <1>2, <1>4 DEF Init, Fifo!Init, NoValue

\* The lock-free list is a FIFO queue for any number of producers, nodes and
\* calls: values enter with the exchange of _head and leave with the store to
\* _tail, each once and in order.
THEOREM QueueIsFifo == Spec => FifoSpec
<1>1. Init /\ ListContents => Fifo!Init
  BY InitIsFifo
<1>2. SomeList /\ ListContents /\ ListContents' /\ [Next]_vars
         => [Fifo!Next]_(Fifo!vars)
  BY StepIsFifo
<1> QED BY <1>1, <1>2, OneList, ContentsFound, PTL DEF Spec, FifoSpec, Fifo!Spec

=============================================================================
