------------------------------ MODULE MPSCQueue ------------------------------
(***************************************************************************)
(* MPSCQueue: the lock-free queue through which the threads of the server   *)
(* hand packets to the network thread of a socket.  One step is one atomic  *)
(* operation on memory another thread can reach; memory orders are those of *)
(* the code and make these operations sequentially consistent.              *)
(*                                                                          *)
(* Nodes is the heap: `new' returns any address that is not in use, so a    *)
(* deleted node comes back at once.                                         *)
(***************************************************************************)
EXTENDS Naturals, Sequences, FiniteSets

CONSTANTS
    Producers,
    Nodes,
    MaxItems,       \* bound on the calls of Enqueue per producer
    Nil

ASSUME QueueAssumption ==
    /\ IsFiniteSet(Nodes) /\ Nodes # {}
    /\ MaxItems \in Nat /\ Nil \notin Nodes

VARIABLES
    heap,       \* node -> [used, data, next]
    head,       \* _head
    tail,       \* _tail
    prod,       \* producer -> [pc, node, prev]: its call of Enqueue
    cpc,        \* the consumer: "idle", "take", "delete" (in Dequeue), "gone"
    next,       \* its local variable next
    old,        \* its local variable tail
    closing,    \* the destructor runs
    sent,       \* number of Enqueue calls of each producer past the exchange
    result      \* the value the last successful Dequeue returned

consumerVars == <<cpc, next, old, closing>>
vars == <<heap, head, tail, prod, consumerVars, sent, result>>

Free     == [used |-> FALSE, data |-> <<>>, next |-> Nil]
Node(d)  == [used |-> TRUE,  data |-> d,    next |-> Nil]
Idle     == [pc |-> "idle", node |-> Nil, prev |-> Nil]
NoValue  == <<>>

\* The constructor: one node without data.
Init ==
    \E n \in Nodes :
        /\ heap = [x \in Nodes |-> IF x = n THEN Node(NoValue) ELSE Free]
        /\ head = n /\ tail = n
        /\ prod = [p \in Producers |-> Idle]
        /\ cpc = "idle" /\ next = Nil /\ old = Nil /\ closing = FALSE
        /\ sent = [p \in Producers |-> 0]
        /\ result = NoValue

(***************************************************************************)
(* Enqueue                                                                  *)
(***************************************************************************)

\* new Node(input); the queue outlives every call, so none starts once the
\* destructor runs.
NewNode(p, n) ==
    /\ prod[p].pc = "idle" /\ sent[p] < MaxItems /\ ~closing
    /\ ~heap[n].used
    /\ heap' = [heap EXCEPT ![n] = Node(<<p, sent[p] + 1>>)]
    /\ prod' = [prod EXCEPT ![p] = [pc |-> "exchange", node |-> n, prev |-> Nil]]
    /\ UNCHANGED <<head, tail, consumerVars, sent, result>>

\* Mutant: a load and a store instead of the exchange.
ExchangeMutant(p) ==
    \/ /\ prod[p].pc = "exchange"
       /\ prod' = [prod EXCEPT ![p].pc = "store", ![p].prev = head]
       /\ UNCHANGED <<heap, head, tail, consumerVars, sent, result>>
    \/ /\ prod[p].pc = "store"
       /\ prod' = [prod EXCEPT ![p].pc = "link"]
       /\ head' = prod[p].node
       /\ sent' = [sent EXCEPT ![p] = @ + 1]
       /\ UNCHANGED <<heap, tail, consumerVars, result>>

\* prevHead = _head.exchange(node)
Exchange(p) ==
    /\ prod[p].pc = "exchange"
    /\ prod' = [prod EXCEPT ![p].pc = "link", ![p].prev = head]
    /\ head' = prod[p].node
    /\ sent' = [sent EXCEPT ![p] = @ + 1]
    /\ UNCHANGED <<heap, tail, consumerVars, result>>

\* Mutant: the link is written to the node itself.
LinkMutant(p) ==
    /\ prod[p].pc = "link"
    /\ heap' = [heap EXCEPT ![prod[p].node].next = prod[p].prev]
    /\ prod' = [prod EXCEPT ![p] = Idle]
    /\ UNCHANGED <<head, tail, consumerVars, sent, result>>

\* prevHead->Next.store(node)
Link(p) ==
    /\ prod[p].pc = "link"
    /\ heap' = [heap EXCEPT ![prod[p].prev].next = prod[p].node]
    /\ prod' = [prod EXCEPT ![p] = Idle]
    /\ UNCHANGED <<head, tail, consumerVars, sent, result>>

(***************************************************************************)
(* Dequeue                                                                  *)
(***************************************************************************)

\* Mutant: the empty test compares with _head.
LoadNextMutant ==
    /\ cpc = "idle" /\ tail # head
    /\ old' = tail /\ next' = heap[tail].next
    /\ cpc' = "take"
    /\ UNCHANGED <<heap, head, tail, prod, closing, sent, result>>

\* tail = _tail, next = tail->Next; returns false if next is null.
LoadNext ==
    /\ cpc = "idle" /\ heap[tail].next # Nil
    /\ old' = tail /\ next' = heap[tail].next
    /\ cpc' = "take"
    /\ UNCHANGED <<heap, head, tail, prod, closing, sent, result>>

\* result = next->Data; _tail.store(next): both are the consumer's own.
TakeData ==
    /\ cpc = "take"
    /\ result' = heap[next].data
    /\ tail' = next
    /\ cpc' = "delete"
    /\ UNCHANGED <<heap, head, prod, next, old, closing, sent>>

\* delete tail
DeleteTail ==
    /\ cpc = "delete"
    /\ heap' = [heap EXCEPT ![old] = Free]
    /\ cpc' = "idle" /\ next' = Nil /\ old' = Nil
    /\ UNCHANGED <<head, tail, prod, closing, sent, result>>

(***************************************************************************)
(* The destructor, which runs when no thread holds the queue any more       *)
(***************************************************************************)

Destroy ==
    /\ cpc = "idle" /\ ~closing /\ \A p \in Producers : prod[p].pc = "idle"
    /\ closing' = TRUE
    /\ UNCHANGED <<heap, head, tail, prod, cpc, next, old, sent, result>>

\* delete front, once Dequeue has returned false.
DeleteFront ==
    /\ closing /\ cpc = "idle" /\ heap[tail].next = Nil
    /\ heap' = [heap EXCEPT ![head] = Free]
    /\ cpc' = "gone"
    /\ UNCHANGED <<head, tail, prod, next, old, closing, sent, result>>

-----------------------------------------------------------------------------
Enqueue(p) == (\E n \in Nodes : NewNode(p, n)) \/ Exchange(p) \/ Link(p)
Dequeue    == LoadNext \/ TakeData \/ DeleteTail

Next ==
    \/ Dequeue \/ Destroy \/ DeleteFront
    \/ \E p \in Producers : Enqueue(p)
    \/ cpc = "gone" /\ UNCHANGED vars

Spec == Init /\ [][Next]_vars

\* A thread inside Enqueue goes on, and the network thread keeps calling
\* Dequeue (WorldSocket::Update, every 10 ms).
FairSpec == /\ Spec
            /\ WF_vars(Dequeue)
            /\ \A p \in Producers : WF_vars(Exchange(p) \/ Link(p))

-----------------------------------------------------------------------------
(***************************************************************************)
(* Properties                                                               *)
(***************************************************************************)

\* The variables have the types of the fields they model.
TypeOK ==
    /\ heap \in [Nodes -> [used : BOOLEAN,
                           data : {NoValue} \cup (Producers \X (1..MaxItems)),
                           next : Nodes \cup {Nil}]]
    /\ head \in Nodes /\ tail \in Nodes
    /\ prod \in [Producers -> [pc   : {"idle", "exchange", "link"},
                               node : Nodes \cup {Nil},
                               prev : Nodes \cup {Nil}]]
    /\ cpc \in {"idle", "take", "delete", "gone"}
    /\ next \in Nodes \cup {Nil} /\ old \in Nodes \cup {Nil}
    /\ closing \in BOOLEAN
    /\ sent \in [Producers -> 0..MaxItems]
    /\ result \in {NoValue} \cup (Producers \X (1..MaxItems))

\* No thread touches a deleted node, though nodes are deleted while producers
\* are between their exchange and the store into the node before theirs; and the
\* destructor leaves no node behind.
NoUseAfterFree ==
    /\ TypeOK
    /\ \A p \in Producers :
          /\ prod[p].pc # "idle" => heap[prod[p].node].used
          /\ prod[p].pc = "link" => heap[prod[p].prev].used
    /\ cpc # "gone" => heap[tail].used /\ heap[head].used
    /\ cpc = "take" => next # Nil /\ heap[next].used
    /\ cpc = "delete" => heap[old].used
    /\ cpc = "gone" => \A n \in Nodes : ~heap[n].used

\* Node n comes after m: it is linked, or about to be by the producer that found
\* m in _head.
Follows(m, n) ==
    \/ heap[m].next = n
    \/ \E p \in Producers : /\ prod[p].pc = "link"
                            /\ prod[p].prev = m /\ prod[p].node = n

\* c is the list of the nodes from _tail to _head, in the order of the exchanges.
IsChain(c) ==
    /\ c[1] = tail /\ c[Len(c)] = head
    /\ \A i, j \in 1..Len(c) : c[i] = c[j] => i = j
    /\ \A i \in 1..(Len(c) - 1) : Follows(c[i], c[i + 1])

Chains == UNION {[1..k -> Nodes] : k \in 1..Cardinality(Nodes)}

List == CHOOSE c \in Chains : IsChain(c)

\* The values in the queue: those of the nodes after _tail.
Contents == [k \in 1..(Len(List) - 1) |-> heap[List[k + 1]].data]

Fifo == INSTANCE FifoQueue WITH queue <- Contents

\* The list of nodes implements a FIFO queue: a value enters with the exchange
\* and leaves with the store to _tail, none is lost, repeated or overtaken.
FifoSpec == Fifo!Spec

\* Every value whose Enqueue got past the exchange is taken out.
AllDelivered ==
    \A p \in Producers : \A k \in 1..MaxItems :
        (prod[p].pc = "link" /\ heap[prod[p].node].data = <<p, k>>)
            ~> (result = <<p, k>>)

=============================================================================
