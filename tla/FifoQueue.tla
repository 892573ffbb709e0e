------------------------------ MODULE FifoQueue ------------------------------
(***************************************************************************)
(* What a queue with several producers and one consumer promises: values    *)
(* come out once each, in the order in which they went in.  A consumer may  *)
(* be told that the queue is empty at any time: that changes nothing here.  *)
(***************************************************************************)
EXTENDS Naturals, Sequences

CONSTANTS Producers, MaxItems

VARIABLES
    sent,       \* how many values each producer has put in
    queue,      \* the values inside, oldest first
    result      \* the value taken out last, <<>> before the first

vars == <<sent, queue, result>>

\* The k-th value of producer p.
Item(p, k) == <<p, k>>

Init == sent = [p \in Producers |-> 0] /\ queue = <<>> /\ result = <<>>

Enqueue(p) ==
    /\ sent[p] < MaxItems
    /\ sent' = [sent EXCEPT ![p] = @ + 1]
    /\ queue' = Append(queue, Item(p, sent[p] + 1))
    /\ UNCHANGED result

Dequeue ==
    /\ queue # <<>>
    /\ result' = Head(queue)
    /\ queue' = Tail(queue)
    /\ UNCHANGED sent

Next == Dequeue \/ \E p \in Producers : Enqueue(p)

Spec == Init /\ [][Next]_vars

=============================================================================
