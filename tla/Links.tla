------------------------------- MODULE Links --------------------------------
(***************************************************************************)
(* What the transport promises the replicas, and what Consensus assumes of *)
(* links without injected faults: between any two replicas, every message  *)
(* that was sent is handled, once and in the order of sending.             *)
(***************************************************************************)
EXTENDS Integers, Sequences

CONSTANT Node

VARIABLES
    sent,    \* sent[p][q]: messages p has sent to q; they are numbered
    queue    \* queue[p][q]: those that q has not handled yet

vars == <<sent, queue>>

Init == /\ sent = [p \in Node |-> [q \in Node |-> 0]]
        /\ queue = [p \in Node |-> [q \in Node |-> <<>>]]

Send(p, q) == /\ sent' = [sent EXCEPT ![p][q] = @ + 1]
              /\ queue' = [queue EXCEPT ![p][q] = Append(@, sent'[p][q])]

Handle(p, q) == /\ queue[p][q] # <<>>
                /\ queue' = [queue EXCEPT ![p][q] = Tail(@)]
                /\ UNCHANGED sent

Next == \E p, q \in Node : Send(p, q) \/ Handle(p, q)

Spec == Init /\ [][Next]_vars
=============================================================================
