------------------------------ MODULE HashRing ------------------------------
(***************************************************************************)
(* The hash ring of src/lib/hash_ring.go: a circular list of nodes in the  *)
(* order of their hashes, kept here as the sequence from head to the node  *)
(* whose next is head.  Hashes (md5, external) are numbers.                *)
(***************************************************************************)
EXTENDS Integers, Sequences, SequencesExt

CONSTANTS
    Hash,        \* hashes of nodes and of keys
    RingValue,   \* what the nodes hold
    MaxNodes     \* bound: nodes

ASSUME HashAssumption == Hash \subseteq Nat

VARIABLE ring    \* [hash, value] of each node, from head on

PassedAll(r, h) ==    \* mutant: the new node becomes the tail
    Len(r)

\* How many nodes from the head on the loop of Insert passes: those with a lower
\* hash, up to the tail.
Passed(r, h) == IF r = <<>> \/ r[1].hash >= h THEN 0
                ELSE CHOOSE i \in DOMAIN r :
                       /\ \A j \in 2..i : r[j].hash < h
                       /\ i = Len(r) \/ r[i + 1].hash >= h

Insert(h, v) ==
    /\ Len(ring) < MaxNodes
    /\ ring' = InsertAt(ring, Passed(ring, h) + 1, [hash |-> h, value |-> v])

\* search(h), which Get calls: the first node with a higher hash; the loop ends before it looks
\* at the tail, and answers the head.
Found(r, h) ==
    LET higher == {i \in 1..(Len(r) - 1) : h < r[i].hash}
    IN r[IF higher = {} THEN 1 ELSE CHOOSE i \in higher : \A j \in higher : i <= j]

RingNext == \E h \in Hash, v \in RingValue : Insert(h, v)

RingSpec == ring = <<>> /\ [][RingNext]_ring

-----------------------------------------------------------------------------
(* Properties *)

Ordered(r) == \A i \in 1..(Len(r) - 1) : r[i].hash <= r[i + 1].hash

\* Inserting a node keeps the ring in the order of the hashes and moves keys to
\* the new node only; but when the new node becomes the tail, which search never
\* looks at, it gets none and the keys of the old tail go to the old tail at last
\* (Insert, search, Get).
KeysMove ==
    [][ring # <<>> =>
         \E p \in DOMAIN ring' :
            /\ ring = RemoveAt(ring', p) /\ Ordered(ring')
            /\ \A h \in Hash : Found(ring', h) # Found(ring, h) =>
                 Found(ring', h) = IF p = Len(ring') THEN Last(ring) ELSE ring'[p]]_ring
=============================================================================
