---------------------------- MODULE MCConsensus ----------------------------
(* Small instances of Consensus for TLC. *)
EXTENDS Consensus, TLC

\* The benchmark's workers race for the round-robin counter.
AnyReplica(k) == Node

\* A single worker goes round the replicas in the order of their identifiers.
RoundRobin(k) == {SetToSeq(Node)[(k % N) + 1]}

\* The replicas are interchangeable: nothing compares their identifiers.
NodeSymmetry == Permutations(Node)
=============================================================================
