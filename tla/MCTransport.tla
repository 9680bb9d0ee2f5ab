---------------------------- MODULE MCTransport -----------------------------
(***************************************************************************)
(* Transport for TLC: with TCP and channels of one slot, enough requests   *)
(* at each of two replicas for them to wait for one another; with chan,    *)
(* whose way holds two messages more, fewer.                               *)
(***************************************************************************)
EXTENDS Transport

MCRequests == [k \in Schemes |-> [n \in Node |-> IF k = "tcp" THEN 6 ELSE 2]]
=============================================================================
