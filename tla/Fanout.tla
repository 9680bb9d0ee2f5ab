------------------------------- MODULE Fanout -------------------------------
(***************************************************************************)
(* The operations of the HTTP client that address several replicas at once *)
(* (src/client.go): a goroutine per replica makes the call and passes the  *)
(* value and the headers of its answer on, each through a channel; the     *)
(* caller takes as many of them as it thinks it has started goroutines.    *)
(***************************************************************************)
EXTENDS Integers, FiniteSets, Sequences, SequencesExt

CONSTANTS
    Peer,      \* the keys of c.HTTP
    Local,     \* those in the client's zone
    Ops,       \* the operations called
    Errors     \* TRUE: a call may fail

ASSUME FanoutPeers  == /\ IsFiniteSet(Peer)
                       /\ Local \subseteq Peer /\ Local # {}
ASSUME FanoutOps    == Ops \subseteq {"GetMUL", "PutMUL", "QuorumGet",
                                      "LocalQuorumGet", "QuorumPut"}
ASSUME FanoutErrors == Errors \in BOOLEAN

PeerN  == Cardinality(Peer)
LocalN == Cardinality(Local)

VARIABLES
    op,       \* the operation
    targets,  \* the replicas it calls: map iteration picks any
    go,       \* where the goroutine of each target is
    valueC,   \* the channels of values and of headers, each with the sender's
    metaC,    \* name for what it sent
    left,     \* the caller's i: what it still waits for
    caller,   \* "value", "meta" or "done": what it waits for next
    values,   \* what it has received
    metas,
    answered  \* history: the targets whose answer has come

fanoutVars == <<op, targets, go, valueC, metaC, left, caller, values, metas,
                answered>>

\* The majority QuorumGet asks MultiGet for.
Quorum == PeerN \div 2 + 1

\* How many goroutines the operation starts, and for how many it waits.
Started(o) == CASE o \in {"GetMUL", "PutMUL"} -> PeerN
                [] o = "QuorumGet"            -> Quorum
                [] o = "LocalQuorumGet"       -> LocalN \div 2
                [] o = "QuorumPut"            -> PeerN \div 2

AwaitedShort(o) == IF o = "LocalQuorumGet" THEN LocalN \div 2 + 2
                   ELSE Started(o) - 1   \* mutant: off by one
AwaitedLong(o)  == Started(o) + 1   \* mutant: off by one

Awaited(o) == IF o = "LocalQuorumGet" THEN LocalN \div 2 + 2 ELSE Started(o)

\* Where it looks for replicas.
Candidates(o) == IF o = "LocalQuorumGet" THEN Local ELSE Peer

\* Headers are passed on by the reads only.
Pairs(o) == o \in {"GetMUL", "QuorumGet", "LocalQuorumGet"}

CapacityAll(o) == PeerN   \* mutant: every operation buffers, as GetMUL does

\* Capacity of the channels; a WaitGroup takes any number of Dones.
Capacity(o) == IF o \in {"GetMUL", "PutMUL", "QuorumPut"} THEN PeerN ELSE 0

FanoutInit ==
    /\ op \in Ops
    /\ targets \in {S \in SUBSET Candidates(op) : Cardinality(S) = Started(op)}
    /\ go = [r \in targets |-> "call"]
    /\ valueC = <<>> /\ metaC = <<>>
    /\ left = Awaited(op)
    /\ caller = IF Awaited(op) = 0 THEN "done" ELSE "value"
    /\ values = <<>> /\ metas = <<>> /\ answered = {}

\* c.rest returns with the answer of r.
Called(r) ==
    /\ go[r] = "call"
    /\ go' = [go EXCEPT ![r] = "value"]
    /\ answered' = answered \cup {r}
    /\ UNCHANGED <<op, targets, valueC, metaC, left, caller, values, metas>>

\* c.rest returns an error: the goroutine ends without a word, but QuorumPut,
\* which ignores the result, counts it off all the same.
CallFails(r) ==
    /\ go[r] = "call" /\ Errors
    /\ go' = [go EXCEPT ![r] = IF op = "QuorumPut" THEN "value" ELSE "end"]
    /\ UNCHANGED <<op, targets, valueC, metaC, left, caller, values, metas, answered>>

\* The next place of a goroutine that has sent its value.
SentValue(r) == [go EXCEPT ![r] = IF Pairs(op) THEN "meta" ELSE "end"]

\* The goroutine puts its value, then its headers, in a buffered channel.
PutValue(r) ==
    /\ go[r] = "value" /\ Len(valueC) < Capacity(op)
    /\ valueC' = Append(valueC, r)
    /\ go' = SentValue(r)
    /\ UNCHANGED <<op, targets, metaC, left, caller, values, metas, answered>>

PutMeta(r) ==
    /\ go[r] = "meta" /\ Len(metaC) < Capacity(op)
    /\ metaC' = Append(metaC, r)
    /\ go' = [go EXCEPT ![r] = "end"]
    /\ UNCHANGED <<op, targets, valueC, left, caller, values, metas, answered>>

\* The caller's loop, after a value and after its headers.
AfterValue == IF Pairs(op) THEN "meta" ELSE IF left = 1 THEN "done" ELSE "value"
AfterMeta  == IF left = 1 THEN "done" ELSE "value"

\* The caller has got the value of r.
GotValue(r) ==
    /\ caller = "value"
    /\ values' = Append(values, r)
    /\ caller' = AfterValue
    /\ left' = IF Pairs(op) THEN left ELSE left - 1

GotMeta(r) ==
    /\ caller = "meta"
    /\ metas' = Append(metas, r)
    /\ caller' = AfterMeta
    /\ left' = left - 1

\* It takes them from a buffer, or from a goroutine that is there to send.
TakeValue ==
    /\ valueC # <<>>
    /\ GotValue(Head(valueC))
    /\ valueC' = Tail(valueC)
    /\ UNCHANGED <<op, targets, go, metaC, metas, answered>>

TakeMeta ==
    /\ metaC # <<>>
    /\ GotMeta(Head(metaC))
    /\ metaC' = Tail(metaC)
    /\ UNCHANGED <<op, targets, go, valueC, values, answered>>

MeetValue(r) ==
    /\ go[r] = "value" /\ Capacity(op) = 0
    /\ GotValue(r)
    /\ go' = SentValue(r)
    /\ UNCHANGED <<op, targets, valueC, metaC, metas, answered>>

MeetMeta(r) ==
    /\ go[r] = "meta" /\ Capacity(op) = 0
    /\ GotMeta(r)
    /\ go' = [go EXCEPT ![r] = "end"]
    /\ UNCHANGED <<op, targets, valueC, metaC, values, answered>>

\* What the goroutines do by themselves, once a call has returned.
Passing == \/ \E r \in targets : \/ PutValue(r) \/ PutMeta(r)
                                 \/ MeetValue(r) \/ MeetMeta(r)
           \/ TakeValue \/ TakeMeta

FanoutNext == Passing \/ \E r \in targets : Called(r) \/ CallFails(r)

FanoutSpec == FanoutInit /\ [][FanoutNext]_fanoutVars

\* The goroutines go on while they can.  The HTTP client has no timeout and the
\* replicas may leave a request unanswered: a call need not return.
FairFanout == FanoutSpec /\ WF_fanoutVars(Passing)

-----------------------------------------------------------------------------
(* Properties *)

\* A value and the headers in the same place of the result come from the same
\* replica, though a goroutine sends them through two channels (MultiGet).
Paired == op # "GetMUL" => \A i \in DOMAIN metas : values[i] = metas[i]

\* When the operation returns it has counted each call once, and except for
\* QuorumPut, which returns when its calls have failed as well, each replica it
\* called has answered; for QuorumGet they are a majority, also when c.HTTP has an
\* even number of replicas (GetMUL, PutMUL, MultiGet, QuorumGet, QuorumPut).
AllHeard == caller = "done" =>
              /\ ToSet(values) = targets /\ Len(values) = Cardinality(targets)
              /\ op # "QuorumPut" => answered = targets
              /\ Pairs(op) => ToSet(metas) = targets
              /\ op = "QuorumGet" => 2 * Cardinality(answered) > PeerN

\* The call of r failed and nothing will come from it.
Silent(r) == go[r] = "end" /\ r \notin answered

\* The operation returns unless a call has not returned or, except for QuorumPut,
\* has failed: the goroutines and the caller do not wait for one another at their
\* channels.  LocalQuorumGet, which waits for more answers than it asks for, is not
\* promised to return (GetMUL, PutMUL, MultiGet, QuorumPut).
OpReturns == op # "LocalQuorumGet" =>
               <>[](caller = "done"
                      \/ \E r \in targets : go[r] = "call"
                                            \/ (op # "QuorumPut" /\ Silent(r)))

\* "QuorumPut concurrently write values to majority of nodes" (src/client.go:345):
\* when it returns more than half of the replicas have answered.
MajorityWritten == op = "QuorumPut" /\ caller = "done" =>
                     2 * Cardinality(answered) > PeerN
=============================================================================
