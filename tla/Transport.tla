----------------------------- MODULE Transport ------------------------------
(***************************************************************************)
(* The way of a message from one replica to another: through the send      *)
(* channel of a transport, a TCP connection or a channel that all senders  *)
(* of the process share (scheme "chan"), the recv channel of the receiving *)
(* transport (src/transport.go), the goroutine node.recv and the           *)
(* MessageChan, into which HTTP requests go as well, to the goroutine      *)
(* node.handle (src/node.go, src/http.go), whose handlers broadcast        *)
(* messages in turn (src/socket.go).  All channels are bounded, and all    *)
(* sends block: a replica whose handler is blocked handles nothing.        *)
(*                                                                         *)
(* Replicas start one after the other.  The first message to a replica     *)
(* dials it, again and again while it has not started; a sender that gives *)
(* up panics, and there the model ends.                                    *)
(***************************************************************************)
EXTENDS Integers, FiniteSets, Sequences, SequencesExt

CONSTANTS
    Node,            \* the replicas
    ChanBufferSize,  \* capacity of the channels
    Wire,            \* messages a connection holds, with those being encoded
                     \* and decoded (external)
    Schemes,         \* the schemes of addresses: "tcp", "chan"
    Attempts,        \* how often Send dials (100)
    Requests,        \* bound: Requests[k][n], HTTP requests at n with scheme k
    MaxVotes         \* bound: Votes broadcast by each replica

ASSUME TransportSizes == /\ Schemes \subseteq {"tcp", "chan"}
                         /\ Requests \in [Schemes -> [Node -> Nat]]
                         /\ Attempts \in Nat \ {0}
                         /\ ChanBufferSize \in Nat \ {0} /\ Wire \in Nat \ {0}
                         /\ MaxVotes \in Nat /\ IsFiniteSet(Node)

VARIABLES
    scheme,   \* the scheme of all addresses; constant
    up,       \* the replicas that listen
    dialled,  \* dialled[n]: the replicas in socket.nodes of n
    tries,    \* tries[n]: times the Send that runs has dialled in vain
    panicked, \* the replicas that gave up
    http,     \* HTTP goroutines waiting to put their request in MessageChan
    box,      \* MessageChan of each replica
    todo,     \* whom the handler's Broadcast has still to send to, in order
    send,     \* send[p][q]: the send channel of p's transport to q
    conn,     \* conn[p][q]: the connection, or what Dial's goroutine holds
    shared,   \* chans[q], with what Listen's goroutine has taken from it
    recv,     \* the recv channel of each replica's own transport
    hand,     \* what node.recv has taken and not passed on
    votes,    \* Votes broadcast
    sent      \* sent[p][q]: messages p has sent to q

dialling == <<scheme, up, dialled, tries, panicked>>
vars     == <<dialling, http, box, todo, send, conn, shared, recv, hand, votes, sent>>

\* A request is a message of the replica to itself.
Request(n) == [from |-> n, no |-> 0]

Capacity == ChanBufferSize

Room(ch) == Len(ch) < Capacity

Init == /\ scheme \in Schemes
        /\ up = {} /\ dialled = [n \in Node |-> {}]
        /\ tries = [n \in Node |-> 0] /\ panicked = {}
        /\ http = Requests[scheme]
        /\ box = [n \in Node |-> <<>>] /\ todo = [n \in Node |-> <<>>]
        /\ send = [p \in Node |-> [q \in Node |-> <<>>]]
        /\ conn = [p \in Node |-> [q \in Node |-> <<>>]]
        /\ shared = [n \in Node |-> <<>>]
        /\ recv = [n \in Node |-> <<>>] /\ hand = [n \in Node |-> <<>>]
        /\ votes = [n \in Node |-> 0]
        /\ sent = [p \in Node |-> [q \in Node |-> 0]]

\* NewSocket listens, and the replica runs.
Start(n) ==
    /\ n \notin up
    /\ up' = up \cup {n}
    /\ UNCHANGED <<scheme, dialled, tries, panicked, http, box, todo, send, conn,
                   shared, recv, hand, votes, sent>>

\* handleRoot: n.MessageChan <- req.
Post(n) ==
    /\ n \in up /\ http[n] > 0 /\ Room(box[n])
    /\ http' = [http EXCEPT ![n] = @ - 1]
    /\ box' = [box EXCEPT ![n] = Append(@, Request(n))]
    /\ UNCHANGED <<dialling, shared, todo, send, conn, recv, hand, votes, sent>>

\* Broadcast sends to the other replicas in any order.
BroadcastTo(n) ==
    \E order \in SetToSeqs(Node \ {n}) : todo' = [todo EXCEPT ![n] = order]

\* node.handle takes a message: a request makes the handler broadcast a Propose,
\* another message may make it broadcast a Vote.
Handle(n) ==
    /\ todo[n] = <<>> /\ box[n] # <<>>
    /\ box' = [box EXCEPT ![n] = Tail(@)]
    /\ \/ /\ Head(box[n]) = Request(n)
          /\ BroadcastTo(n)
          /\ UNCHANGED votes
       \/ /\ Head(box[n]) # Request(n) /\ votes[n] < MaxVotes
          /\ BroadcastTo(n)
          /\ votes' = [votes EXCEPT ![n] = @ + 1]
       \/ /\ Head(box[n]) # Request(n)
          /\ UNCHANGED <<todo, votes>>
    /\ UNCHANGED <<dialling, shared, http, send, conn, recv, hand, sent>>

\* p's Broadcast has come to q.
SendsTo(p, q) == todo[p] # <<>> /\ Head(todo[p]) = q

\* Retry: the dial that fails now was the last.
LastTry(p) == tries[p] + 1 >= Attempts

\* Send has no transport to q and dials.
Dial(p, q) ==
    /\ SendsTo(p, q) /\ q \notin dialled[p]
    /\ \/ /\ q \in up
          /\ dialled' = [dialled EXCEPT ![p] = @ \cup {q}]
          /\ tries' = [tries EXCEPT ![p] = 0]
          /\ UNCHANGED panicked
       \/ /\ q \notin up
          /\ tries' = [tries EXCEPT ![p] = @ + 1]
          /\ panicked' = panicked \cup {x \in {p} : LastTry(x)}
          /\ UNCHANGED dialled
    /\ UNCHANGED <<scheme, up, http, box, todo, send, conn, shared, recv, hand, votes, sent>>

\* An iteration of Broadcast: t.send <- m blocks while the channel is full.
Send(p, q) ==
    /\ SendsTo(p, q) /\ q \in dialled[p] /\ Room(send[p][q])
    /\ todo' = [todo EXCEPT ![p] = Tail(@)]
    /\ sent' = [sent EXCEPT ![p][q] = @ + 1]
    /\ send' = [send EXCEPT ![p][q] = Append(@, [from |-> p, no |-> sent'[p][q]])]
    /\ UNCHANGED <<dialling, shared, http, box, conn, recv, hand, votes>>

\* What conn holds: with chan the goroutine of Dial takes one message at a time.
WireRoom == IF scheme = "tcp" THEN Wire ELSE 1

\* The goroutine of Dial encodes a message on the connection.
Encode(p, q) ==
    /\ send[p][q] # <<>> /\ Len(conn[p][q]) < WireRoom
    /\ conn' = [conn EXCEPT ![p][q] = Append(@, Head(send[p][q]))]
    /\ send' = [send EXCEPT ![p][q] = Tail(@)]
    /\ UNCHANGED <<dialling, shared, http, box, todo, recv, hand, votes, sent>>

\* mutant: what arrives while the channel is full is dropped
DecodeOrDrop(p, q) ==
    /\ scheme = "tcp" /\ conn[p][q] # <<>>
    /\ recv' = [recv EXCEPT ![q] = IF Room(@) THEN Append(@, Head(conn[p][q]))
                                              ELSE @]
    /\ conn' = [conn EXCEPT ![p][q] = Tail(@)]
    /\ UNCHANGED <<dialling, shared, http, box, todo, send, hand, votes, sent>>

\* The goroutine of Listen decodes it and puts it in the recv channel.
Decode(p, q) ==
    /\ scheme = "tcp" /\ conn[p][q] # <<>> /\ Room(recv[q])
    /\ recv' = [recv EXCEPT ![q] = Append(@, Head(conn[p][q]))]
    /\ conn' = [conn EXCEPT ![p][q] = Tail(@)]
    /\ UNCHANGED <<dialling, shared, http, box, todo, send, hand, votes, sent>>

\* With chan: Dial's goroutine puts the message in the channel of q's host, which
\* all senders share, and Listen's goroutine moves it to the recv channel.
Join(p, q) ==
    /\ scheme = "chan" /\ conn[p][q] # <<>> /\ Len(shared[q]) < Capacity + 1
    /\ shared' = [shared EXCEPT ![q] = Append(@, Head(conn[p][q]))]
    /\ conn' = [conn EXCEPT ![p][q] = Tail(@)]
    /\ UNCHANGED <<dialling, http, box, todo, send, recv, hand, votes, sent>>

Listen(q) ==
    /\ shared[q] # <<>> /\ Room(recv[q])
    /\ recv' = [recv EXCEPT ![q] = Append(@, Head(shared[q]))]
    /\ shared' = [shared EXCEPT ![q] = Tail(@)]
    /\ UNCHANGED <<dialling, http, box, todo, send, conn, hand, votes, sent>>

\* mutant: a message is left in the channel until there is room to pass it on
TakeWhenRoom(n) ==
    /\ hand[n] = <<>> /\ recv[n] # <<>> /\ Room(box[n])
    /\ hand' = [hand EXCEPT ![n] = <<Head(recv[n])>>]
    /\ recv' = [recv EXCEPT ![n] = Tail(@)]
    /\ UNCHANGED <<dialling, shared, http, box, todo, send, conn, votes, sent>>

\* node.recv takes a message from the socket, then passes it to MessageChan.
Take(n) ==
    /\ hand[n] = <<>> /\ recv[n] # <<>>
    /\ hand' = [hand EXCEPT ![n] = <<Head(recv[n])>>]
    /\ recv' = [recv EXCEPT ![n] = Tail(@)]
    /\ UNCHANGED <<dialling, shared, http, box, todo, send, conn, votes, sent>>

Pass(n) ==
    /\ hand[n] # <<>> /\ Room(box[n])
    /\ box' = [box EXCEPT ![n] = @ \o hand[n]]
    /\ hand' = [hand EXCEPT ![n] = <<>>]
    /\ UNCHANGED <<dialling, shared, http, todo, send, conn, recv, votes, sent>>

Next == /\ panicked = {}
        /\ \/ \E n \in Node : \/ Start(n) \/ Post(n) \/ Handle(n)
                              \/ Listen(n) \/ Take(n) \/ Pass(n)
           \/ \E p, q \in Node : Dial(p, q) \/ Send(p, q) \/ Encode(p, q)
                                  \/ Decode(p, q) \/ Join(p, q)

Spec == Init /\ [][Next]_vars

\* Every goroutine goes on while it can: each message takes finitely many
\* steps, so that it is enough that some goroutine does.
FairSpec == Spec /\ WF_vars(Next)

-----------------------------------------------------------------------------
(* Properties *)

\* The messages of p in a channel, in their order.
From(p, ch) ==
    LET f[i \in 0..Len(ch)] == IF i = 0 THEN <<>>
                               ELSE IF ch[i].from = p THEN Append(f[i - 1], ch[i])
                               ELSE f[i - 1]
    IN f[Len(ch)]

\* What is on its way from p to q, the oldest message first.
Path(p, q) == From(p, box[q]) \o From(p, hand[q]) \o From(p, recv[q])
                \o From(p, shared[q]) \o conn[p][q] \o send[p][q]
OnTheWay(p, q) == IF p = q THEN <<>>
                  ELSE LET way == Path(p, q) IN [i \in DOMAIN way |-> way[i].no]

L == INSTANCE Links
       WITH queue <- [p \in Node |-> [q \in Node |-> OnTheWay(p, q)]]

\* The chain of channels and goroutines between two replicas is one queue that
\* loses, repeats and reorders nothing while the connections hold: when Encode returns
\* an error, which Dial's goroutine only logs, its message is lost, as on the lossy
\* links of Consensus (Dial, Listen, recv, handle).
ImplementsLinks == L!Spec

\* Nothing is left of what was requested and broadcast.
Quiet == \A n \in Node :
    /\ http[n] = 0 /\ box[n] = <<>> /\ todo[n] = <<>>
    /\ shared[n] = <<>> /\ recv[n] = <<>> /\ hand[n] = <<>>
    /\ \A q \in Node : send[n][q] = <<>> /\ conn[n][q] = <<>>

\* The handler of p waits for room on the way to q, every part of which is full.
Blocked(p, q) ==
    /\ SendsTo(p, q) /\ q \in dialled[p]
    /\ \A ch \in {send[p][q], recv[q], box[q]} : ~Room(ch)
    /\ Len(conn[p][q]) = WireRoom /\ hand[q] # <<>>
    /\ scheme = "chan" => Len(shared[q]) = Capacity + 1

\* Replicas whose handlers wait for one another: none of them handles the
\* messages that keep another one waiting.
CircularWait == \E S \in SUBSET Node \ {{}} : \A p \in S : \E q \in S : Blocked(p, q)

\* All requests and messages are handled in the end, those sent to a replica
\* before it has started included, unless a sender gave up dialling or replicas
\* that broadcast at the same time have come to wait for one another, which takes
\* as many messages as fill the whole way between them (Dial, Send, recv, handle).
AllHandled == <>[](panicked # {} \/ Quiet \/ CircularWait)
=============================================================================
