----------------------------- MODULE Consensus -----------------------------
(***************************************************************************)
(* The replicas of BigBFT (src/consensus/consensus.go), the HTTP requests  *)
(* that reach them (src/http.go, src/client.go) and the links between them *)
(* (src/socket.go, src/transport.go).                                      *)
(*                                                                         *)
(* Every replica is a leader.  A client numbers its writes 0, 1, 2, ... and *)
(* sends each to some replica; the number is the log slot.  The replica    *)
(* that gets a request broadcasts Propose; the others record what they     *)
(* accept in the map p.l and, when p.l holds Total (Benchmark.Concurrency) *)
(* commands, broadcast the whole map in one Vote.  A replica that holds    *)
(* N \div 2 acknowledgements for a slot commits it, and executes committed *)
(* slots in order.                                                         *)
(*                                                                         *)
(* All handlers of a replica run on one goroutine (node.handle), so they   *)
(* do not interleave with one another; the loops inside them, which visit  *)
(* Go maps in any order, are broken into one step per iteration.           *)
(***************************************************************************)
EXTENDS Integers, FiniteSets, Sequences, Functions, SequencesExt

CONSTANTS
    Node,         \* replicas: the keys of config.Addrs
    Client,       \* benchmark processes, each numbering its writes from 0
    Total,        \* Quorum.Total(): config.Benchmark.Concurrency
    NumRequests,  \* bound: writes issued by each client (Benchmark.N)
    Lossy,        \* TRUE: links lose messages (Drop, Flaky, Crash)
    Slow,         \* TRUE: links reorder messages (Slow)
    Targets(_)    \* replicas Put may send the write with a given counter to

ASSUME NodeAssumption  == IsFiniteSet(Node) /\ Node # {}
ASSUME TotalAssumption == Total \in Nat \ {0}
ASSUME BoundAssumption == NumRequests \in Nat
ASSUME LinkAssumption  == Lossy \in BOOLEAN /\ Slow \in BOOLEAN

N == Cardinality(Node)

(***************************************************************************)
(* The data.  A command carries the client's counter, which is the slot.   *)
(* A CommandBallot names the replica that accepted the command.            *)
(***************************************************************************)
Command       == [client : Client, counter : Nat]
CommandBallot == [cmd : Command, id : Node]

Slot(c) == c.counter

Entry == [cmd : Command, commit : BOOLEAN, voted : BOOLEAN, leader : BOOLEAN,
          request : BOOLEAN, acks : SUBSET Node]

(***************************************************************************)
(* A Vote broadcast by exec carries the live map p.l, which the transport  *)
(* goroutines encode later: until then it is a VoteRef.                    *)
(***************************************************************************)
ProposeMsg(c) == [type |-> "Propose", cmd |-> c]
VoteMsg(L)    == [type |-> "Vote", L |-> L]
VoteRef       == [type |-> "VoteRef"]

Message == [type : {"Propose"}, cmd : Command]
             \cup [type : {"Vote"}, L : SUBSET CommandBallot]
             \cup {VoteRef}

VARIABLES
    http,      \* http[n]: requests waiting in n's MessageChan
    net,       \* net[p][q]: what p sent to q and q has not handled yet
    log,       \* log[n]: slot -> Entry
    execute,   \* execute[n]: next slot to execute
    l,         \* l[n]: the map of accepted CommandBallots not voted yet
    count,     \* count[n]: highest number of entries counted, minus one
    flag2,     \* flag2[n]: highest slot seen when the entries were voted
    tally,     \* tally[n]: what the Vote being handled still has to count
    sweep,     \* sweep[n]: slots HandlePropose's last loop still has to visit
    issued,    \* issued[c]: writes c has issued
    replied,   \* commands answered to their client
    done,      \* history: done[n] is what n executed, by slot
    accepted   \* history: everything n ever recorded in its p.l

replica == <<log, execute, l, count, flag2, tally, sweep>>
history == <<done, accepted>>
vars    == <<http, net, replica, issued, replied, history>>

-----------------------------------------------------------------------------
(* Helpers *)

Put(f, k, v) == [x \in DOMAIN f \cup {k} |-> IF x = k THEN v ELSE f[x]]

\* Quorum.Majority: the size counts the voters, never the replica itself.
Majority(acks) == Cardinality(acks) >= N \div 2

\* p.l[slot] = &CommandBallot{...}: one CommandBallot per slot.
Record(L, cb) == {x \in L : Slot(x.cmd) # Slot(cb.cmd)} \cup {cb}

\* h is the highest of the slots in S and f.
Highest(f, S, h) == h \in S \cup {f} /\ \A x \in S \cup {f} : x <= h

\* The entry made for a command heard of from another replica.
Heard(c) == [cmd |-> c, commit |-> FALSE, voted |-> FALSE, leader |-> FALSE,
             request |-> FALSE, acks |-> {}]

\* mutant: the entry of a proposal is not marked as led here
RequestedNotLed(c) == [Heard(c) EXCEPT !.voted = TRUE, !.request = TRUE]

\* The entry a leader makes for the request of a client.
Requested(c) == [Heard(c) EXCEPT !.voted = TRUE, !.leader = TRUE,
                                 !.request = TRUE]

\* mutant: a proposal replaces the entry that votes already made
AdoptedAnew(lg, c) == Heard(c)

\* The entry for a proposed command: the one lg has, if any, no longer led here.
Adopted(lg, c) == IF Slot(c) \in DOMAIN lg
                  THEN [lg[Slot(c)] EXCEPT !.leader = FALSE]
                  ELSE Heard(c)

\* Every entry of lg marked as voted.
AllVoted(lg) == [s \in DOMAIN lg |-> [lg[s] EXCEPT !.voted = TRUE]]

\* mutant: the sender is not left out
BroadcastAll(nt, n, m) ==
    [nt EXCEPT ![n] = [q \in Node |-> Append(nt[n][q], m)]]

\* nt with m broadcast by n to the other replicas.
Broadcast(nt, n, m) ==
    [nt EXCEPT ![n] = [q \in Node |->
                         IF q = n THEN nt[n][q] ELSE Append(nt[n][q], m)]]

\* nt without the i-th message from p to q.
Take(nt, p, q, i) == [nt EXCEPT ![p][q] = RemoveAt(@, i)]

\* nt once n has replaced the map its unencoded Votes refer to.
Frozen(nt, n, L) ==
    [nt EXCEPT ![n] = [q \in Node |->
        [i \in 1..Len(nt[n][q]) |->
            IF nt[n][q][i] = VoteRef THEN VoteMsg(L) ELSE nt[n][q][i]]]]

\* The positions a link may deliver, encode or lose next.
Ready(ch) == {i \in DOMAIN ch : Slow \/ i = 1}

\* The handler of n has returned.
Idle(n) == tally[n] = {} /\ sweep[n] = {}

-----------------------------------------------------------------------------
(* exec() *)

\* exec() gets past slot s: committed, and voted or short of Total acks.
Runs(lg, s) == /\ s \in DOMAIN lg
               /\ lg[s].commit
               /\ lg[s].voted \/ Cardinality(lg[s].acks) < Total

\* exec() stops at slot e after running every slot from execute[n] on.
StopsAt(lg, n, e) == /\ e \in {execute[n]} \cup {s + 1 : s \in DOMAIN lg}
                     /\ \A s \in execute[n]..(e - 1) : Runs(lg, s)
                     /\ ~Runs(lg, e)
                     /\ e >= execute[n]

\* mutant: a request is answered once it is committed
AnswersCommitted(lg, ran) ==
    {lg[s].cmd : s \in {r \in DOMAIN lg : /\ lg[r].commit
                                        /\ lg[r].request /\ lg[r].leader}}

\* The requests answered when the slots ran are executed.
Answers(lg, ran) ==
    {lg[s].cmd : s \in {r \in ran : lg[r].request /\ lg[r].leader}}

NotRunKept(L, ran) == L   \* mutant: executed slots stay in p.l

\* The CommandBallots exec() leaves in p.l after it ran the slots ran.
NotRun(L, ran) == {cb \in L : Slot(cb.cmd) \notin ran}

\* exec() of n on the log lg: the executed slots leave the log and p.l, the
\* leader's requests are answered; a committed slot that is not voted but has
\* Total acks loses them, and p.l is broadcast by reference.
Exec(n, lg) ==
    \E e \in {execute[n]} \cup {s + 1 : s \in DOMAIN lg} :
      LET ran  == execute[n]..(e - 1)
          rest == Restrict(lg, DOMAIN lg \ ran)
          held == e \in DOMAIN lg /\ lg[e].commit
      IN /\ StopsAt(lg, n, e)
         /\ execute' = [execute EXCEPT ![n] = e]
         /\ log' = [log EXCEPT ![n] =
                      IF held THEN [rest EXCEPT ![e].acks = {}] ELSE rest]
         /\ l' = [l EXCEPT ![n] = NotRun(@, ran)]
         /\ net' = IF held THEN Broadcast(net, n, VoteRef) ELSE net
         /\ done' = [done EXCEPT ![n] = [s \in DOMAIN @ \cup ran |->
                       IF s \in ran THEN lg[s].cmd ELSE @[s]]]
         /\ replied' = replied \cup Answers(lg, ran)

-----------------------------------------------------------------------------
(* The actions *)

Init == /\ http     = [n \in Node |-> {}]
        /\ net      = [p \in Node |-> [q \in Node |-> <<>>]]
        /\ log      = [n \in Node |-> <<>>]
        /\ execute  = [n \in Node |-> 0]
        /\ l        = [n \in Node |-> {}]
        /\ count    = [n \in Node |-> -1]
        /\ flag2    = [n \in Node |-> 0]
        /\ tally    = [n \in Node |-> {}]
        /\ sweep    = [n \in Node |-> {}]
        /\ issued   = [c \in Client |-> 0]
        /\ replied  = {}
        /\ done     = [n \in Node |-> <<>>]
        /\ accepted = [n \in Node |-> {}]

\* A worker of client c sends its next write to replica n and waits for the
\* answer: at most Total writes of a client are unanswered.  One worker goes
\* round the replicas; several share an unsynchronised counter, so that a
\* write may reach any replica.
Issue(c, n) ==
    LET cmd == [client |-> c, counter |-> issued[c]]
    IN /\ issued[c] < NumRequests
       /\ n \in Targets(issued[c])
       /\ issued[c] - Cardinality({r \in replied : r.client = c}) < Total
       /\ issued' = [issued EXCEPT ![c] = @ + 1]
       /\ http' = [http EXCEPT ![n] = @ \cup {cmd}]
       /\ UNCHANGED <<net, replica, replied, history>>

\* HandleRequest and Propose: the leader logs its own proposal as voted,
\* records it in p.l and broadcasts it.
HandleRequest(n, cmd) ==
    /\ Idle(n)
    /\ cmd \in http[n]
    /\ http' = [http EXCEPT ![n] = @ \ {cmd}]
    /\ log' = [log EXCEPT ![n] = Put(@, Slot(cmd), Requested(cmd))]
    /\ l' = [l EXCEPT ![n] = Record(@, [cmd |-> cmd, id |-> n])]
    /\ accepted' = [accepted EXCEPT ![n] = @ \cup {cmd}]
    /\ count' = [count EXCEPT ![n] = @ + 1]
    /\ net' = Broadcast(net, n, ProposeMsg(cmd))
    /\ UNCHANGED <<execute, flag2, tally, sweep, issued, replied, done>>

\* HandlePropose up to its last loop: q accepts what p proposed.  When p.l
\* is full q broadcasts it and starts a new one.
HandlePropose(p, q, i) ==
    /\ Idle(q)
    /\ i \in Ready(net[p][q])
    /\ net[p][q][i].type = "Propose"
    /\ LET cmd   == net[p][q][i].cmd
           s     == Slot(cmd)
           known == s \in DOMAIN log[q]
           cnt   == IF known THEN count[q] ELSE count[q] + 1
           lg    == Put(log[q], s, Adopted(log[q], cmd))
           L     == Record(l[q], [cmd |-> cmd, id |-> q])
           full  == Cardinality(L) >= Total
           due   == full \/ cnt >= execute[q] + Total
           took  == Take(net, p, q, i)
       IN \E h \in DOMAIN lg \cup {flag2[q]} :
            /\ Highest(flag2[q], IF due THEN DOMAIN lg ELSE {}, h)
            /\ flag2' = [flag2 EXCEPT ![q] = h]
            /\ sweep' = [sweep EXCEPT ![q] = IF s < h THEN DOMAIN lg ELSE {}]
            /\ count' = [count EXCEPT ![q] = cnt]
            /\ log' = [log EXCEPT ![q] = IF due THEN AllVoted(lg) ELSE lg]
            /\ l' = [l EXCEPT ![q] = IF full THEN {} ELSE L]
            /\ net' = IF full THEN Broadcast(Frozen(took, q, L), q, VoteMsg(L))
                              ELSE took
            /\ accepted' = [accepted EXCEPT ![q] = @ \cup {cmd}]
    /\ UNCHANGED <<http, execute, tally, issued, replied, done>>

\* One iteration of HandlePropose's last loop: slot s is voted, and if it is
\* committed exec() runs, which may delete slots the loop has not reached.
Sweep(n, s) ==
    /\ s \in sweep[n]
    /\ LET lg == [log[n] EXCEPT ![s].voted = TRUE]
       IN IF lg[s].commit
          THEN Exec(n, lg)
          ELSE /\ log' = [log EXCEPT ![n] = lg]
               /\ UNCHANGED <<execute, l, net, done, replied>>
    /\ flag2' = [flag2 EXCEPT ![n] = IF s > @ THEN s ELSE @]
    /\ sweep' = [sweep EXCEPT ![n] = (@ \ {s}) \cap DOMAIN log'[n]]
    /\ UNCHANGED <<http, count, tally, issued, accepted>>

\* HandleVote: q starts counting the commands p accepted.
HandleVote(p, q, i) ==
    /\ Idle(q)
    /\ i \in Ready(net[p][q])
    /\ net[p][q][i].type = "Vote"
    /\ tally' = [tally EXCEPT ![q] = net[p][q][i].L]
    /\ net' = Take(net, p, q, i)
    /\ UNCHANGED <<http, log, execute, l, count, flag2, sweep, issued,
                   replied, history>>

\* One iteration of HandleVote's loop: the slot of cb is skipped if it was
\* executed, else acknowledged whatever command the log holds there; with a
\* majority it is committed and exec() runs.
Tally(n, cb) ==
    /\ cb \in tally[n]
    /\ tally' = [tally EXCEPT ![n] = @ \ {cb}]
    /\ LET s  == Slot(cb.cmd)
           e  == IF s \in DOMAIN log[n] THEN log[n][s] ELSE Heard(cb.cmd)
           a  == [e EXCEPT !.acks = @ \cup {cb.id}]
       IN \/ /\ s \notin DOMAIN log[n] /\ execute[n] > s
             /\ UNCHANGED <<log, execute, l, net, done, replied>>
          \/ /\ s \in DOMAIN log[n] \/ execute[n] <= s
             /\ Majority(a.acks)
             /\ Exec(n, Put(log[n], s, [a EXCEPT !.commit = TRUE]))
          \/ /\ s \in DOMAIN log[n] \/ execute[n] <= s
             /\ ~Majority(a.acks)
             /\ log' = [log EXCEPT ![n] = Put(@, s, a)]
             /\ UNCHANGED <<execute, l, net, done, replied>>
    /\ UNCHANGED <<http, count, flag2, sweep, issued, accepted>>

\* The transport goroutine of the link from p to q encodes a Vote that exec()
\* broadcast: it reads the live p.l, whatever p's handlers did to it since.
Encode(p, q, i) ==
    /\ i \in DOMAIN net[p][q]
    /\ net[p][q][i] = VoteRef
    /\ Slow \/ \A j \in 1..(i - 1) : net[p][q][j] # VoteRef
    /\ net' = [net EXCEPT ![p][q][i] = VoteMsg(l[p])]
    /\ UNCHANGED <<http, replica, issued, replied, history>>

\* A faulty link silently loses a message.
Lose(p, q, i) ==
    /\ Lossy
    /\ i \in Ready(net[p][q])
    /\ net' = Take(net, p, q, i)
    /\ UNCHANGED <<http, replica, issued, replied, history>>

Request(n)    == \E cmd \in http[n] : HandleRequest(n, cmd)
Loop(n)       == \/ \E s \in sweep[n] : Sweep(n, s)
                 \/ \E cb \in tally[n] : Tally(n, cb)
Deliver(p, q) == \E i \in DOMAIN net[p][q] : \/ HandlePropose(p, q, i)
                                            \/ HandleVote(p, q, i)
                                            \/ Encode(p, q, i)

\* What the program does by itself; Next adds the faults of the links.
Progress == \/ \E c \in Client, n \in Node : Issue(c, n)
            \/ \E n \in Node : Request(n) \/ Loop(n)
            \/ \E p, q \in Node : Deliver(p, q)

Next == Progress \/ \E p, q \in Node : \E i \in DOMAIN net[p][q] : Lose(p, q, i)

Spec == Init /\ [][Next]_vars

\* The program does not stop while one of its goroutines can take a step: less
\* than the fairness of each goroutine that the Go scheduler provides, and
\* enough here because a bounded number of requests makes finitely many steps.
Fairness == WF_vars(Progress)

FairSpec == Spec /\ Fairness

-----------------------------------------------------------------------------
(* Properties *)

\* The commands the clients have issued.
Issued == UNION {{[client |-> cl, counter |-> k] : k \in 0..(issued[cl] - 1)}
                   : cl \in Client}

\* Types of every variable; done[n] is filled exactly up to execute[n], and one
\* handler runs at a time, over slots the log still has (exec, HandlePropose).
TypeOK ==
    /\ http \in [Node -> SUBSET Command]
    /\ net \in [Node -> [Node -> Seq(Message)]]
    /\ DOMAIN log = Node
    /\ \A n \in Node : /\ DOMAIN log[n] \subseteq Nat
                       /\ log[n] \in [DOMAIN log[n] -> Entry]
    /\ execute \in [Node -> Nat]
    /\ l \in [Node -> SUBSET CommandBallot]
    /\ count \in [Node -> Int]
    /\ flag2 \in [Node -> Nat]
    /\ tally \in [Node -> SUBSET CommandBallot]
    /\ DOMAIN sweep = Node
    /\ \A n \in Node : /\ sweep[n] \subseteq DOMAIN log[n]
                       /\ sweep[n] = {} \/ tally[n] = {}
    /\ issued \in [Client -> Nat]
    /\ replied \subseteq Command
    /\ DOMAIN done = Node
    /\ \A n \in Node : done[n] \in [0..(execute[n] - 1) -> Command]
    /\ accepted \in [Node -> SUBSET Command]

\* No two replicas execute different commands in the same slot, although a
\* replica acknowledges a slot without comparing the command (exec,
\* HandleVote).
Agreement ==
    \A m, n \in Node : \A s \in DOMAIN done[m] \cap DOMAIN done[n] :
        done[m][s] = done[n][s]

\* A replica executes a command only if N \div 2 others have accepted exactly
\* that command: acknowledgements are for the slot and survive Reset, the
\* p.l replacement and the late encoding of a Vote (HandleVote, exec).
ExecutedCertified ==
    \A n \in Node : \A s \in DOMAIN done[n] :
        Majority({q \in Node \ {n} : done[n][s] \in accepted[q]})

\* A command answered to its client was accepted by more than half of the
\* replicas, the leader among them (exec, Reply).
ReplyDurable ==
    \A c \in replied :
        Cardinality({q \in Node : c \in accepted[q]}) > N \div 2

\* A command is executed only once a majority of the replicas accepted it: what
\* the comment on Quorum.Majority says of a slot that is committed (quorum.go:56).
ExecutedByMajority ==
    \A n \in Node : \A s \in DOMAIN done[n] :
        Cardinality({q \in Node : done[n][s] \in accepted[q]}) > N \div 2

\* The replicas at which command c can still be answered: its request waits
\* there, or its leader entry is not executed yet.
Holders(c) == {n \in Node :
    \/ c \in http[n]
    \/ \E s \in DOMAIN log[n] : /\ s >= execute[n] /\ log[n][s].cmd = c
                                /\ log[n][s].request /\ log[n][s].leader}

\* Every write issued and not answered has exactly one replica that can still
\* answer it, and one that was answered has none (HandleRequest, HandlePropose
\* clearing e.leader, exec).
OneHolder ==
    \A c \in Issued : \/ c \in replied /\ Holders(c) = {}
                      \/ c \notin replied /\ \E n \in Node : Holders(c) = {n}

\* A committed slot stays committed with its command until it is executed with
\* it; neither a late proposal nor a request overwrites it (Propose,
\* HandlePropose, exec).
CommitStable ==
    [][\A n \in Node : \A s \in DOMAIN log[n] : log[n][s].commit =>
         \/ /\ s \in DOMAIN log'[n]
            /\ log'[n][s].commit
            /\ log'[n][s].cmd = log[n][s].cmd
         \/ /\ s < execute'[n]
            /\ done'[n][s] = log[n][s].cmd]_vars

\* A Propose that arrives after its slot was executed makes entries in p.log and
\* p.l that nothing removes.  They do no harm: the entry holds the command that
\* was executed and no request that would be answered again, and of such slots
\* p.l never has as many as fill a Vote (HandlePropose, exec).
LateInert ==
    \A n \in Node :
        /\ \A s \in DOMAIN log[n] : s < execute[n] =>
             /\ log[n][s].cmd = done[n][s]
             /\ ~(log[n][s].request /\ log[n][s].leader)
        /\ Cardinality({cb \in l[n] : Slot(cb.cmd) < execute[n]}) < Total

\* The replicas other than n that accepted c.
Accepters(n, c, acc) == {q \in Node \ {n} : c \in acc[q]}

\* A log lg of n keeps each command in its slot, counts only replicas that
\* accepted that command, commits only what enough of them accepted, and n
\* itself accepted what it leads.
SoundLog(n, lg, acc) ==
    \A s \in DOMAIN lg :
        /\ Slot(lg[s].cmd) = s
        /\ lg[s].acks \subseteq Accepters(n, lg[s].cmd, acc)
        /\ lg[s].commit => Majority(Accepters(n, lg[s].cmd, acc))
        /\ lg[s].leader => lg[s].cmd \in acc[n]

\* What n executed was in its slot and enough other replicas accepted it.
SoundDone(n, d, acc) ==
    \A s \in DOMAIN d : /\ Slot(d[s]) = s
                        /\ Majority(Accepters(n, d[s], acc))

\* The CommandBallots p may send, and the messages that carry them.
SoundBallots(p, acc) == SUBSET [cmd : acc[p], id : {p}]
SoundMsg(p, acc) == [type : {"Propose"}, cmd : Command]
                      \cup [type : {"Vote"}, L : SoundBallots(p, acc)]
                      \cup {VoteRef}

\* The inductive invariant behind ExecutedCertified and ReplyDurable, for one
\* client: wherever a CommandBallot is, in p.l, in a Vote on its way, in the
\* loop of HandleVote or counted in an entry, the replica it names accepted
\* the command; no replica counts itself.
SoundVotes ==
    /\ \A n \in Node : SoundLog(n, log[n], accepted)
    /\ \A n \in Node : SoundDone(n, done[n], accepted)
    /\ \A n \in Node : l[n] \in SoundBallots(n, accepted)
    /\ \A p, q \in Node : net[p][q] \in Seq(SoundMsg(p, accepted))
    /\ \A n \in Node : net[n][n] = <<>>
    /\ \A n \in Node : \A cb \in tally[n] :
          cb.id # n /\ cb.cmd \in accepted[cb.id]
    /\ ReplyDurable

\* What some replica accepted.
Accepted == UNION {accepted[n] : n \in Node}

\* The commands of the Propose messages on a link.
Proposals(ch) == {ch[i].cmd : i \in {j \in DOMAIN ch : ch[j].type = "Propose"}}

\* Slot s holds at n a request that n will answer.
Leads(n, s) == s \in DOMAIN log[n] /\ log[n][s].request

\* The CommandBallots of p.l at n for slots n has executed.
Late(n) == {cb \in l[n] : Slot(cb.cmd) < execute[n]}

\* Whatever is logged, executed or proposed was accepted by somebody, and what
\* was accepted was issued.
Known ==
    /\ Accepted \subseteq Issued
    /\ \A n \in Node : \A s \in DOMAIN log[n] : log[n][s].cmd \in Accepted
    /\ \A n \in Node : \A s \in DOMAIN done[n] : done[n][s] \in Accepted
    /\ \A p, q \in Node : Proposals(net[p][q]) \subseteq Accepted

\* A request waits at one replica, and no replica has heard of its command.
Waiting ==
    /\ \A n \in Node : http[n] \subseteq Issued \ Accepted
    /\ \A m, n \in Node : m # n => http[m] \cap http[n] = {}

\* An entry with a request is led here and nowhere else, is not executed or
\* answered yet, and no Propose on its way to its replica can take it over.
LedOnce ==
    /\ \A n \in Node : \A s \in DOMAIN log[n] : log[n][s].request =>
          /\ log[n][s].leader
          /\ s >= execute[n]
          /\ log[n][s].cmd \notin replied
          /\ \A m \in Node : Leads(m, s) => m = n
    /\ \A p, q \in Node : \A c \in Proposals(net[p][q]) : ~Leads(q, Slot(c))

\* A write that was issued is answered, waits, or has an entry with its request.
Kept == \A c \in Issued : \/ c \in replied
                          \/ \E n \in Node : c \in http[n] \/ Leads(n, Slot(c))

\* Executed slots alone never fill p.l.
FewLate == \A n \in Node : IsFiniteSet(l[n]) /\ Cardinality(Late(n)) < Total

\* The inductive invariant behind OneHolder, LateInert, CommitStable and
\* ImplementsLog, for one client: every write can be traced from its request to
\* the one entry that answers it (HandleRequest, HandlePropose, HandleVote, exec).
Traced == Known /\ Waiting /\ LedOnce /\ Kept /\ FewLate

\* The replicas implement one ordered log of the writes of a client: each slot
\* is executed everywhere with the write issued for it, in order, and a write is
\* answered by a step that executes it (exec).
Log == INSTANCE OrderedLog
         WITH Replica <- Node, Place <- Slot,
              submitted <- Issued, applied <- done, answered <- replied
ImplementsLog == Log!Spec

\* Every client gets to issue all its writes and is answered each of them: some
\* replica that holds the request commits and executes its slot (HandleVote,
\* exec, Reply).  It holds with batches of one, Total = 1.  With larger batches it
\* fails: a replica that executes a slot takes it from p.l, may never have a full
\* batch again, and votes in full batches only (HandlePropose), so that others
\* wait for its vote for ever.
EveryWriteAnswered ==
    <>(\A c \in Client : \A k \in 0..(NumRequests - 1) :
          [client |-> c, counter |-> k] \in replied)
=============================================================================
