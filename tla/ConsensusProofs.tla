-------------------------- MODULE ConsensusProofs --------------------------
(***************************************************************************)
(* Consensus for any replicas, clients, Total, number of requests and kind *)
(* of links.  First its types; then, for one client, the votes             *)
(* (SoundVotes): agreement, certified execution, durable replies; then     *)
(* where a write is between its request and its answer (Traced): one       *)
(* holder, stable commits, inert late messages, and the refinement of      *)
(* OrderedLog.                                                             *)
(***************************************************************************)
EXTENDS Consensus, FiniteSetTheorems, SequenceTheorems, TLAPS

-----------------------------------------------------------------------------
(* Operators *)

\* The number of replicas and its half are numbers.
LEMMA SizeOfNode == N \in Nat /\ N \div 2 \in Nat
<1>1. N \in Nat
  BY NodeAssumption, FS_CardinalityType DEF N
<1> QED BY <1>1

\* A channel from which a message was taken is a channel.
LEMMA RemoveAtSeq ==
  ASSUME NEW S, NEW s \in Seq(S), NEW i \in DOMAIN s
  PROVE  RemoveAt(s, i) \in Seq(S)
<1>1. i \in Int /\ Len(s) \in Nat /\ \A j \in 1..Len(s) : s[j] \in S
  BY LenProperties, ElementOfSeq
<1>2. SubSeq(s, 1, i - 1) \in Seq(S)
  <2>1. 1 \in Int /\ i - 1 \in Int /\ \A j \in 1..(i - 1) : s[j] \in S
    BY <1>1, LenProperties
  <2> QED BY <2>1, SubSeqProperties
<1>3. SubSeq(s, i + 1, Len(s)) \in Seq(S)
  <2>1. i + 1 \in Int /\ Len(s) \in Int /\ \A j \in (i + 1)..Len(s) : s[j] \in S
    BY <1>1, LenProperties
  <2> QED BY <2>1, SubSeqProperties
<1> QED BY <1>2, <1>3, ConcatProperties DEF RemoveAt

\* A sequence over a set is one over a larger set.
LEMMA SeqMonotone ==
  ASSUME NEW S, NEW T, S \subseteq T, NEW s \in Seq(S)
  PROVE  s \in Seq(T)
<1>1. Len(s) \in Nat /\ s \in [1..Len(s) -> T]
  BY LenProperties, ElementOfSeq
<1> QED BY <1>1, SeqDef

\* The links nt carry from p only messages in S[p].
NetOver(nt, S) ==
    /\ nt = [p \in Node |-> [q \in Node |-> nt[p][q]]]
    /\ \A p, q \in Node : nt[p][q] \in Seq(S[p])

\* A broadcast leaves on every channel what its sender may send.
LEMMA BroadcastNet ==
  ASSUME NEW nt, NEW S, NetOver(nt, S), NEW n \in Node, NEW m \in S[n]
  PROVE  NetOver(Broadcast(nt, n, m), S)
<1>1. \A q \in Node : Append(nt[n][q], m) \in Seq(S[n])
  BY AppendProperties DEF NetOver
<1> QED BY <1>1 DEF NetOver, Broadcast

\* Taking a message leaves on every channel what its sender may send.
LEMMA TakeNet ==
  ASSUME NEW nt, NEW S, NetOver(nt, S), NEW p \in Node, NEW q \in Node,
         NEW i \in DOMAIN nt[p][q]
  PROVE  NetOver(Take(nt, p, q, i), S)
<1>1. RemoveAt(nt[p][q], i) \in Seq(S[p])
  BY RemoveAtSeq DEF NetOver
<1> QED BY <1>1 DEF NetOver, Take

\* So does encoding the references to p.l (Frozen).
LEMMA FrozenNet ==
  ASSUME NEW nt, NEW S, NetOver(nt, S), NEW n \in Node, NEW L,
         VoteMsg(L) \in S[n]
  PROVE  NetOver(Frozen(nt, n, L), S)
<1> DEFINE Froze(q) == [i \in 1..Len(nt[n][q]) |->
                 IF nt[n][q][i] = VoteRef THEN VoteMsg(L) ELSE nt[n][q][i]]
<1>1. ASSUME NEW q \in Node
      PROVE  Froze(q) \in Seq(S[n])
  <2>1. Len(nt[n][q]) \in Nat /\ \A i \in 1..Len(nt[n][q]) : nt[n][q][i] \in S[n]
    BY LenProperties, ElementOfSeq DEF NetOver
  <2> QED BY <2>1, IsASeq
<1>2. Frozen(nt, n, L) = [nt EXCEPT ![n] = [q \in Node |-> Froze(q)]]
  BY DEF Frozen
<1> HIDE DEF Froze
<1> QED BY <1>1, <1>2 DEF NetOver

\* So does encoding one of them (Encode).
LEMMA EncodeNet ==
  ASSUME NEW nt, NEW S, NetOver(nt, S), NEW p \in Node, NEW q \in Node,
         NEW i \in DOMAIN nt[p][q], NEW m \in S[p]
  PROVE  NetOver([nt EXCEPT ![p][q][i] = m], S)
<1>1. nt[p][q] \in Seq(S[p])
  BY DEF NetOver
<1>2. i \in 1..Len(nt[p][q])
  BY <1>1, LenProperties
<1>3. [nt[p][q] EXCEPT ![i] = m] \in Seq(S[p])
  BY <1>1, <1>2, ExceptSeq
<1> QED BY <1>3 DEF NetOver

\* Channels over smaller sets are channels over larger ones.
LEMMA NetMonotone ==
  ASSUME NEW nt, NEW S, NetOver(nt, S), NEW T,
         \A p \in Node : S[p] \subseteq T[p]
  PROVE  NetOver(nt, T)
BY SeqMonotone DEF NetOver

\* Put writes one slot of a log and leaves the others.
LEMMA PutEntry ==
  ASSUME NEW lg, DOMAIN lg \subseteq Nat, lg \in [DOMAIN lg -> Entry],
         NEW s \in Nat, NEW e \in Entry
  PROVE  /\ DOMAIN Put(lg, s, e) = DOMAIN lg \cup {s}
         /\ DOMAIN Put(lg, s, e) \subseteq Nat
         /\ Put(lg, s, e) \in [DOMAIN Put(lg, s, e) -> Entry]
         /\ Put(lg, s, e)[s] = e
         /\ \A x \in DOMAIN lg : x # s => Put(lg, s, e)[x] = lg[x]
BY DEF Put

\* The entries that HandlePropose and HandleRequest make are entries.
LEMMA HeardEntry ==
  ASSUME NEW c \in Command
  PROVE  Heard(c) \in Entry /\ Requested(c) \in Entry /\ Slot(c) \in Nat
BY DEF Heard, Requested, Entry, Command, Slot

\* So are the entries their updates leave.
LEMMA EntryUpdates ==
  ASSUME NEW e \in Entry
  PROVE  /\ [e EXCEPT !.leader = FALSE] \in Entry
         /\ [e EXCEPT !.voted = TRUE] \in Entry
         /\ [e EXCEPT !.commit = TRUE] \in Entry
         /\ \A A \in SUBSET Node : [e EXCEPT !.acks = A] \in Entry
         /\ \A q \in Node : [e EXCEPT !.acks = @ \cup {q}] \in Entry
BY DEF Entry

-----------------------------------------------------------------------------
(* Type correctness *)

TypedNet(nt) == NetOver(nt, [p \in Node |-> Message])

\* TypedNet is what TypeOK says of the channels.
LEMMA TypedNetIsType ==
  ASSUME NEW nt
  PROVE  TypedNet(nt) <=> nt \in [Node -> [Node -> Seq(Message)]]
BY DEF TypedNet, NetOver

\* What the handlers send are messages.
LEMMA MessageTypes ==
  /\ \A c \in Command : ProposeMsg(c) \in Message
  /\ \A L \in SUBSET CommandBallot : VoteMsg(L) \in Message
  /\ VoteRef \in Message
BY DEF ProposeMsg, VoteMsg, VoteRef, Message

\* A Propose carries a command and a Vote carries a set of CommandBallots.
LEMMA MessageFields ==
  ASSUME NEW m \in Message
  PROVE  /\ m.type = "Propose" => m.cmd \in Command
         /\ m.type = "Vote" => m.L \in SUBSET CommandBallot
BY DEF Message, VoteRef

\* What is on a channel is a message.
LEMMA MessageAt ==
  ASSUME TypedNet(net), NEW p \in Node, NEW q \in Node, NEW i \in DOMAIN net[p][q]
  PROVE  net[p][q][i] \in Message
BY ElementOfSeq, LenProperties DEF TypedNet, NetOver

\* The empty sequence is the empty map.
LEMMA EmptyFunction ==
  ASSUME NEW S
  PROVE  DOMAIN <<>> = {} /\ <<>> \in [{} -> S]
<1>1. <<>> \in Seq(S) /\ Len(<<>>) = 0
  BY EmptySeq
<1>2. 1..0 = {}
  OBVIOUS
<1> QED BY <1>1, <1>2, LenProperties

\* The types hold at first.
LEMMA InitType == Init => TypeOK
<1> SUFFICES ASSUME Init PROVE TypeOK
  OBVIOUS
<1>1. \A p, q \in Node : net[p][q] = <<>>
  BY DEF Init
<1>2. net \in [Node -> [Node -> Seq(Message)]]
  BY EmptySeq DEF Init
<1>3. \A n \in Node : log[n] = <<>> /\ done[n] = <<>> /\ execute[n] = 0
  BY DEF Init
<1>4. \A n \in Node : DOMAIN log[n] = {} /\ DOMAIN done[n] = {}
  BY <1>3, EmptyFunction
<1>5. \A n \in Node : log[n] \in [DOMAIN log[n] -> Entry]
  BY <1>3, <1>4, EmptyFunction
<1>6. \A n \in Node : done[n] \in [0..(execute[n] - 1) -> Command]
  <2>1. 0..(0 - 1) = {}
    OBVIOUS
  <2> QED BY <2>1, <1>3, EmptyFunction
<1> QED BY <1>2, <1>4, <1>5, <1>6 DEF Init, TypeOK

\* The types of what exec() changes.
ExecTyped ==
    /\ DOMAIN log' = Node
    /\ \A m \in Node : /\ DOMAIN log'[m] \subseteq Nat
                       /\ log'[m] \in [DOMAIN log'[m] -> Entry]
    /\ execute' \in [Node -> Nat]
    /\ l' \in [Node -> SUBSET CommandBallot]
    /\ TypedNet(net')
    /\ DOMAIN done' = Node
    /\ \A m \in Node : done'[m] \in [0..(execute'[m] - 1) -> Command]
    /\ replied' \subseteq Command

\* exec keeps the types: it fills done up to execute and stays in the log.
LEMMA ExecType ==
  ASSUME TypeOK, NEW n \in Node, NEW lg, DOMAIN lg \subseteq Nat,
         lg \in [DOMAIN lg -> Entry], Exec(n, lg)
  PROVE  ExecTyped
<1> DEFINE ran(e)  == execute[n]..(e - 1)
           rest(e) == Restrict(lg, DOMAIN lg \ ran(e))
           held(e) == e \in DOMAIN lg /\ lg[e].commit
<1>1. PICK e \in {execute[n]} \cup {s + 1 : s \in DOMAIN lg} :
         /\ StopsAt(lg, n, e)
         /\ execute' = [execute EXCEPT ![n] = e]
         /\ log' = [log EXCEPT ![n] =
                      IF held(e) THEN [rest(e) EXCEPT ![e].acks = {}] ELSE rest(e)]
         /\ l' = [l EXCEPT ![n] = {cb \in @ : Slot(cb.cmd) \notin ran(e)}]
         /\ net' = IF held(e) THEN Broadcast(net, n, VoteRef) ELSE net
         /\ done' = [done EXCEPT ![n] = [s \in DOMAIN @ \cup ran(e) |->
                       IF s \in ran(e) THEN lg[s].cmd ELSE @[s]]]
         /\ replied' = replied \cup Answers(lg, ran(e))
  BY DEF Exec, NotRun
<1>2. execute[n] \in Nat /\ e \in Nat /\ e >= execute[n]
  BY <1>1 DEF TypeOK, StopsAt
<1>3. \A s \in ran(e) : s \in DOMAIN lg /\ lg[s].cmd \in Command
  BY <1>1 DEF StopsAt, Runs, Entry
<1>4. /\ DOMAIN rest(e) \subseteq Nat
      /\ rest(e) \in [DOMAIN rest(e) -> Entry]
      /\ held(e) => e \in DOMAIN rest(e)
  BY <1>2 DEF Restrict
<1>5. ASSUME held(e)
      PROVE  /\ DOMAIN [rest(e) EXCEPT ![e].acks = {}] \subseteq Nat
             /\ [rest(e) EXCEPT ![e].acks = {}]
                  \in [DOMAIN [rest(e) EXCEPT ![e].acks = {}] -> Entry]
  <2> HIDE DEF rest
  <2> QED BY <1>4, <1>5 DEF Entry
<1>6. \A m \in Node : /\ DOMAIN log'[m] \subseteq Nat
                      /\ log'[m] \in [DOMAIN log'[m] -> Entry]
  <2> HIDE DEF rest, held
  <2> QED BY <1>1, <1>4, <1>5 DEF TypeOK
<1>7. execute' \in [Node -> Nat] /\ DOMAIN log' = Node /\ DOMAIN done' = Node
  BY <1>1, <1>2 DEF TypeOK
<1>8. l' \in [Node -> SUBSET CommandBallot]
  BY <1>1 DEF TypeOK
<1>9. TypedNet(net')
  <2>1. TypedNet(net)
    BY TypedNetIsType DEF TypeOK
  <2>2. TypedNet(Broadcast(net, n, VoteRef))
    BY <2>1, BroadcastNet, MessageTypes DEF TypedNet
  <2> QED BY <1>1, <2>1, <2>2
<1>10. \A m \in Node : done'[m] \in [0..(execute'[m] - 1) -> Command]
  <2>1. ASSUME NEW m \in Node, m # n
        PROVE  done'[m] \in [0..(execute'[m] - 1) -> Command]
    BY <1>1, <2>1 DEF TypeOK
  <2>2. DOMAIN done[n] = 0..(execute[n] - 1) /\ \A s \in DOMAIN done[n] : done[n][s] \in Command
    BY DEF TypeOK
  <2>3. DOMAIN done[n] \cup ran(e) = 0..(e - 1)
    BY <1>2, <2>2
  <2>4. done'[n] = [s \in 0..(e - 1) |->
                      IF s \in ran(e) THEN lg[s].cmd ELSE done[n][s]]
    BY <1>1, <2>3 DEF TypeOK
  <2>5. done'[n] \in [0..(e - 1) -> Command]
    BY <2>4, <2>2, <2>3, <1>3
  <2>6. execute'[n] = e
    BY <1>1 DEF TypeOK
  <2> QED BY <2>1, <2>5, <2>6
<1>11. replied' \subseteq Command
  BY <1>1, <1>3 DEF TypeOK, Answers
<1> QED BY <1>6, <1>7, <1>8, <1>9, <1>10, <1>11 DEF ExecTyped

\* The types of what the body of HandlePropose and of its loops change.
LEMMA AllVotedType ==
  ASSUME NEW lg, DOMAIN lg \subseteq Nat, lg \in [DOMAIN lg -> Entry]
  PROVE  /\ DOMAIN AllVoted(lg) = DOMAIN lg
         /\ AllVoted(lg) \in [DOMAIN lg -> Entry]
         /\ \A s \in DOMAIN lg : AllVoted(lg)[s] = [lg[s] EXCEPT !.voted = TRUE]
<1>1. \A s \in DOMAIN lg : [lg[s] EXCEPT !.voted = TRUE] \in Entry
  BY DEF Entry
<1> QED BY <1>1 DEF AllVoted

\* A new write keeps the types.
LEMMA IssueType ==
  ASSUME TypeOK, NEW c \in Client, NEW n \in Node, Issue(c, n)
  PROVE  TypeOK'
<1>1. [client |-> c, counter |-> issued[c]] \in Command
  BY DEF TypeOK, Command
<1>2. http' \in [Node -> SUBSET Command] /\ issued' \in [Client -> Nat]
  BY <1>1 DEF Issue, TypeOK
<1> QED BY <1>2 DEF Issue, TypeOK, replica, history

\* HandleRequest keeps the types.
LEMMA HandleRequestType ==
  ASSUME TypeOK, NEW n \in Node, NEW cmd \in http[n], HandleRequest(n, cmd)
  PROVE  TypeOK'
<1>1. cmd \in Command
  BY DEF TypeOK
<1>2. http' \in [Node -> SUBSET Command] /\ accepted' \in [Node -> SUBSET Command]
  BY <1>1 DEF HandleRequest, TypeOK
<1>3. /\ DOMAIN log' = Node
      /\ \A m \in Node : /\ DOMAIN log'[m] \subseteq Nat
                         /\ log'[m] \in [DOMAIN log'[m] -> Entry]
  BY <1>1, PutEntry, HeardEntry DEF HandleRequest, TypeOK
<1>4. l' \in [Node -> SUBSET CommandBallot] /\ count' \in [Node -> Int]
  BY <1>1 DEF HandleRequest, TypeOK, Record, CommandBallot
<1>5. net' \in [Node -> [Node -> Seq(Message)]]
  <2>1. TypedNet(net) /\ ProposeMsg(cmd) \in Message
    BY <1>1, TypedNetIsType, MessageTypes DEF TypeOK
  <2>2. TypedNet(Broadcast(net, n, ProposeMsg(cmd)))
    BY <2>1, BroadcastNet DEF TypedNet
  <2> QED BY <2>2, TypedNetIsType DEF HandleRequest
<1>6. \A m \in Node : sweep'[m] \subseteq DOMAIN log'[m]
  <2>1. \A m \in Node : m # n => log'[m] = log[m]
    BY DEF HandleRequest, TypeOK
  <2>2. sweep' = sweep /\ sweep[n] = {}
    BY DEF HandleRequest, Idle
  <2> QED BY <2>1, <2>2 DEF TypeOK
<1> QED BY <1>2, <1>3, <1>4, <1>5, <1>6 DEF HandleRequest, TypeOK

\* HandlePropose keeps the types.
LEMMA HandleProposeType ==
  ASSUME TypeOK, NEW p \in Node, NEW q \in Node, NEW i \in DOMAIN net[p][q],
         HandlePropose(p, q, i)
  PROVE  TypeOK'
<1> DEFINE cmd   == net[p][q][i].cmd
           s     == Slot(cmd)
           known == s \in DOMAIN log[q]
           cnt   == IF known THEN count[q] ELSE count[q] + 1
           e     == Adopted(log[q], cmd)
           lg    == Put(log[q], s, e)
           L     == Record(l[q], [cmd |-> cmd, id |-> q])
           full  == Cardinality(L) >= Total
           due   == full \/ cnt >= execute[q] + Total
           took  == Take(net, p, q, i)
<1>1. TypedNet(net) /\ net[p][q][i] \in Message /\ net[p][q][i].type = "Propose"
  BY TypedNetIsType, MessageAt DEF HandlePropose, TypeOK
<1>2. cmd \in Command /\ s \in Nat /\ Heard(cmd) \in Entry
  BY <1>1, MessageFields, HeardEntry
<1>3. PICK h \in DOMAIN lg \cup {flag2[q]} :
        /\ flag2' = [flag2 EXCEPT ![q] = h]
        /\ sweep' = [sweep EXCEPT ![q] = IF s < h THEN DOMAIN lg ELSE {}]
        /\ count' = [count EXCEPT ![q] = cnt]
        /\ log' = [log EXCEPT ![q] = IF due THEN AllVoted(lg) ELSE lg]
        /\ l' = [l EXCEPT ![q] = IF full THEN {} ELSE L]
        /\ net' = IF full THEN Broadcast(Frozen(took, q, L), q, VoteMsg(L))
                           ELSE took
        /\ accepted' = [accepted EXCEPT ![q] = @ \cup {cmd}]
  BY DEF HandlePropose
<1>4. UNCHANGED <<http, execute, tally, issued, replied, done>>
  BY DEF HandlePropose
<1>5. DOMAIN log[q] \subseteq Nat /\ log[q] \in [DOMAIN log[q] -> Entry] /\ e \in Entry
  <2>1. log[q] \in [DOMAIN log[q] -> Entry] /\ DOMAIN log[q] \subseteq Nat
    BY DEF TypeOK
  <2>2. known => log[q][s] \in Entry
    BY <2>1
  <2> QED BY <1>2, <2>1, <2>2, EntryUpdates DEF Adopted
<1>6. DOMAIN lg \subseteq Nat /\ lg \in [DOMAIN lg -> Entry]
  <2> HIDE DEF e, s
  <2> QED BY <1>2, <1>5, PutEntry
<1>7. L \in SUBSET CommandBallot
  BY <1>2 DEF TypeOK, Record, CommandBallot
<1>8. TypedNet(took) /\ TypedNet(Broadcast(Frozen(took, q, L), q, VoteMsg(L)))
  <2>1. TypedNet(took)
    BY <1>1, TakeNet DEF TypedNet
  <2>2. VoteMsg(L) \in Message
    BY <1>7, MessageTypes
  <2>3. TypedNet(Frozen(took, q, L))
    <3> HIDE DEF took, L
    <3> QED BY <2>1, <2>2, FrozenNet DEF TypedNet
  <2> HIDE DEF took, L
  <2> QED BY <2>1, <2>2, <2>3, BroadcastNet DEF TypedNet
<1> HIDE DEF lg, L, took, full, due
<1>9. /\ DOMAIN log' = Node
      /\ \A m \in Node : /\ DOMAIN log'[m] \subseteq Nat
                         /\ log'[m] \in [DOMAIN log'[m] -> Entry]
  BY <1>3, <1>6, AllVotedType DEF TypeOK
<1>10. net' \in [Node -> [Node -> Seq(Message)]]
  BY <1>3, <1>8, TypedNetIsType
<1>11. /\ flag2' \in [Node -> Nat]
       /\ DOMAIN sweep' = Node
       /\ \A n \in Node : /\ sweep'[n] \subseteq DOMAIN log'[n]
                          /\ sweep'[n] = {} \/ tally'[n] = {}
  <2>1. \A n \in Node : n # q => log'[n] = log[n] /\ sweep'[n] = sweep[n]
    BY <1>3 DEF TypeOK
  <2>2. DOMAIN log'[q] = DOMAIN lg /\ sweep'[q] \in {DOMAIN lg, {}}
    BY <1>3, <1>6, AllVotedType DEF TypeOK
  <2>3. tally'[q] = {} /\ tally' = tally
    BY <1>4 DEF HandlePropose, Idle
  <2>4. flag2' \in [Node -> Nat] /\ DOMAIN sweep' = Node
    BY <1>3, <1>6 DEF TypeOK
  <2> QED BY <2>1, <2>2, <2>3, <2>4 DEF TypeOK
<1>12. /\ count' \in [Node -> Int] /\ l' \in [Node -> SUBSET CommandBallot]
       /\ accepted' \in [Node -> SUBSET Command]
  BY <1>2, <1>3, <1>6, <1>7 DEF TypeOK
<1> QED BY <1>4, <1>9, <1>10, <1>11, <1>12 DEF TypeOK

\* The loop over the log in HandlePropose keeps the types.
LEMMA SweepType ==
  ASSUME TypeOK, NEW n \in Node, NEW s \in sweep[n], Sweep(n, s)
  PROVE  TypeOK'
<1> DEFINE lg == [log[n] EXCEPT ![s].voted = TRUE]
<1>1. s \in Nat /\ s \in DOMAIN log[n] /\ log[n] \in [DOMAIN log[n] -> Entry]
  BY DEF TypeOK
<1>2. DOMAIN lg \subseteq Nat /\ lg \in [DOMAIN lg -> Entry]
  <2>1. log[n][s] \in Entry /\ DOMAIN log[n] \subseteq Nat
    BY <1>1 DEF TypeOK
  <2> QED BY <1>1, <2>1, EntryUpdates
<1>3. \/ Exec(n, lg)
      \/ /\ log' = [log EXCEPT ![n] = lg]
         /\ UNCHANGED <<execute, l, net, done, replied>>
  BY DEF Sweep
<1>4. /\ flag2' = [flag2 EXCEPT ![n] = IF s > @ THEN s ELSE @]
      /\ sweep' = [sweep EXCEPT ![n] = (@ \ {s}) \cap DOMAIN log'[n]]
      /\ UNCHANGED <<http, count, tally, issued, accepted>>
  BY DEF Sweep
<1>5. /\ flag2' \in [Node -> Nat]
      /\ DOMAIN sweep' = Node
      /\ sweep'[n] \subseteq DOMAIN log'[n] /\ tally'[n] = {}
      /\ \A m \in Node : m # n => sweep'[m] = sweep[m] /\ tally'[m] = tally[m]
  BY <1>1, <1>4 DEF TypeOK
<1> HIDE DEF lg
<1>6. \A m \in Node : m # n => log'[m] = log[m]
  BY <1>3 DEF Exec, NotRun, TypeOK
<1>7. \A m \in Node : /\ sweep'[m] \subseteq DOMAIN log'[m]
                      /\ sweep'[m] = {} \/ tally'[m] = {}
  BY <1>5, <1>6 DEF TypeOK
<1>8. CASE Exec(n, lg)
  <2>1. ExecTyped
    BY <1>2, <1>8, ExecType
  <2>2. net' \in [Node -> [Node -> Seq(Message)]]
    BY <2>1, TypedNetIsType DEF ExecTyped
  <2>3. /\ http' \in [Node -> SUBSET Command] /\ count' \in [Node -> Int]
        /\ tally' \in [Node -> SUBSET CommandBallot]
        /\ issued' \in [Client -> Nat] /\ accepted' \in [Node -> SUBSET Command]
    BY <1>4 DEF TypeOK
  <2> QED BY <1>5, <1>7, <2>1, <2>2, <2>3 DEF TypeOK, ExecTyped
<1>9. CASE /\ log' = [log EXCEPT ![n] = lg]
           /\ UNCHANGED <<execute, l, net, done, replied>>
  <2>1. DOMAIN log' = Node /\ log'[n] = lg
    BY <1>9 DEF TypeOK
  <2>2. \A m \in Node : /\ DOMAIN log'[m] \subseteq Nat
                        /\ log'[m] \in [DOMAIN log'[m] -> Entry]
    BY <1>2, <1>6, <2>1 DEF TypeOK
  <2> QED BY <1>4, <1>5, <1>7, <1>9, <2>1, <2>2 DEF TypeOK
<1> QED BY <1>3, <1>8, <1>9

\* HandleVote keeps the types.
LEMMA HandleVoteType ==
  ASSUME TypeOK, NEW p \in Node, NEW q \in Node, NEW i \in DOMAIN net[p][q],
         HandleVote(p, q, i)
  PROVE  TypeOK'
<1>1. TypedNet(net) /\ net[p][q][i] \in Message /\ net[p][q][i].type = "Vote"
  BY TypedNetIsType, MessageAt DEF HandleVote, TypeOK
<1>2. net[p][q][i].L \in SUBSET CommandBallot
  BY <1>1, MessageFields
<1>3. TypedNet(Take(net, p, q, i))
  BY <1>1, TakeNet DEF TypedNet
<1>4. net' \in [Node -> [Node -> Seq(Message)]]
  BY <1>3, TypedNetIsType DEF HandleVote
<1>5. tally' \in [Node -> SUBSET CommandBallot]
  BY <1>2 DEF HandleVote, TypeOK
<1>6. \A n \in Node : sweep[n] = {} \/ tally'[n] = {}
  BY DEF HandleVote, TypeOK, Idle
<1> QED BY <1>4, <1>5, <1>6 DEF HandleVote, TypeOK, history

\* The loop over a Vote keeps the types.
LEMMA TallyType ==
  ASSUME TypeOK, NEW n \in Node, NEW cb \in tally[n], Tally(n, cb)
  PROVE  TypeOK'
<1> DEFINE s  == Slot(cb.cmd)
           e  == IF s \in DOMAIN log[n] THEN log[n][s] ELSE Heard(cb.cmd)
           a  == [e EXCEPT !.acks = @ \cup {cb.id}]
           c  == [a EXCEPT !.commit = TRUE]
<1>1. cb.cmd \in Command /\ cb.id \in Node /\ s \in Nat
  <2>1. cb \in CommandBallot
    BY DEF TypeOK
  <2> QED BY <2>1, HeardEntry DEF CommandBallot
<1>2. log[n] \in [DOMAIN log[n] -> Entry] /\ DOMAIN log[n] \subseteq Nat
  BY DEF TypeOK
<1>3. e \in Entry
  BY <1>1, <1>2, HeardEntry
<1>4. a \in Entry
  <2> HIDE DEF e
  <2> QED BY <1>1, <1>3, EntryUpdates
<1>5. c \in Entry
  <2> HIDE DEF a
  <2> QED BY <1>4, EntryUpdates
<1>6. /\ UNCHANGED <<http, count, flag2, sweep, issued, accepted>>
      /\ tally' = [tally EXCEPT ![n] = @ \ {cb}]
  BY DEF Tally
<1>7. \/ UNCHANGED <<log, execute, l, net, done, replied>>
      \/ Exec(n, Put(log[n], s, c))
      \/ /\ log' = [log EXCEPT ![n] = Put(@, s, a)]
         /\ UNCHANGED <<execute, l, net, done, replied>>
  BY DEF Tally
<1>8. /\ tally' \in [Node -> SUBSET CommandBallot]
      /\ sweep[n] = {}
      /\ \A m \in Node : m # n => tally'[m] = tally[m]
  BY <1>6 DEF TypeOK
<1> HIDE DEF s, e, a, c
<1>9. \A m \in Node : m # n => log'[m] = log[m]
  BY <1>7 DEF Exec, NotRun, TypeOK
<1>10. \A m \in Node : /\ sweep'[m] \subseteq DOMAIN log'[m]
                       /\ sweep'[m] = {} \/ tally'[m] = {}
  BY <1>6, <1>8, <1>9 DEF TypeOK
<1>11. CASE UNCHANGED <<log, execute, l, net, done, replied>>
  BY <1>6, <1>8, <1>10, <1>11 DEF TypeOK
<1>12. CASE Exec(n, Put(log[n], s, c))
  <2>1. /\ DOMAIN Put(log[n], s, c) \subseteq Nat
        /\ Put(log[n], s, c) \in [DOMAIN Put(log[n], s, c) -> Entry]
    BY <1>1, <1>2, <1>5, PutEntry
  <2>2. ExecTyped
    BY <1>12, <2>1, ExecType
  <2>3. net' \in [Node -> [Node -> Seq(Message)]]
    BY <2>2, TypedNetIsType DEF ExecTyped
  <2>4. /\ http' \in [Node -> SUBSET Command] /\ count' \in [Node -> Int]
        /\ flag2' \in [Node -> Nat] /\ DOMAIN sweep' = Node
        /\ issued' \in [Client -> Nat] /\ accepted' \in [Node -> SUBSET Command]
    BY <1>6 DEF TypeOK
  <2> QED BY <1>8, <1>10, <2>2, <2>3, <2>4 DEF TypeOK, ExecTyped
<1>13. CASE /\ log' = [log EXCEPT ![n] = Put(@, s, a)]
            /\ UNCHANGED <<execute, l, net, done, replied>>
  <2>1. /\ DOMAIN Put(log[n], s, a) \subseteq Nat
        /\ Put(log[n], s, a) \in [DOMAIN Put(log[n], s, a) -> Entry]
    BY <1>1, <1>2, <1>4, PutEntry
  <2>2. DOMAIN log' = Node /\ log'[n] = Put(log[n], s, a)
    BY <1>13 DEF TypeOK
  <2>3. \A m \in Node : /\ DOMAIN log'[m] \subseteq Nat
                        /\ log'[m] \in [DOMAIN log'[m] -> Entry]
    BY <1>9, <2>1, <2>2 DEF TypeOK
  <2> QED BY <1>6, <1>8, <1>10, <1>13, <2>2, <2>3 DEF TypeOK
<1> QED BY <1>7, <1>11, <1>12, <1>13

\* Encoding a Vote keeps the types.
LEMMA EncodeType ==
  ASSUME TypeOK, NEW p \in Node, NEW q \in Node, NEW i \in DOMAIN net[p][q],
         Encode(p, q, i)
  PROVE  TypeOK'
<1>1. VoteMsg(l[p]) \in Message
  BY MessageTypes DEF TypeOK
<1>2. TypedNet([net EXCEPT ![p][q][i] = VoteMsg(l[p])])
  <2>1. TypedNet(net)
    BY TypedNetIsType DEF TypeOK
  <2>2. VoteMsg(l[p]) \in [r \in Node |-> Message][p]
    BY <1>1
  <2> QED BY <2>1, <2>2, EncodeNet DEF TypedNet
<1>3. net' \in [Node -> [Node -> Seq(Message)]]
  BY <1>2, TypedNetIsType DEF Encode
<1> QED BY <1>3 DEF Encode, TypeOK, replica, history

\* Losing a message keeps the types.
LEMMA LoseType ==
  ASSUME TypeOK, NEW p \in Node, NEW q \in Node, NEW i \in DOMAIN net[p][q],
         Lose(p, q, i)
  PROVE  TypeOK'
<1>1. TypedNet(Take(net, p, q, i))
  BY TakeNet, TypedNetIsType DEF TypedNet, TypeOK
<1>2. net' \in [Node -> [Node -> Seq(Message)]]
  BY <1>1, TypedNetIsType DEF Lose
<1> QED BY <1>2 DEF Lose, TypeOK, replica, history

\* Every variable keeps its type, one handler of a replica runs at a time, and
\* what a replica executed has no gap (every handler of Consensus).
THEOREM TypeCorrect == Spec => []TypeOK
<1>1. TypeOK /\ [Next]_vars => TypeOK'
  <2> SUFFICES ASSUME TypeOK, [Next]_vars PROVE TypeOK'
    OBVIOUS
  <2>1. ASSUME NEW c \in Client, NEW n \in Node, Issue(c, n) PROVE TypeOK'
    BY <2>1, IssueType
  <2>2. ASSUME NEW n \in Node, Request(n) PROVE TypeOK'
    BY <2>2, HandleRequestType DEF Request
  <2>3. ASSUME NEW n \in Node, Loop(n) PROVE TypeOK'
    BY <2>3, SweepType, TallyType DEF Loop
  <2>4. ASSUME NEW p \in Node, NEW q \in Node, Deliver(p, q) PROVE TypeOK'
    BY <2>4, HandleProposeType, HandleVoteType, EncodeType DEF Deliver
  <2>5. ASSUME NEW p \in Node, NEW q \in Node, NEW i \in DOMAIN net[p][q],
               Lose(p, q, i)
        PROVE  TypeOK'
    BY <2>5, LoseType
  <2>6. CASE UNCHANGED vars
    BY <2>6 DEF vars, replica, history, TypeOK
  <2> QED BY <2>1, <2>2, <2>3, <2>4, <2>5, <2>6 DEF Next, Progress
<1> QED BY <1>1, InitType, PTL DEF Spec

-----------------------------------------------------------------------------
(* What the votes guarantee when one client numbers the slots: the invariant   *)
(* SoundVotes of Consensus is inductive, on links that lose and reorder too.   *)

OneClient == \A c, d \in Client : c = d

-----------------------------------------------------------------------------
(* Commands, majorities and what grows with accepted *)

\* With one client a slot has one command.
LEMMA SameSlot ==
  ASSUME OneClient, NEW c \in Command, NEW d \in Command, Slot(c) = Slot(d)
  PROVE  c = d
BY DEF OneClient, Command, Slot

\* More acknowledgements do not undo a majority.
LEMMA MajorityMonotone ==
  ASSUME NEW A \in SUBSET Node, NEW B \in SUBSET Node, A \subseteq B, Majority(A)
  PROVE  Majority(B)
<1>1. IsFiniteSet(A) /\ IsFiniteSet(B)
  BY NodeAssumption, FS_Subset
<1>2. Cardinality(A) \in Nat /\ Cardinality(B) \in Nat /\ Cardinality(A) <= Cardinality(B)
  BY <1>1, FS_Subset, FS_CardinalityType
<1> QED BY <1>2, SizeOfNode DEF Majority

\* Every replica keeps what it accepted.
Grows(acc, new) == \A n \in Node : acc[n] \subseteq new[n]

\* What a replica has accepted it has accepted for good.
LEMMA AcceptersGrow ==
  ASSUME NEW acc, NEW new, Grows(acc, new), NEW n \in Node, NEW c
  PROVE  /\ Accepters(n, c, acc) \subseteq Accepters(n, c, new)
         /\ Majority(Accepters(n, c, acc)) => Majority(Accepters(n, c, new))
<1>1. /\ Accepters(n, c, acc) \in SUBSET Node
      /\ Accepters(n, c, new) \in SUBSET Node
      /\ Accepters(n, c, acc) \subseteq Accepters(n, c, new)
  BY DEF Accepters, Grows
<1> QED BY <1>1, MajorityMonotone

\* A log stays sound when more is accepted.
LEMMA SoundLogGrows ==
  ASSUME NEW acc, NEW new, Grows(acc, new), NEW n \in Node, NEW lg,
         SoundLog(n, lg, acc)
  PROVE  SoundLog(n, lg, new)
<1> SUFFICES ASSUME NEW s \in DOMAIN lg
             PROVE  /\ Slot(lg[s].cmd) = s
                    /\ lg[s].acks \subseteq Accepters(n, lg[s].cmd, new)
                    /\ lg[s].commit => Majority(Accepters(n, lg[s].cmd, new))
                    /\ lg[s].leader => lg[s].cmd \in new[n]
  BY DEF SoundLog
<1>1. /\ Slot(lg[s].cmd) = s
      /\ lg[s].acks \subseteq Accepters(n, lg[s].cmd, acc)
      /\ lg[s].commit => Majority(Accepters(n, lg[s].cmd, acc))
      /\ lg[s].leader => lg[s].cmd \in acc[n]
  BY DEF SoundLog
<1>2. acc[n] \subseteq new[n]
  BY DEF Grows
<1> QED BY <1>1, <1>2, AcceptersGrow

\* So does what was executed.
LEMMA SoundDoneGrows ==
  ASSUME NEW acc, NEW new, Grows(acc, new), NEW n \in Node, NEW d,
         SoundDone(n, d, acc)
  PROVE  SoundDone(n, d, new)
BY AcceptersGrow DEF SoundDone

\* So do messages.
LEMMA SoundMsgGrows ==
  ASSUME NEW acc, NEW new, Grows(acc, new), NEW p \in Node
  PROVE  /\ SoundBallots(p, acc) \subseteq SoundBallots(p, new)
         /\ SoundMsg(p, acc) \subseteq SoundMsg(p, new)
<1>1. SoundBallots(p, acc) \subseteq SoundBallots(p, new)
  BY DEF SoundBallots, Grows
<1> QED BY <1>1 DEF SoundMsg

\* So does what more than half of the replicas have accepted.
LEMMA DurableGrows ==
  ASSUME NEW acc, NEW new, Grows(acc, new), NEW c,
         Cardinality({q \in Node : c \in acc[q]}) > N \div 2
  PROVE  Cardinality({q \in Node : c \in new[q]}) > N \div 2
<1> DEFINE A == {q \in Node : c \in acc[q]}
           B == {q \in Node : c \in new[q]}
<1>1. A \subseteq B /\ IsFiniteSet(A) /\ IsFiniteSet(B)
  BY NodeAssumption, FS_Subset DEF Grows
<1>2. Cardinality(A) \in Nat /\ Cardinality(B) \in Nat /\ Cardinality(A) <= Cardinality(B)
  BY <1>1, FS_Subset, FS_CardinalityType
<1> QED BY <1>2, SizeOfNode

\* The leader and a majority in the sense of Quorum are more than half.
LEMMA LeaderAndMajority ==
  ASSUME NEW n \in Node, NEW c, NEW acc, c \in acc[n],
         Majority(Accepters(n, c, acc))
  PROVE  Cardinality({q \in Node : c \in acc[q]}) > N \div 2
<1> DEFINE A == Accepters(n, c, acc)
<1>1. {q \in Node : c \in acc[q]} = A \cup {n} /\ n \notin A
  BY DEF Accepters
<1>2. IsFiniteSet(A)
  BY NodeAssumption, FS_Subset DEF Accepters
<1>3. Cardinality(A \cup {n}) = Cardinality(A) + 1 /\ Cardinality(A) \in Nat
  BY <1>1, <1>2, FS_AddElement, FS_CardinalityType
<1>4. Cardinality(A) >= N \div 2
  BY DEF Majority
<1>5. Cardinality({q \in Node : c \in acc[q]}) = Cardinality(A) + 1
  BY <1>1, <1>3, Zenon
<1> HIDE DEF A
<1> QED BY <1>3, <1>4, <1>5, SizeOfNode

-----------------------------------------------------------------------------
(* The links *)

SoundNet(nt, acc) == NetOver(nt, [p \in Node |-> SoundMsg(p, acc)])
SelfFree(nt) == \A n \in Node : nt[n][n] = <<>>

\* The sound channels, channel by channel.
LEMMA SoundNetIs ==
  ASSUME TypeOK, NEW acc
  PROVE  SoundNet(net, acc) <=> \A p, q \in Node : net[p][q] \in Seq(SoundMsg(p, acc))
BY DEF SoundNet, NetOver, TypeOK

\* Channels stay sound when more is accepted.
LEMMA SoundNetGrows ==
  ASSUME NEW acc, NEW new, Grows(acc, new), NEW nt, SoundNet(nt, acc)
  PROVE  SoundNet(nt, new)
BY SoundMsgGrows, NetMonotone DEF SoundNet

\* Proposes and references to p.l are sound, and Votes whose ballots are.
LEMMA SoundMessages ==
  ASSUME NEW p \in Node, NEW acc
  PROVE  /\ \A c \in Command : ProposeMsg(c) \in SoundMsg(p, acc)
         /\ \A L \in SoundBallots(p, acc) : VoteMsg(L) \in SoundMsg(p, acc)
         /\ VoteRef \in SoundMsg(p, acc)
         /\ \A m \in SoundMsg(p, acc) : m.type = "Vote" => m.L \in SoundBallots(p, acc)
BY DEF SoundMsg, ProposeMsg, VoteMsg, VoteRef

\* A broadcast sends nothing to its sender.
LEMMA SelfFreeSends ==
  ASSUME NEW nt, nt = [p \in Node |-> [q \in Node |-> nt[p][q]]], SelfFree(nt),
         NEW n \in Node, NEW m
  PROVE  SelfFree(Broadcast(nt, n, m))
BY DEF SelfFree, Broadcast

\* Messages are taken from other replicas.
LEMMA SelfFreeTakes ==
  ASSUME NEW nt, nt = [p \in Node |-> [q \in Node |-> nt[p][q]]], SelfFree(nt),
         NEW p \in Node, NEW q \in Node, NEW i \in DOMAIN nt[p][q]
  PROVE  p # q /\ SelfFree(Take(nt, p, q, i))
<1>1. p # q
  BY EmptyFunction DEF SelfFree
<1> QED BY <1>1 DEF SelfFree, Take

\* Encoding references sends nothing.
LEMMA SelfFreeFreezes ==
  ASSUME NEW nt, nt = [p \in Node |-> [q \in Node |-> nt[p][q]]], SelfFree(nt),
         NEW n \in Node, NEW L
  PROVE  SelfFree(Frozen(nt, n, L))
<1>1. Len(nt[n][n]) = 0
  BY EmptySeq DEF SelfFree
<1>2. Frozen(nt, n, L)[n][n] = <<>>
  BY <1>1 DEF Frozen
<1> QED BY <1>2 DEF SelfFree, Frozen

-----------------------------------------------------------------------------
(* The invariant and its steps *)

Inv == TypeOK /\ SoundVotes

\* The types and SoundVotes hold at first.
LEMMA InitInv == Init => Inv
<1> SUFFICES ASSUME Init PROVE SoundVotes
  BY InitType DEF Inv
<1>1. \A n \in Node : DOMAIN log[n] = {} /\ DOMAIN done[n] = {}
  BY EmptyFunction DEF Init
<1>2. \A n \in Node : /\ SoundLog(n, log[n], accepted)
                      /\ SoundDone(n, done[n], accepted)
  BY <1>1 DEF SoundLog, SoundDone
<1>3. \A p, q \in Node : net[p][q] \in Seq(SoundMsg(p, accepted))
  BY EmptySeq DEF Init
<1>4. \A n \in Node : l[n] \in SoundBallots(n, accepted)
  BY DEF Init, SoundBallots
<1> QED BY <1>2, <1>3, <1>4 DEF Init, SoundVotes, ReplyDurable

\* What exec() of n on a sound log changes is sound.
LEMMA ExecSound ==
  ASSUME Inv, NEW n \in Node, NEW lg, DOMAIN lg \subseteq Nat,
         lg \in [DOMAIN lg -> Entry], SoundLog(n, lg, accepted),
         Exec(n, lg), accepted' = accepted
  PROVE  /\ \A m \in Node : SoundLog(m, log'[m], accepted)
         /\ \A m \in Node : SoundDone(m, done'[m], accepted)
         /\ \A m \in Node : l'[m] \in SoundBallots(m, accepted)
         /\ SoundNet(net', accepted) /\ SelfFree(net')
         /\ ReplyDurable'
<1> DEFINE ran(e)  == execute[n]..(e - 1)
           rest(e) == Restrict(lg, DOMAIN lg \ ran(e))
           held(e) == e \in DOMAIN lg /\ lg[e].commit
<1>1. PICK e \in {execute[n]} \cup {s + 1 : s \in DOMAIN lg} :
         /\ StopsAt(lg, n, e)
         /\ log' = [log EXCEPT ![n] =
                      IF held(e) THEN [rest(e) EXCEPT ![e].acks = {}] ELSE rest(e)]
         /\ l' = [l EXCEPT ![n] = {cb \in @ : Slot(cb.cmd) \notin ran(e)}]
         /\ net' = IF held(e) THEN Broadcast(net, n, VoteRef) ELSE net
         /\ done' = [done EXCEPT ![n] = [s \in DOMAIN @ \cup ran(e) |->
                       IF s \in ran(e) THEN lg[s].cmd ELSE @[s]]]
         /\ replied' = replied \cup Answers(lg, ran(e))
  BY DEF Exec, NotRun
<1>2. \A s \in ran(e) : s \in DOMAIN lg /\ lg[s].commit
  BY <1>1 DEF StopsAt, Runs
<1>3. \A m \in Node : SoundLog(m, log'[m], accepted)
  <2>1. SoundLog(n, rest(e), accepted)
    BY DEF SoundLog, Restrict
  <2>2. ASSUME held(e)
        PROVE  SoundLog(n, [rest(e) EXCEPT ![e].acks = {}], accepted)
    <3>1. rest(e) \in [DOMAIN rest(e) -> Entry]
      BY DEF Restrict
    <3> HIDE DEF rest
    <3> QED BY <2>1, <3>1 DEF SoundLog, Entry
  <2>3. \A m \in Node : m # n => log'[m] = log[m]
    BY <1>1
  <2>4. SoundLog(n, log'[n], accepted)
    <3> HIDE DEF rest, held
    <3> QED BY <1>1, <2>1, <2>2 DEF Inv, TypeOK
  <2> QED BY <2>3, <2>4 DEF Inv, SoundVotes
<1>4. \A m \in Node : SoundDone(m, done'[m], accepted)
  <2>1. \A s \in ran(e) : /\ Slot(lg[s].cmd) = s
                          /\ Majority(Accepters(n, lg[s].cmd, accepted))
    BY <1>2 DEF SoundLog
  <2>2. done'[n] = [s \in DOMAIN done[n] \cup ran(e) |->
                       IF s \in ran(e) THEN lg[s].cmd ELSE done[n][s]]
    BY <1>1 DEF Inv, TypeOK
  <2>3. SoundDone(n, done[n], accepted)
    BY DEF Inv, SoundVotes
  <2>4. SoundDone(n, done'[n], accepted)
    <3> HIDE DEF ran
    <3> QED BY <2>1, <2>2, <2>3 DEF SoundDone
  <2>5. \A m \in Node : m # n => done'[m] = done[m]
    BY <1>1
  <2> QED BY <2>4, <2>5 DEF Inv, SoundVotes
<1>5. \A m \in Node : l'[m] \in SoundBallots(m, accepted)
  BY <1>1 DEF Inv, TypeOK, SoundVotes, SoundBallots
<1>6. SoundNet(net', accepted) /\ SelfFree(net')
  <2>1. SoundNet(net, accepted) /\ SelfFree(net)
    BY SoundNetIs DEF Inv, SoundVotes, SelfFree
  <2>2. SoundNet(Broadcast(net, n, VoteRef), accepted)
    <3>1. VoteRef \in [p \in Node |-> SoundMsg(p, accepted)][n]
      BY SoundMessages
    <3> QED BY <2>1, <3>1, BroadcastNet DEF SoundNet
  <2>3. SelfFree(Broadcast(net, n, VoteRef))
    BY <2>1, SelfFreeSends DEF SoundNet, NetOver
  <2> QED BY <1>1, <2>1, <2>2, <2>3
<1>7. ReplyDurable'
  <2> SUFFICES ASSUME NEW c \in replied'
               PROVE  Cardinality({q \in Node : c \in accepted[q]}) > N \div 2
    BY DEF ReplyDurable
  <2>1. CASE c \in replied
    BY <2>1 DEF Inv, SoundVotes, ReplyDurable
  <2>2. CASE \E s \in ran(e) : lg[s].leader /\ c = lg[s].cmd
    <3>1. PICK s \in ran(e) : lg[s].leader /\ c = lg[s].cmd
      BY <2>2
    <3>2. c \in accepted[n] /\ Majority(Accepters(n, c, accepted))
      BY <1>2, <3>1 DEF SoundLog
    <3> QED BY <3>2, LeaderAndMajority
  <2> QED BY <1>1, <2>1, <2>2 DEF Answers
<1> QED BY <1>3, <1>4, <1>5, <1>6, <1>7

\* A new write keeps the votes sound.
LEMMA IssueSound ==
  ASSUME Inv, NEW c \in Client, NEW n \in Node, Issue(c, n)
  PROVE  SoundVotes'
<1>1. UNCHANGED <<net, log, l, tally, replied, done, accepted>>
  BY DEF Issue, replica, history
<1> QED BY <1>1 DEF Inv, SoundVotes, ReplyDurable

\* The parts of SoundVotes that only the growth of accepted concerns.
LEMMA GrowthSound ==
  ASSUME Inv, Grows(accepted, accepted'), accepted' \in [Node -> SUBSET Command],
         UNCHANGED <<done, replied, tally>>
  PROVE  /\ \A m \in Node : SoundLog(m, log[m], accepted')
         /\ \A m \in Node : SoundDone(m, done'[m], accepted')
         /\ \A m \in Node : l[m] \in SoundBallots(m, accepted')
         /\ SoundNet(net, accepted') /\ SelfFree(net)
         /\ \A m \in Node : \A cb \in tally'[m] :
               cb.id # m /\ cb.cmd \in accepted'[cb.id]
         /\ ReplyDurable'
<1>1. \A m \in Node : /\ SoundLog(m, log[m], accepted')
                     /\ SoundDone(m, done'[m], accepted')
                     /\ l[m] \in SoundBallots(m, accepted')
  BY SoundLogGrows, SoundDoneGrows, SoundMsgGrows DEF Inv, SoundVotes
<1>2. SoundNet(net, accepted') /\ SelfFree(net)
  BY SoundNetIs, SoundNetGrows DEF Inv, SoundVotes, SelfFree
<1>3. ASSUME NEW m \in Node, NEW cb \in tally'[m]
      PROVE  cb.id # m /\ cb.cmd \in accepted'[cb.id]
  <2>1. cb.id # m /\ cb.cmd \in accepted[cb.id] /\ cb.id \in Node
    BY <1>3 DEF Inv, SoundVotes, TypeOK, CommandBallot
  <2> QED BY <2>1 DEF Grows
<1>4. ReplyDurable'
  <2>1. \A c \in replied : Cardinality({q \in Node : c \in accepted[q]}) > N \div 2
    BY DEF Inv, SoundVotes, ReplyDurable
  <2>2. \A c \in replied : Cardinality({q \in Node : c \in accepted'[q]}) > N \div 2
    <3> TAKE c \in replied
    <3>1. Cardinality({q \in Node : c \in accepted[q]}) > N \div 2
      BY <2>1
    <3> QED BY <3>1, DurableGrows
  <2> QED BY <2>2 DEF ReplyDurable
<1> QED BY <1>1, <1>2, <1>3, <1>4

\* HandleRequest keeps the votes sound: the leader accepts what it proposes.
LEMMA HandleRequestSound ==
  ASSUME Inv, NEW n \in Node, NEW cmd \in http[n], HandleRequest(n, cmd)
  PROVE  SoundVotes'
<1>1. /\ cmd \in Command
      /\ accepted' = [accepted EXCEPT ![n] = @ \cup {cmd}]
      /\ log' = [log EXCEPT ![n] = Put(@, Slot(cmd), Requested(cmd))]
      /\ l' = [l EXCEPT ![n] = Record(@, [cmd |-> cmd, id |-> n])]
      /\ net' = Broadcast(net, n, ProposeMsg(cmd))
      /\ UNCHANGED <<done, replied, tally>>
  BY DEF HandleRequest, Inv, TypeOK
<1>2. /\ Grows(accepted, accepted')
      /\ accepted' \in [Node -> SUBSET Command]
      /\ cmd \in accepted'[n]
  BY <1>1 DEF Inv, TypeOK, Grows
<1>3. /\ \A m \in Node : SoundLog(m, log[m], accepted')
      /\ \A m \in Node : SoundDone(m, done'[m], accepted')
      /\ \A m \in Node : l[m] \in SoundBallots(m, accepted')
      /\ SoundNet(net, accepted') /\ SelfFree(net)
      /\ \A m \in Node : \A cb \in tally'[m] :
            cb.id # m /\ cb.cmd \in accepted'[cb.id]
      /\ ReplyDurable'
  BY <1>1, <1>2, GrowthSound
<1>4. \A m \in Node : SoundLog(m, log'[m], accepted')
  <2>1. SoundLog(n, Put(log[n], Slot(cmd), Requested(cmd)), accepted')
    BY <1>1, <1>2, <1>3 DEF SoundLog, Put, Requested, Heard
  <2> QED BY <1>1, <1>3, <2>1 DEF Inv, TypeOK
<1>5. \A m \in Node : l'[m] \in SoundBallots(m, accepted')
  <2>1. Record(l[n], [cmd |-> cmd, id |-> n]) \in SoundBallots(n, accepted')
    BY <1>2, <1>3 DEF SoundBallots, Record
  <2> QED BY <1>1, <1>3, <2>1 DEF Inv, TypeOK
<1>6. SoundNet(net', accepted') /\ SelfFree(net')
  <2>1. ProposeMsg(cmd) \in [p \in Node |-> SoundMsg(p, accepted')][n]
    BY <1>1, SoundMessages
  <2>2. SoundNet(Broadcast(net, n, ProposeMsg(cmd)), accepted')
    BY <1>3, <2>1, BroadcastNet DEF SoundNet
  <2>3. SelfFree(Broadcast(net, n, ProposeMsg(cmd)))
    BY <1>3, SelfFreeSends DEF SoundNet, NetOver
  <2> QED BY <1>1, <2>2, <2>3
<1> QED BY <1>3, <1>4, <1>5, <1>6 DEF SoundVotes, SoundNet, NetOver, SelfFree

\* Marking the entries as voted changes no acknowledgement.
LEMMA AllVotedSound ==
  ASSUME NEW n, NEW acc, NEW lg, DOMAIN lg \subseteq Nat,
         lg \in [DOMAIN lg -> Entry], SoundLog(n, lg, acc)
  PROVE  SoundLog(n, AllVoted(lg), acc)
<1>1. ASSUME NEW x \in Entry
      PROVE  LET v == [x EXCEPT !.voted = TRUE]
             IN /\ v.cmd = x.cmd /\ v.acks = x.acks
                /\ v.commit = x.commit /\ v.leader = x.leader
  BY DEF Entry
<1>2. \A s \in DOMAIN lg : /\ lg[s] \in Entry
                          /\ AllVoted(lg)[s] = [lg[s] EXCEPT !.voted = TRUE]
  BY DEF AllVoted
<1>3. DOMAIN AllVoted(lg) = DOMAIN lg
  BY DEF AllVoted
<1>4. \A s \in DOMAIN lg :
        /\ AllVoted(lg)[s].cmd = lg[s].cmd /\ AllVoted(lg)[s].acks = lg[s].acks
        /\ AllVoted(lg)[s].commit = lg[s].commit
        /\ AllVoted(lg)[s].leader = lg[s].leader
  BY <1>1, <1>2
<1> QED BY <1>3, <1>4 DEF SoundLog

\* HandlePropose keeps the votes sound: what q records in p.l it has accepted.
LEMMA HandleProposeSound ==
  ASSUME Inv, NEW p \in Node, NEW q \in Node, NEW i \in DOMAIN net[p][q],
         HandlePropose(p, q, i)
  PROVE  SoundVotes'
<1> DEFINE cmd   == net[p][q][i].cmd
           s     == Slot(cmd)
           known == s \in DOMAIN log[q]
           cnt   == IF known THEN count[q] ELSE count[q] + 1
           e     == Adopted(log[q], cmd)
           lg    == Put(log[q], s, e)
           L     == Record(l[q], [cmd |-> cmd, id |-> q])
           full  == Cardinality(L) >= Total
           due   == full \/ cnt >= execute[q] + Total
           took  == Take(net, p, q, i)
<1>1. /\ log' = [log EXCEPT ![q] = IF due THEN AllVoted(lg) ELSE lg]
      /\ l' = [l EXCEPT ![q] = IF full THEN {} ELSE L]
      /\ net' = IF full THEN Broadcast(Frozen(took, q, L), q, VoteMsg(L)) ELSE took
      /\ accepted' = [accepted EXCEPT ![q] = @ \cup {cmd}]
      /\ UNCHANGED <<done, replied, tally>>
  BY DEF HandlePropose
<1>2. cmd \in Command /\ s \in Nat /\ Heard(cmd) \in Entry
  <2>1. net[p][q][i] \in Message /\ net[p][q][i].type = "Propose"
    BY TypedNetIsType, MessageAt DEF HandlePropose, Inv, TypeOK
  <2> QED BY <2>1, MessageFields, HeardEntry
<1>3. /\ Grows(accepted, accepted')
      /\ accepted' \in [Node -> SUBSET Command]
      /\ cmd \in accepted'[q]
  BY <1>1, <1>2 DEF Inv, TypeOK, Grows
<1>4. /\ \A m \in Node : SoundLog(m, log[m], accepted')
      /\ \A m \in Node : SoundDone(m, done'[m], accepted')
      /\ \A m \in Node : l[m] \in SoundBallots(m, accepted')
      /\ SoundNet(net, accepted') /\ SelfFree(net)
      /\ \A m \in Node : \A cb \in tally'[m] :
            cb.id # m /\ cb.cmd \in accepted'[cb.id]
      /\ ReplyDurable'
  BY <1>1, <1>3, GrowthSound
<1>5. log[q] \in [DOMAIN log[q] -> Entry] /\ DOMAIN log[q] \subseteq Nat /\ DOMAIN log = Node
  BY DEF Inv, TypeOK
<1>6. /\ e \in Entry
      /\ Slot(e.cmd) = s /\ e.leader = FALSE
      /\ e.acks \subseteq Accepters(q, e.cmd, accepted')
      /\ e.commit => Majority(Accepters(q, e.cmd, accepted'))
  <2>1. CASE known
    <3>1. /\ log[q][s] \in Entry /\ Slot(log[q][s].cmd) = s
          /\ log[q][s].acks \subseteq Accepters(q, log[q][s].cmd, accepted')
          /\ log[q][s].commit => Majority(Accepters(q, log[q][s].cmd, accepted'))
      BY <1>4, <1>5, <2>1 DEF SoundLog
    <3>2. e = [log[q][s] EXCEPT !.leader = FALSE]
      BY <2>1 DEF Adopted
    <3> HIDE DEF e, s, cmd
    <3> QED BY <3>1, <3>2 DEF Entry
  <2>2. CASE ~known
    BY <1>2, <2>2 DEF Heard, Adopted
  <2> QED BY <2>1, <2>2
<1>7. /\ DOMAIN lg \subseteq Nat /\ lg \in [DOMAIN lg -> Entry]
      /\ SoundLog(q, lg, accepted')
  <2> HIDE DEF e, s, cmd
  <2>1. /\ DOMAIN lg = DOMAIN log[q] \cup {s}
        /\ DOMAIN lg \subseteq Nat /\ lg \in [DOMAIN lg -> Entry]
        /\ lg[s] = e /\ \A x \in DOMAIN log[q] : x # s => lg[x] = log[q][x]
    <3>1. /\ DOMAIN log[q] \subseteq Nat /\ log[q] \in [DOMAIN log[q] -> Entry]
          /\ s \in Nat /\ e \in Entry
      BY <1>2, <1>5, <1>6
    <3>2. lg = Put(log[q], s, e)
      OBVIOUS
    <3> HIDE DEF lg
    <3> QED BY <3>1, <3>2 DEF Put
  <2>2. SoundLog(q, log[q], accepted')
    BY <1>4
  <2> HIDE DEF lg
  <2> QED BY <1>6, <2>1, <2>2 DEF SoundLog
<1>8. \A m \in Node : SoundLog(m, log'[m], accepted')
  <2> HIDE DEF lg, due
  <2> QED BY <1>1, <1>4, <1>5, <1>7, AllVotedSound
<1>9. L \in SoundBallots(q, accepted') /\ {} \in SoundBallots(q, accepted')
  BY <1>3, <1>4 DEF SoundBallots, Record
<1>10. \A m \in Node : l'[m] \in SoundBallots(m, accepted')
  <2> HIDE DEF L, full
  <2> QED BY <1>1, <1>4, <1>9 DEF Inv, TypeOK
<1>11. SoundNet(net', accepted') /\ SelfFree(net')
  <2>1. SoundNet(took, accepted') /\ SelfFree(took)
    <3>1. SoundNet(took, accepted')
      BY <1>4, TakeNet DEF SoundNet
    <3>2. SelfFree(took)
      BY <1>4, SelfFreeTakes DEF SoundNet, NetOver
    <3> QED BY <3>1, <3>2
  <2>2. VoteMsg(L) \in [r \in Node |-> SoundMsg(r, accepted')][q]
    BY <1>9, SoundMessages
  <2> HIDE DEF took, L
  <2>3. SoundNet(Frozen(took, q, L), accepted') /\ SelfFree(Frozen(took, q, L))
    <3>1. SoundNet(Frozen(took, q, L), accepted')
      BY <2>1, <2>2, FrozenNet DEF SoundNet
    <3>2. SelfFree(Frozen(took, q, L))
      BY <2>1, SelfFreeFreezes DEF SoundNet, NetOver
    <3> QED BY <3>1, <3>2
  <2>4. /\ SoundNet(Broadcast(Frozen(took, q, L), q, VoteMsg(L)), accepted')
        /\ SelfFree(Broadcast(Frozen(took, q, L), q, VoteMsg(L)))
    <3>1. SoundNet(Broadcast(Frozen(took, q, L), q, VoteMsg(L)), accepted')
      BY <2>2, <2>3, BroadcastNet DEF SoundNet
    <3>2. SelfFree(Broadcast(Frozen(took, q, L), q, VoteMsg(L)))
      BY <2>3, SelfFreeSends DEF SoundNet, NetOver
    <3> QED BY <3>1, <3>2
  <2> QED BY <1>1, <2>1, <2>4
<1> QED BY <1>4, <1>8, <1>10, <1>11 DEF SoundVotes, SoundNet, NetOver, SelfFree

\* The loop over the log keeps the votes sound.
LEMMA SweepSound ==
  ASSUME Inv, NEW n \in Node, NEW s \in sweep[n], Sweep(n, s)
  PROVE  SoundVotes'
<1> DEFINE lg == [log[n] EXCEPT ![s].voted = TRUE]
<1>1. /\ s \in DOMAIN log[n] /\ DOMAIN log[n] \subseteq Nat
      /\ log[n] \in [DOMAIN log[n] -> Entry] /\ DOMAIN log = Node
  BY DEF Inv, TypeOK
<1>2. /\ UNCHANGED <<tally, accepted>>
      /\ \/ Exec(n, lg)
         \/ /\ log' = [log EXCEPT ![n] = lg]
            /\ UNCHANGED <<l, net, done, replied>>
  BY DEF Sweep
<1>3. DOMAIN lg \subseteq Nat /\ lg \in [DOMAIN lg -> Entry] /\ SoundLog(n, lg, accepted)
  <2>1. log[n][s] \in Entry /\ SoundLog(n, log[n], accepted)
    BY <1>1 DEF Inv, SoundVotes
  <2>2. /\ [log[n][s] EXCEPT !.voted = TRUE] \in Entry
        /\ [log[n][s] EXCEPT !.voted = TRUE].cmd = log[n][s].cmd
        /\ [log[n][s] EXCEPT !.voted = TRUE].acks = log[n][s].acks
        /\ [log[n][s] EXCEPT !.voted = TRUE].commit = log[n][s].commit
        /\ [log[n][s] EXCEPT !.voted = TRUE].leader = log[n][s].leader
    BY <2>1 DEF Entry
  <2> QED BY <1>1, <2>1, <2>2 DEF SoundLog
<1> HIDE DEF lg
<1>4. \A m \in Node : \A cb \in tally'[m] : cb.id # m /\ cb.cmd \in accepted'[cb.id]
  BY <1>2 DEF Inv, SoundVotes
<1>5. CASE Exec(n, lg)
  <2>1. /\ \A m \in Node : SoundLog(m, log'[m], accepted)
        /\ \A m \in Node : SoundDone(m, done'[m], accepted)
        /\ \A m \in Node : l'[m] \in SoundBallots(m, accepted)
        /\ SoundNet(net', accepted) /\ SelfFree(net')
        /\ ReplyDurable'
    BY <1>2, <1>3, <1>5, ExecSound
  <2> QED BY <1>2, <1>4, <2>1 DEF SoundVotes, SoundNet, NetOver, SelfFree
<1>6. CASE /\ log' = [log EXCEPT ![n] = lg]
           /\ UNCHANGED <<l, net, done, replied>>
  <2>1. \A m \in Node : SoundLog(m, log'[m], accepted)
    BY <1>1, <1>3, <1>6 DEF Inv, SoundVotes
  <2> QED BY <1>2, <1>4, <1>6, <2>1 DEF Inv, SoundVotes, ReplyDurable
<1> QED BY <1>2, <1>5, <1>6

\* HandleVote keeps the votes sound: what it will count was accepted.
LEMMA HandleVoteSound ==
  ASSUME Inv, NEW p \in Node, NEW q \in Node, NEW i \in DOMAIN net[p][q],
         HandleVote(p, q, i)
  PROVE  SoundVotes'
<1>1. /\ net[p][q][i].type = "Vote"
      /\ tally' = [tally EXCEPT ![q] = net[p][q][i].L]
      /\ net' = Take(net, p, q, i)
      /\ UNCHANGED <<log, l, replied, done, accepted>>
  BY DEF HandleVote, history
<1>2. SoundNet(net, accepted) /\ SelfFree(net)
  BY SoundNetIs DEF Inv, SoundVotes, SelfFree
<1>3. SoundNet(net', accepted)
  BY <1>1, <1>2, TakeNet DEF SoundNet
<1>4. p # q /\ SelfFree(net')
  BY <1>1, <1>2, SelfFreeTakes DEF SoundNet, NetOver
<1>5. net[p][q][i].L \in SoundBallots(p, accepted)
  <2>1. net[p][q] \in Seq(SoundMsg(p, accepted))
    BY DEF Inv, SoundVotes
  <2>2. net[p][q][i] \in SoundMsg(p, accepted)
    BY <2>1, ElementOfSeq, LenProperties
  <2> QED BY <1>1, <2>2, SoundMessages
<1>6. \A m \in Node : \A cb \in tally'[m] : cb.id # m /\ cb.cmd \in accepted[cb.id]
  BY <1>1, <1>4, <1>5 DEF Inv, SoundVotes, TypeOK, SoundBallots
<1> QED BY <1>1, <1>3, <1>4, <1>6
        DEF Inv, SoundVotes, SoundNet, NetOver, SelfFree, ReplyDurable

\* Counting a Vote keeps the votes sound: with one client an acknowledgement of
\* the slot is one of the command.
LEMMA TallySound ==
  ASSUME OneClient, Inv, NEW n \in Node, NEW cb \in tally[n], Tally(n, cb)
  PROVE  SoundVotes'
<1> DEFINE s  == Slot(cb.cmd)
           e  == IF s \in DOMAIN log[n] THEN log[n][s] ELSE Heard(cb.cmd)
           a  == [e EXCEPT !.acks = @ \cup {cb.id}]
           c  == [a EXCEPT !.commit = TRUE]
<1>1. cb.cmd \in Command /\ cb.id \in Node /\ s \in Nat /\ Heard(cb.cmd) \in Entry
  <2>1. cb \in CommandBallot
    BY DEF Inv, TypeOK
  <2> QED BY <2>1, HeardEntry DEF CommandBallot
<1>2. /\ log[n] \in [DOMAIN log[n] -> Entry] /\ DOMAIN log[n] \subseteq Nat
      /\ DOMAIN log = Node /\ SoundLog(n, log[n], accepted)
      /\ cb.id \in Accepters(n, cb.cmd, accepted)
  BY <1>1 DEF Inv, TypeOK, SoundVotes, Accepters
<1>3. /\ UNCHANGED accepted
      /\ tally' = [tally EXCEPT ![n] = @ \ {cb}]
      /\ \/ UNCHANGED <<log, l, net, done, replied>>
         \/ Majority(a.acks) /\ Exec(n, Put(log[n], s, c))
         \/ /\ log' = [log EXCEPT ![n] = Put(@, s, a)]
            /\ UNCHANGED <<l, net, done, replied>>
  BY DEF Tally
<1>4. /\ e \in Entry /\ e.cmd = cb.cmd
      /\ e.acks \subseteq Accepters(n, cb.cmd, accepted)
      /\ e.commit => Majority(Accepters(n, cb.cmd, accepted))
      /\ e.leader => cb.cmd \in accepted[n]
  <2>1. CASE s \in DOMAIN log[n]
    <3>1. e \in Entry /\ e = log[n][s] /\ Slot(e.cmd) = s
      BY <1>2, <2>1 DEF SoundLog
    <3>2. e.cmd = cb.cmd
      <4>1. e.cmd \in Command
        BY <3>1 DEF Entry
      <4> QED BY <1>1, <3>1, <4>1, SameSlot
    <3> QED BY <1>2, <2>1, <3>1, <3>2 DEF SoundLog
  <2>2. CASE s \notin DOMAIN log[n]
    BY <1>1, <2>2 DEF Heard
  <2> QED BY <2>1, <2>2
<1>5. /\ a \in Entry /\ a.cmd = cb.cmd
      /\ a.acks \subseteq Accepters(n, cb.cmd, accepted)
      /\ a.commit => Majority(Accepters(n, cb.cmd, accepted))
      /\ a.leader => cb.cmd \in accepted[n]
  <2> HIDE DEF e
  <2> QED BY <1>1, <1>2, <1>4 DEF Entry
<1>6. /\ c \in Entry /\ c.cmd = cb.cmd /\ c.acks = a.acks
      /\ c.leader => cb.cmd \in accepted[n]
  <2> HIDE DEF a
  <2> QED BY <1>5 DEF Entry
<1>7. Majority(a.acks) => Majority(Accepters(n, cb.cmd, accepted))
  BY <1>5, MajorityMonotone DEF Accepters
<1>8. Slot(cb.cmd) = s
  OBVIOUS
<1> HIDE DEF s, e, a, c
<1>9. SoundLog(n, Put(log[n], s, a), accepted)
  BY <1>2, <1>5, <1>8 DEF SoundLog, Put
<1>10. Majority(a.acks) => SoundLog(n, Put(log[n], s, c), accepted)
  BY <1>2, <1>5, <1>6, <1>7, <1>8 DEF SoundLog, Put
<1>11. \A m \in Node : \A b \in tally'[m] : b.id # m /\ b.cmd \in accepted'[b.id]
  BY <1>3 DEF Inv, SoundVotes, TypeOK
<1>12. CASE UNCHANGED <<log, l, net, done, replied>>
  BY <1>3, <1>11, <1>12 DEF Inv, SoundVotes, ReplyDurable
<1>13. CASE Majority(a.acks) /\ Exec(n, Put(log[n], s, c))
  <2>1. /\ DOMAIN Put(log[n], s, c) \subseteq Nat
        /\ Put(log[n], s, c) \in [DOMAIN Put(log[n], s, c) -> Entry]
    BY <1>1, <1>2, <1>6 DEF Put
  <2>2. /\ \A m \in Node : SoundLog(m, log'[m], accepted)
        /\ \A m \in Node : SoundDone(m, done'[m], accepted)
        /\ \A m \in Node : l'[m] \in SoundBallots(m, accepted)
        /\ SoundNet(net', accepted) /\ SelfFree(net')
        /\ ReplyDurable'
    BY <1>3, <1>10, <1>13, <2>1, ExecSound
  <2> QED BY <1>3, <1>11, <2>2 DEF SoundVotes, SoundNet, NetOver, SelfFree
<1>14. CASE /\ log' = [log EXCEPT ![n] = Put(@, s, a)]
            /\ UNCHANGED <<l, net, done, replied>>
  <2>1. \A m \in Node : SoundLog(m, log'[m], accepted)
    BY <1>2, <1>9, <1>14 DEF Inv, SoundVotes
  <2> QED BY <1>3, <1>11, <1>14, <2>1 DEF Inv, SoundVotes, ReplyDurable
<1> QED BY <1>3, <1>12, <1>13, <1>14

\* Encoding a Vote keeps the votes sound: p.l holds what was accepted.
LEMMA EncodeSound ==
  ASSUME Inv, NEW p \in Node, NEW q \in Node, NEW i \in DOMAIN net[p][q],
         Encode(p, q, i)
  PROVE  SoundVotes'
<1>1. /\ net' = [net EXCEPT ![p][q][i] = VoteMsg(l[p])]
      /\ UNCHANGED <<log, l, tally, replied, done, accepted>>
  BY DEF Encode, replica, history
<1>2. SoundNet(net, accepted) /\ SelfFree(net)
  BY SoundNetIs DEF Inv, SoundVotes, SelfFree
<1>3. SoundNet(net', accepted)
  <2>1. VoteMsg(l[p]) \in [r \in Node |-> SoundMsg(r, accepted)][p]
    BY SoundMessages DEF Inv, SoundVotes
  <2> QED BY <1>1, <1>2, <2>1, EncodeNet DEF SoundNet
<1>4. SelfFree(net')
  <2>1. p # q
    BY <1>2, SelfFreeTakes DEF SoundNet, NetOver
  <2> QED BY <1>1, <1>2, <2>1 DEF SelfFree, SoundNet, NetOver
<1> QED BY <1>1, <1>3, <1>4
        DEF Inv, SoundVotes, SoundNet, NetOver, SelfFree, ReplyDurable

\* Losing a message keeps the votes sound.
LEMMA LoseSound ==
  ASSUME Inv, NEW p \in Node, NEW q \in Node, NEW i \in DOMAIN net[p][q],
         Lose(p, q, i)
  PROVE  SoundVotes'
<1>1. /\ net' = Take(net, p, q, i)
      /\ UNCHANGED <<log, l, tally, replied, done, accepted>>
  BY DEF Lose, replica, history
<1>2. SoundNet(net, accepted) /\ SelfFree(net)
  BY SoundNetIs DEF Inv, SoundVotes, SelfFree
<1>3. SoundNet(net', accepted)
  BY <1>1, <1>2, TakeNet DEF SoundNet
<1>4. SelfFree(net')
  BY <1>1, <1>2, SelfFreeTakes DEF SoundNet, NetOver
<1> QED BY <1>1, <1>3, <1>4
        DEF Inv, SoundVotes, SoundNet, NetOver, SelfFree, ReplyDurable

-----------------------------------------------------------------------------
(* The theorems *)

\* With one client every vote, acknowledgement and commit is backed by what the
\* replicas accepted (HandlePropose, HandleVote, exec): SoundVotes is inductive
\* together with the types.
THEOREM VotesSound ==
  ASSUME OneClient
  PROVE  Spec => []SoundVotes
<1>1. Inv /\ [Next]_vars /\ TypeOK' => Inv'
  <2> SUFFICES ASSUME Inv, [Next]_vars PROVE SoundVotes'
    BY DEF Inv
  <2>1. ASSUME NEW c \in Client, NEW n \in Node, Issue(c, n) PROVE SoundVotes'
    BY <2>1, IssueSound
  <2>2. ASSUME NEW n \in Node, Request(n) PROVE SoundVotes'
    BY <2>2, HandleRequestSound DEF Request
  <2>3. ASSUME NEW n \in Node, Loop(n) PROVE SoundVotes'
    BY <2>3, SweepSound, TallySound DEF Loop
  <2>4. ASSUME NEW p \in Node, NEW q \in Node, Deliver(p, q) PROVE SoundVotes'
    BY <2>4, HandleProposeSound, HandleVoteSound, EncodeSound DEF Deliver
  <2>5. ASSUME NEW p \in Node, NEW q \in Node, NEW i \in DOMAIN net[p][q],
               Lose(p, q, i)
        PROVE  SoundVotes'
    BY <2>5, LoseSound
  <2>6. CASE UNCHANGED vars
    BY <2>6 DEF vars, replica, history, Inv, SoundVotes, ReplyDurable
  <2> QED BY <2>1, <2>2, <2>3, <2>4, <2>5, <2>6 DEF Next, Progress
<1>2. Inv => SoundVotes
  BY DEF Inv
<1> QED BY <1>1, <1>2, InitInv, TypeCorrect, PTL DEF Spec

\* With one client a replica executes only commands that N \div 2 other replicas
\* accepted (HandleVote, exec), over links that lose and reorder messages.
THEOREM ExecutedAreCertified ==
  ASSUME OneClient
  PROVE  Spec => []ExecutedCertified
<1>1. SoundVotes => ExecutedCertified
  BY DEF SoundVotes, SoundDone, Accepters, ExecutedCertified
<1> QED BY <1>1, VotesSound, PTL

\* With one client an answered command was accepted by more than half of the
\* replicas (exec, Reply).
THEOREM RepliesAreDurable ==
  ASSUME OneClient
  PROVE  Spec => []ReplyDurable
<1>1. SoundVotes => ReplyDurable
  BY DEF SoundVotes
<1> QED BY <1>1, VotesSound, PTL

-----------------------------------------------------------------------------
(* Proposals on the links *)

\* The messages of ch.
Messages(ch) == {ch[i] : i \in DOMAIN ch}

\* A channel is a sequence of its messages.
LEMMA SeqOfMessages ==
  ASSUME NEW S, NEW ch \in Seq(S)
  PROVE  ch \in Seq(Messages(ch))
<1>1. Len(ch) \in Nat /\ DOMAIN ch = 1..Len(ch) /\ ch = [i \in 1..Len(ch) |-> ch[i]]
  BY LenProperties
<1>2. \A i \in 1..Len(ch) : ch[i] \in Messages(ch)
  BY <1>1 DEF Messages
<1> QED BY <1>1, <1>2, SeqDef

\* A channel whose Proposes were on an old one brings no new proposal.
LEMMA ProposalsOf ==
  ASSUME NEW M, NEW ch \in Seq(M), NEW old,
         \A m \in M : m.type = "Propose" => m \in Messages(old)
  PROVE  Proposals(ch) \subseteq Proposals(old)
<1>1. \A i \in DOMAIN ch : ch[i] \in M
  BY LenProperties, ElementOfSeq
<1> QED BY <1>1 DEF Proposals, Messages

\* Taking a message brings no new proposal.
LEMMA ProposalsTake ==
  ASSUME NEW nt, TypedNet(nt), NEW p \in Node, NEW q \in Node,
         NEW i \in DOMAIN nt[p][q], NEW r \in Node, NEW t \in Node
  PROVE  Proposals(Take(nt, p, q, i)[r][t]) \subseteq Proposals(nt[r][t])
<1>1. nt[p][q] \in Seq(Message) /\ nt[p][q] \in Seq(Messages(nt[p][q]))
  BY SeqOfMessages DEF TypedNet, NetOver
<1>2. RemoveAt(nt[p][q], i) \in Seq(Messages(nt[p][q]))
  BY <1>1, RemoveAtSeq
<1>3. Proposals(RemoveAt(nt[p][q], i)) \subseteq Proposals(nt[p][q])
  BY <1>2, ProposalsOf
<1>4. Take(nt, p, q, i)[r][t] = IF r = p /\ t = q THEN RemoveAt(nt[p][q], i) ELSE nt[r][t]
  BY DEF Take, TypedNet, NetOver
<1> QED BY <1>3, <1>4

\* A message brings its own proposal only.
LEMMA ProposalsAppend ==
  ASSUME NEW ch \in Seq(Message), NEW m \in Message
  PROVE  Proposals(Append(ch, m)) \subseteq Proposals(ch) \cup
           (IF m.type = "Propose" THEN {m.cmd} ELSE {})
<1>1. /\ Len(ch) \in Nat /\ DOMAIN ch = 1..Len(ch)
      /\ DOMAIN Append(ch, m) = 1..(Len(ch) + 1)
      /\ \A i \in 1..Len(ch) : Append(ch, m)[i] = ch[i]
      /\ Append(ch, m)[Len(ch) + 1] = m
  BY LenProperties, AppendProperties
<1> SUFFICES ASSUME NEW i \in DOMAIN Append(ch, m), Append(ch, m)[i].type = "Propose"
             PROVE  Append(ch, m)[i].cmd \in Proposals(ch) \cup
                      (IF m.type = "Propose" THEN {m.cmd} ELSE {})
  BY DEF Proposals
<1>2. i \in DOMAIN ch \/ i = Len(ch) + 1
  BY <1>1
<1> QED BY <1>1, <1>2 DEF Proposals

\* A broadcast brings its own proposal only, to the others.
LEMMA ProposalsBroadcast ==
  ASSUME NEW nt, TypedNet(nt), NEW n \in Node, NEW m \in Message,
         NEW p \in Node, NEW q \in Node
  PROVE  /\ m.type # "Propose" \/ p # n \/ q = n =>
              Proposals(Broadcast(nt, n, m)[p][q]) \subseteq Proposals(nt[p][q])
         /\ m.type = "Propose" =>
              Proposals(Broadcast(nt, n, m)[p][q]) \subseteq Proposals(nt[p][q]) \cup {m.cmd}
<1>1. nt[p][q] \in Seq(Message)
  BY DEF TypedNet, NetOver
<1>2. Broadcast(nt, n, m)[p][q] =
        IF p = n /\ q # n THEN Append(nt[p][q], m) ELSE nt[p][q]
  BY DEF Broadcast, TypedNet, NetOver
<1> QED BY <1>1, <1>2, ProposalsAppend

\* Encoding the references brings no new proposal.
LEMMA ProposalsFrozen ==
  ASSUME NEW nt, TypedNet(nt), NEW n \in Node, NEW L,
         NEW p \in Node, NEW q \in Node
  PROVE  Proposals(Frozen(nt, n, L)[p][q]) \subseteq Proposals(nt[p][q])
<1> DEFINE fr == [i \in 1..Len(nt[n][q]) |->
                 IF nt[n][q][i] = VoteRef THEN VoteMsg(L) ELSE nt[n][q][i]]
<1>1. DOMAIN nt[n][q] = 1..Len(nt[n][q])
  BY LenProperties DEF TypedNet, NetOver
<1>2. Frozen(nt, n, L)[p][q] = IF p = n THEN fr ELSE nt[p][q]
  BY DEF Frozen, TypedNet, NetOver
<1>3. Proposals(fr) \subseteq Proposals(nt[n][q])
  BY <1>1 DEF Proposals, VoteMsg
<1> HIDE DEF fr
<1> QED BY <1>2, <1>3

\* Nor does encoding one of them.
LEMMA ProposalsEncode ==
  ASSUME NEW nt, TypedNet(nt), NEW p \in Node, NEW q \in Node,
         NEW i \in DOMAIN nt[p][q], NEW L, NEW r \in Node, NEW t \in Node
  PROVE  Proposals([nt EXCEPT ![p][q][i] = VoteMsg(L)][r][t]) \subseteq Proposals(nt[r][t])
<1> DEFINE en == [nt[p][q] EXCEPT ![i] = VoteMsg(L)]
<1>1. [nt EXCEPT ![p][q][i] = VoteMsg(L)][r][t] =
        IF r = p /\ t = q THEN en ELSE nt[r][t]
  BY DEF TypedNet, NetOver
<1>2. nt[p][q] = [j \in DOMAIN nt[p][q] |-> nt[p][q][j]]
  BY LenProperties DEF TypedNet, NetOver
<1>3. Proposals(en) \subseteq Proposals(nt[p][q])
  BY <1>2 DEF Proposals, VoteMsg
<1> HIDE DEF en
<1> QED BY <1>1, <1>3
-----------------------------------------------------------------------------
(* Commands and slots *)

\* What was issued are commands.
LEMMA IssuedCommands ==
  ASSUME TypeOK
  PROVE  Issued \subseteq Command
BY DEF TypeOK, Issued, Command

\* What was answered was accepted.
LEMMA RepliedAccepted ==
  ASSUME TypeOK, SoundVotes, NEW c \in replied
  PROVE  c \in Accepted
<1>1. Cardinality({q \in Node : c \in accepted[q]}) > N \div 2
  BY DEF SoundVotes, ReplyDurable
<1>2. ASSUME {q \in Node : c \in accepted[q]} = {} PROVE FALSE
  <2>1. Cardinality({q \in Node : c \in accepted[q]}) = 0
    BY <1>2, FS_EmptySet, Zenon
  <2> QED BY <1>1, <2>1, SizeOfNode
<1> QED BY <1>2 DEF Accepted

\* The slot of a command nobody accepted is free everywhere, and not executed.
LEMMA FreshSlot ==
  ASSUME OneClient, Inv, Known, NEW c \in Command, c \notin Accepted, NEW n \in Node
  PROVE  Slot(c) \notin DOMAIN log[n] /\ Slot(c) >= execute[n]
<1>1. Slot(c) \in Nat /\ execute[n] \in Nat
  BY HeardEntry DEF Inv, TypeOK
<1>2. ASSUME Slot(c) \in DOMAIN log[n] PROVE FALSE
  <2>1. log[n][Slot(c)].cmd \in Command /\ Slot(log[n][Slot(c)].cmd) = Slot(c)
    BY <1>2 DEF Inv, TypeOK, Entry, SoundVotes, SoundLog
  <2>2. log[n][Slot(c)].cmd \in Accepted
    BY <1>2 DEF Known
  <2> QED BY <2>1, <2>2, SameSlot
<1>3. ASSUME Slot(c) < execute[n] PROVE FALSE
  <2>1. Slot(c) \in DOMAIN done[n] /\ done[n][Slot(c)] \in Command
    BY <1>1, <1>3 DEF Inv, TypeOK
  <2>2. Slot(done[n][Slot(c)]) = Slot(c) /\ done[n][Slot(c)] \in Accepted
    BY <2>1 DEF Inv, SoundVotes, SoundDone, Known
  <2> QED BY <2>1, <2>2, SameSlot
<1> QED BY <1>1, <1>2, <1>3

\* A log lg that n may have next, requests apart: it makes none, keeps slots,
\* commands and commits, and still leads the requests it has.
Evolves(n, lg) ==
    /\ DOMAIN log[n] \subseteq DOMAIN lg
    /\ \A s \in DOMAIN log[n] : /\ lg[s].cmd = log[n][s].cmd
                                /\ lg[s].request = log[n][s].request
                                /\ log[n][s].commit => lg[s].commit
    /\ \A s \in DOMAIN lg : /\ lg[s].cmd \in Accepted /\ Slot(lg[s].cmd) = s
                            /\ lg[s].request => s \in DOMAIN log[n] /\ lg[s].leader

\* The log of n becomes lg, the other logs stay.
Becomes(n, lg) == log'[n] = lg /\ \A m \in Node : m # n => log'[m] = log[m]

-----------------------------------------------------------------------------
(* The invariant *)

\* There is nothing to trace at first.
LEMMA InitTraced == Init => Traced
<1> SUFFICES ASSUME Init PROVE Traced
  OBVIOUS
<1>1. \A n \in Node : DOMAIN log[n] = {} /\ DOMAIN done[n] = {}
  BY EmptyFunction DEF Init
<1>2. \A p, q \in Node : Proposals(net[p][q]) = {}
  <2>1. \A p, q \in Node : DOMAIN net[p][q] = {}
    BY EmptyFunction DEF Init
  <2> QED BY <2>1 DEF Proposals
<1>3. Accepted = {} /\ Issued = {}
  <2>1. 0..(0 - 1) = {}
    OBVIOUS
  <2> QED BY <2>1 DEF Init, Accepted, Issued
<1>4. Known /\ Waiting /\ LedOnce /\ Kept
  BY <1>1, <1>2, <1>3 DEF Init, Known, Waiting, LedOnce, Kept, Leads
<1>5. FewLate
  <2>1. \A n \in Node : l[n] = {} /\ Late(n) = {}
    BY DEF Init, Late
  <2>2. IsFiniteSet({}) /\ Cardinality({}) = 0
    BY FS_EmptySet
  <2> QED BY <2>1, <2>2, TotalAssumption DEF FewLate
<1> QED BY <1>4, <1>5 DEF Traced

\* A new write waits at one replica.
LEMMA IssueTraced ==
  ASSUME Inv, Traced, NEW c \in Client, NEW n \in Node, Issue(c, n)
  PROVE  Traced'
<1> DEFINE cmd == [client |-> c, counter |-> issued[c]]
<1>1. /\ issued' = [issued EXCEPT ![c] = @ + 1]
      /\ http' = [http EXCEPT ![n] = @ \cup {cmd}]
      /\ UNCHANGED <<net, log, execute, l, replied, done, accepted>>
  BY DEF Issue, replica, history
<1>2. issued \in [Client -> Nat] /\ http \in [Node -> SUBSET Command]
  BY DEF Inv, TypeOK
<1>3. Issued' = Issued \cup {cmd} /\ cmd \notin Issued
  <2>1. \A x : x \in Issued' <=> \E cl \in Client : \E k \in 0..(issued'[cl] - 1) :
                                   x = [client |-> cl, counter |-> k]
    BY DEF Issued
  <2>2. \A x : x \in Issued <=> \E cl \in Client : \E k \in 0..(issued[cl] - 1) :
                                   x = [client |-> cl, counter |-> k]
    BY DEF Issued
  <2>3. \A cl \in Client : issued'[cl] = IF cl = c THEN issued[c] + 1 ELSE issued[cl]
    BY <1>1, <1>2
  <2>4. 0..(issued[c] + 1 - 1) = 0..(issued[c] - 1) \cup {issued[c]} /\ issued[c] \in Nat
    BY <1>2
  <2>5. cmd \notin Issued
    BY <2>2, <2>4
  <2>6. ASSUME NEW x PROVE x \in Issued' <=> x \in Issued \cup {cmd}
    BY <2>1, <2>2, <2>3, <2>4
  <2> QED BY <2>5, <2>6
<1> HIDE DEF cmd
<1>4. Accepted' = Accepted /\ \A m \in Node : \A s : Leads(m, s)' <=> Leads(m, s)
  BY <1>1 DEF Accepted, Leads
<1>5. Known'
  BY <1>1, <1>3, <1>4 DEF Traced, Known
<1>6. Waiting'
  BY <1>1, <1>2, <1>3, <1>4 DEF Traced, Known, Waiting
<1>7. LedOnce'
  BY <1>1, <1>4 DEF Traced, LedOnce
<1>8. Kept'
  BY <1>1, <1>2, <1>3, <1>4 DEF Traced, Kept
<1>9. FewLate'
  BY <1>1 DEF Traced, FewLate, Late
<1> QED BY <1>5, <1>6, <1>7, <1>8, <1>9 DEF Traced

\* HandleRequest takes the write over: it waits no more and is led there.
LEMMA HandleRequestTraced ==
  ASSUME OneClient, Inv, Inv', Traced, NEW n \in Node, NEW cmd \in http[n],
         HandleRequest(n, cmd)
  PROVE  Traced'
<1> DEFINE s == Slot(cmd)
<1>1. /\ http' = [http EXCEPT ![n] = @ \ {cmd}]
      /\ log' = [log EXCEPT ![n] = Put(@, s, Requested(cmd))]
      /\ l' = [l EXCEPT ![n] = Record(@, [cmd |-> cmd, id |-> n])]
      /\ accepted' = [accepted EXCEPT ![n] = @ \cup {cmd}]
      /\ net' = Broadcast(net, n, ProposeMsg(cmd))
      /\ UNCHANGED <<execute, issued, replied, done>>
  BY DEF HandleRequest
<1>2. /\ cmd \in Command /\ cmd \in Issued /\ cmd \notin Accepted
      /\ s \in Nat /\ Requested(cmd) \in Entry
      /\ \A m \in Node : m # n => cmd \notin http[m]
  BY HeardEntry DEF Inv, TypeOK, Traced, Waiting
<1>3. \A m \in Node : s \notin DOMAIN log[m] /\ s >= execute[m]
  BY <1>2, FreshSlot DEF Traced
<1>4. cmd \notin replied
  BY <1>2, RepliedAccepted DEF Inv
<1>5. Accepted' = Accepted \cup {cmd} /\ Issued' = Issued
  BY <1>1 DEF Accepted, Issued, Inv, TypeOK
<1>6. /\ Requested(cmd).cmd = cmd /\ Requested(cmd).request /\ Requested(cmd).leader
  BY DEF Requested, Heard
<1>7. /\ \A m \in Node : m # n => log'[m] = log[m]
      /\ DOMAIN log'[n] = DOMAIN log[n] \cup {s}
      /\ log'[n][s] = Requested(cmd)
      /\ \A x \in DOMAIN log[n] : log'[n][x] = log[n][x]
  <2>1. log'[n] = Put(log[n], s, Requested(cmd)) /\ \A m \in Node : m # n => log'[m] = log[m]
    BY <1>1 DEF Inv, TypeOK
  <2>2. DOMAIN log[n] \subseteq Nat /\ log[n] \in [DOMAIN log[n] -> Entry]
    BY DEF Inv, TypeOK
  <2> HIDE DEF s
  <2>3. s \in Nat /\ Requested(cmd) \in Entry
    BY <1>2
  <2>4. /\ DOMAIN Put(log[n], s, Requested(cmd)) = DOMAIN log[n] \cup {s}
        /\ Put(log[n], s, Requested(cmd))[s] = Requested(cmd)
        /\ \A x \in DOMAIN log[n] : x # s => Put(log[n], s, Requested(cmd))[x] = log[n][x]
    BY <2>2, <2>3, PutEntry
  <2> QED BY <1>3, <2>1, <2>4
<1> HIDE DEF s
<1>8. \A m \in Node : \A x : Leads(m, x)' <=> (Leads(m, x) \/ (m = n /\ x = s))
  BY <1>3, <1>6, <1>7 DEF Leads
<1>9. \A p, q \in Node :
        /\ p # n \/ q = n => Proposals(net'[p][q]) \subseteq Proposals(net[p][q])
        /\ Proposals(net'[p][q]) \subseteq Proposals(net[p][q]) \cup {cmd}
  <2>1. TypedNet(net) /\ ProposeMsg(cmd) \in Message
    BY <1>2, TypedNetIsType, MessageTypes DEF Inv, TypeOK
  <2>2. ProposeMsg(cmd).type = "Propose" /\ ProposeMsg(cmd).cmd = cmd
    BY DEF ProposeMsg
  <2> QED BY <1>1, <2>1, <2>2, ProposalsBroadcast
<1>10. \A x \in Accepted : x \in Command /\ Slot(x) # s
  <2> TAKE x \in Accepted
  <2>1. x \in Command
    BY DEF Inv, TypeOK, Accepted
  <2> QED BY <1>2, <2>1, SameSlot DEF s
<1>11. Known'
  <2>1. \A m \in Node : \A x \in DOMAIN log'[m] : log'[m][x].cmd \in Accepted'
    BY <1>5, <1>6, <1>7 DEF Traced, Known
  <2>2. \A p, q \in Node : Proposals(net'[p][q]) \subseteq Accepted'
    BY <1>5, <1>9 DEF Traced, Known
  <2> QED BY <1>1, <1>2, <1>5, <2>1, <2>2 DEF Traced, Known
<1>12. Waiting'
  <2>1. http'[n] = http[n] \ {cmd} /\ \A m \in Node : m # n => http'[m] = http[m]
    BY <1>1 DEF Inv, TypeOK
  <2> QED BY <1>2, <1>5, <2>1 DEF Traced, Waiting
<1>13. LedOnce'
  <2>1. ASSUME NEW m \in Node, NEW x \in DOMAIN log'[m], log'[m][x].request
        PROVE  /\ log'[m][x].leader /\ x >= execute'[m]
               /\ log'[m][x].cmd \notin replied'
               /\ \A r \in Node : Leads(r, x)' => r = m
    <3>1. CASE m = n /\ x = s
      BY <1>1, <1>3, <1>4, <1>6, <1>7, <1>8, <3>1 DEF Leads
    <3>2. CASE m # n \/ x # s
      <4>1. x \in DOMAIN log[m] /\ log'[m][x] = log[m][x]
        BY <1>7, <2>1, <3>2
      <4>2. x # s
        BY <1>3, <4>1
      <4> QED BY <1>1, <1>8, <2>1, <4>1, <4>2 DEF Traced, LedOnce
    <3> QED BY <3>1, <3>2
  <2>2. ASSUME NEW p \in Node, NEW q \in Node, NEW c \in Proposals(net'[p][q])
        PROVE  ~Leads(q, Slot(c))'
    <3>1. CASE c \in Proposals(net[p][q])
      <4>1. c \in Accepted /\ ~Leads(q, Slot(c))
        BY <3>1 DEF Traced, Known, LedOnce
      <4> QED BY <1>8, <1>10, <4>1
    <3>2. CASE c \notin Proposals(net[p][q])
      <4>1. c = cmd /\ q # n
        BY <1>9, <2>2, <3>2
      <4>2. Slot(c) = s /\ ~Leads(q, s)
        BY <1>3, <4>1 DEF Leads, s
      <4> QED BY <1>8, <4>1, <4>2
    <3> QED BY <3>1, <3>2
  <2> QED BY <2>1, <2>2 DEF LedOnce
<1>14. Kept'
  <2> SUFFICES ASSUME NEW c \in Issued
               PROVE  \/ c \in replied'
                      \/ \E m \in Node : c \in http'[m] \/ Leads(m, Slot(c))'
    BY <1>5 DEF Kept
  <2>1. CASE c = cmd
    BY <1>8, <2>1 DEF s
  <2>2. CASE c # cmd
    BY <1>1, <1>8, <2>2 DEF Traced, Kept, Inv, TypeOK
  <2> QED BY <2>1, <2>2
<1>15. FewLate'
  <2> DEFINE cb == [cmd |-> cmd, id |-> n]
  <2>1. \A m \in Node : m # n => l'[m] = l[m] /\ Late(m)' = Late(m)
    BY <1>1 DEF Late, Inv, TypeOK
  <2>2. l'[n] = Record(l[n], cb)
    BY <1>1 DEF Inv, TypeOK
  <2>3. IsFiniteSet(l[n]) /\ Cardinality(Late(n)) < Total
    BY DEF Traced, FewLate
  <2>4. IsFiniteSet(l'[n])
    <3>1. IsFiniteSet({x \in l[n] : Slot(x.cmd) # Slot(cb.cmd)})
      BY <2>3, FS_Subset
    <3> QED BY <2>2, <3>1, FS_AddElement DEF Record
  <2>5. Late(n)' \subseteq Late(n)
    <3>1. Slot(cb.cmd) = s /\ ~(s < execute[n])
      BY <1>2, <1>3 DEF s, Inv, TypeOK
    <3> QED BY <1>1, <2>2, <3>1 DEF Late, Record
  <2>6. IsFiniteSet(Late(n))
    BY <2>3, FS_Subset DEF Late
  <2>7. Cardinality(Late(n)') < Total
    <3>1. /\ Cardinality(Late(n)') <= Cardinality(Late(n))
          /\ Cardinality(Late(n)') \in Nat /\ Cardinality(Late(n)) \in Nat
      BY <2>5, <2>6, FS_Subset, FS_CardinalityType
    <3> QED BY <2>3, <3>1, TotalAssumption
  <2> QED BY <2>1, <2>4, <2>7 DEF Traced, FewLate
<1> QED BY <1>11, <1>12, <1>13, <1>14, <1>15 DEF Traced
\* A step that changes only the log of n, evolving it, and takes messages away.
LEMMA EvolveTraced ==
  ASSUME Inv, Traced, NEW n \in Node, NEW lg, Evolves(n, lg),
         Becomes(n, lg), UNCHANGED <<http, execute, issued, replied, done>>, Accepted' = Accepted,
         \A p, q \in Node : Proposals(net'[p][q]) \subseteq Proposals(net[p][q]),
         FewLate'
  PROVE  Traced'
<1>1. /\ Issued' = Issued /\ log'[n] = lg
      /\ \A m \in Node : m # n => log'[m] = log[m]
  BY DEF Issued, Becomes
<1>2. \A m \in Node : \A s : Leads(m, s)' <=> Leads(m, s)
  BY <1>1 DEF Leads, Evolves
<1>3. Known'
  <2>1. \A m \in Node : \A s \in DOMAIN log'[m] : log'[m][s].cmd \in Accepted
    BY <1>1 DEF Traced, Known, Evolves
  <2>2. \A p, q \in Node : Proposals(net'[p][q]) \subseteq Accepted
    BY DEF Traced, Known
  <2> QED BY <1>1, <2>1, <2>2 DEF Traced, Known
<1>4. Waiting' /\ Kept'
  BY <1>1, <1>2 DEF Traced, Waiting, Kept
<1>5. LedOnce'
  <2>1. ASSUME NEW m \in Node, NEW s \in DOMAIN log'[m], log'[m][s].request
        PROVE  /\ log'[m][s].leader /\ s >= execute'[m]
               /\ log'[m][s].cmd \notin replied'
               /\ \A r \in Node : Leads(r, s)' => r = m
    <3>1. s \in DOMAIN log[m] /\ log[m][s].request
      BY <1>1, <2>1 DEF Evolves
    <3>2. log'[m][s].cmd = log[m][s].cmd /\ log'[m][s].leader
      BY <1>1, <2>1, <3>1 DEF Evolves, Traced, LedOnce
    <3> QED BY <1>2, <3>1, <3>2 DEF Traced, LedOnce
  <2>2. \A p, q \in Node : \A c \in Proposals(net'[p][q]) : ~Leads(q, Slot(c))'
    BY <1>2 DEF Traced, LedOnce
  <2> QED BY <2>1, <2>2 DEF LedOnce
<1> QED BY <1>3, <1>4, <1>5 DEF Traced

\* A step that takes messages from the links, or encodes one.
LEMMA NetTraced ==
  ASSUME Inv, Traced,
         UNCHANGED <<http, log, execute, l, issued, replied, done, accepted>>,
         \A p, q \in Node : Proposals(net'[p][q]) \subseteq Proposals(net[p][q])
  PROVE  Traced'
<1>1. /\ Issued' = Issued /\ Accepted' = Accepted
      /\ \A m \in Node : Late(m)' = Late(m)
      /\ \A m \in Node : \A s : Leads(m, s)' <=> Leads(m, s)
  BY DEF Issued, Accepted, Late, Leads
<1>2. Known' /\ Waiting' /\ Kept' /\ FewLate'
  BY <1>1 DEF Traced, Known, Waiting, Kept, FewLate
<1>3. LedOnce'
  BY <1>1 DEF Traced, LedOnce
<1> QED BY <1>2, <1>3 DEF Traced

\* What exec() of n on the log lg does when it stops at slot e.
ExecTo(n, lg, e) ==
    LET ran == execute[n]..(e - 1)
    IN /\ e >= execute[n] /\ ran \subseteq DOMAIN lg
       /\ \A s \in ran : lg[s].commit
       /\ execute' = [execute EXCEPT ![n] = e]
       /\ \A m \in Node : m # n => log'[m] = log[m]
       /\ DOMAIN log'[n] = DOMAIN lg \ ran
       /\ \A s \in DOMAIN log'[n] : /\ log'[n][s].cmd = lg[s].cmd
                                    /\ log'[n][s].commit = lg[s].commit
                                    /\ log'[n][s].request = lg[s].request
                                    /\ log'[n][s].leader = lg[s].leader
       /\ l' = [l EXCEPT ![n] = NotRun(@, ran)]
       /\ net' = net \/ net' = Broadcast(net, n, VoteRef)
       /\ done' = [done EXCEPT ![n] = [s \in DOMAIN @ \cup ran |->
                     IF s \in ran THEN lg[s].cmd ELSE @[s]]]
       /\ replied' = replied \cup Answers(lg, ran)

\* The loop of exec ends at a slot.
LEMMA ExecStops ==
  ASSUME Inv, NEW n \in Node, NEW lg, DOMAIN lg \subseteq Nat,
         lg \in [DOMAIN lg -> Entry], Exec(n, lg)
  PROVE  \E e \in Nat : ExecTo(n, lg, e)
<1> DEFINE ran(e)  == execute[n]..(e - 1)
           rest(e) == Restrict(lg, DOMAIN lg \ ran(e))
           held(e) == e \in DOMAIN lg /\ lg[e].commit
<1>1. PICK e \in {execute[n]} \cup {s + 1 : s \in DOMAIN lg} :
         /\ StopsAt(lg, n, e)
         /\ execute' = [execute EXCEPT ![n] = e]
         /\ log' = [log EXCEPT ![n] =
                      IF held(e) THEN [rest(e) EXCEPT ![e].acks = {}] ELSE rest(e)]
         /\ l' = [l EXCEPT ![n] = NotRun(@, ran(e))]
         /\ net' = IF held(e) THEN Broadcast(net, n, VoteRef) ELSE net
         /\ done' = [done EXCEPT ![n] = [s \in DOMAIN @ \cup ran(e) |->
                       IF s \in ran(e) THEN lg[s].cmd ELSE @[s]]]
         /\ replied' = replied \cup Answers(lg, ran(e))
  BY DEF Exec
<1>2. e \in Nat /\ e >= execute[n] /\ execute[n] \in Nat
  BY <1>1 DEF Inv, TypeOK, StopsAt
<1>3. ran(e) \subseteq DOMAIN lg /\ \A s \in ran(e) : lg[s].commit
  BY <1>1 DEF StopsAt, Runs
<1>4. \A m \in Node : m # n => log'[m] = log[m]
  BY <1>1 DEF Inv, TypeOK
<1>5. rest(e) \in [DOMAIN lg \ ran(e) -> Entry] /\ \A s \in DOMAIN rest(e) : rest(e)[s] = lg[s]
  BY DEF Restrict
<1>6. /\ DOMAIN log'[n] = DOMAIN lg \ ran(e)
      /\ \A s \in DOMAIN log'[n] : /\ log'[n][s].cmd = lg[s].cmd
                                   /\ log'[n][s].commit = lg[s].commit
                                   /\ log'[n][s].request = lg[s].request
                                   /\ log'[n][s].leader = lg[s].leader
  <2>1. log'[n] = IF held(e) THEN [rest(e) EXCEPT ![e].acks = {}] ELSE rest(e)
    BY <1>1 DEF Inv, TypeOK
  <2>2. ASSUME NEW x \in Entry
        PROVE  LET v == [x EXCEPT !.acks = {}]
               IN v.cmd = x.cmd /\ v.commit = x.commit /\ v.request = x.request
                    /\ v.leader = x.leader
    BY DEF Entry
  <2> HIDE DEF rest, held, ran
  <2>3. CASE held(e)
    <3>1. log'[n] = [rest(e) EXCEPT ![e] = [rest(e)[e] EXCEPT !.acks = {}]]
      BY <2>1, <2>3
    <3>2. DOMAIN log'[n] = DOMAIN lg \ ran(e)
      BY <1>5, <3>1
    <3>3. \A s \in DOMAIN log'[n] :
            log'[n][s] = IF s = e THEN [lg[s] EXCEPT !.acks = {}] ELSE lg[s]
      BY <1>5, <3>1, <3>2
    <3>4. \A s \in DOMAIN log'[n] : lg[s] \in Entry
      BY <3>2
    <3> QED BY <2>2, <3>2, <3>3, <3>4
  <2>4. CASE ~held(e)
    BY <1>5, <2>1, <2>4
  <2> QED BY <2>3, <2>4
<1>7. net' = net \/ net' = Broadcast(net, n, VoteRef)
  BY <1>1
<1> HIDE DEF rest, held
<1> QED BY <1>1, <1>2, <1>3, <1>4, <1>6, <1>7 DEF ExecTo
\* exec answers what it leads, and leaves nothing behind that could answer.
LEMMA ExecTraced ==
  ASSUME OneClient, Inv, Traced, NEW n \in Node, NEW lg, DOMAIN lg \subseteq Nat,
         lg \in [DOMAIN lg -> Entry], Evolves(n, lg),
         Exec(n, lg), UNCHANGED <<http, issued, accepted>>
  PROVE  Traced'
<1> DEFINE ran(e) == execute[n]..(e - 1)
<1>0. PICK e \in Nat : ExecTo(n, lg, e)
  BY ExecStops
<1>1. /\ e >= execute[n] /\ ran(e) \subseteq DOMAIN lg
      /\ execute' = [execute EXCEPT ![n] = e]
      /\ \A m \in Node : m # n => log'[m] = log[m]
      /\ DOMAIN log'[n] = DOMAIN lg \ ran(e)
      /\ \A s \in DOMAIN log'[n] : /\ log'[n][s].cmd = lg[s].cmd
                                   /\ log'[n][s].request = lg[s].request
                                   /\ log'[n][s].leader = lg[s].leader
      /\ l' = [l EXCEPT ![n] = NotRun(@, ran(e))]
      /\ net' = net \/ net' = Broadcast(net, n, VoteRef)
      /\ done' = [done EXCEPT ![n] = [s \in DOMAIN @ \cup ran(e) |->
                    IF s \in ran(e) THEN lg[s].cmd ELSE @[s]]]
      /\ replied' = replied \cup Answers(lg, ran(e))
  BY <1>0 DEF ExecTo
<1>2. /\ Issued' = Issued /\ Accepted' = Accepted
      /\ \A m \in Node : execute[m] \in Nat
      /\ \A m \in Node : execute'[m] = IF m = n THEN e ELSE execute[m]
  BY <1>1 DEF Issued, Accepted, Inv, TypeOK
<1>3. \A m \in Node : \A s : Leads(m, s)' <=> (Leads(m, s) /\ ~(m = n /\ s \in ran(e)))
  <2> HIDE DEF ran
  <2> QED BY <1>1 DEF Leads, Evolves
<1>4. \A p, q \in Node : Proposals(net'[p][q]) \subseteq Proposals(net[p][q])
  <2>1. TypedNet(net) /\ VoteRef \in Message /\ VoteRef.type # "Propose"
    BY TypedNetIsType, MessageTypes DEF Inv, TypeOK, VoteRef
  <2>2. \A p, q \in Node :
           Proposals(Broadcast(net, n, VoteRef)[p][q]) \subseteq Proposals(net[p][q])
    BY <2>1, ProposalsBroadcast
  <2> QED BY <1>1, <2>2
\* What is answered: the commands of the slots run that n leads.
<1>5. \A c \in replied' : \/ c \in replied
                          \/ \E s \in ran(e) : /\ Leads(n, s) /\ c = lg[s].cmd
                                               /\ Slot(c) = s
  <2> HIDE DEF ran
  <2>1. \A s \in ran(e) : lg[s].request => Leads(n, s)
    BY <1>1 DEF Evolves, Leads
  <2>2. \A s \in ran(e) : Slot(lg[s].cmd) = s
    BY <1>1 DEF Evolves
  <2> QED BY <1>1, <2>1, <2>2 DEF Answers
<1>6. Known'
  <2> HIDE DEF ran
  <2>1. \A m \in Node : \A s \in DOMAIN log'[m] : log'[m][s].cmd \in Accepted
    BY <1>1 DEF Traced, Known, Evolves
  <2>2. \A m \in Node : \A s \in DOMAIN done'[m] : done'[m][s] \in Accepted
    <3>1. \A m \in Node : m # n => done'[m] = done[m]
      BY <1>1 DEF Inv, TypeOK
    <3>2. done'[n] = [s \in DOMAIN done[n] \cup ran(e) |->
                        IF s \in ran(e) THEN lg[s].cmd ELSE done[n][s]]
      BY <1>1 DEF Inv, TypeOK
    <3>3. \A s \in ran(e) : lg[s].cmd \in Accepted
      BY <1>1 DEF Evolves
    <3>4. \A s \in DOMAIN done'[n] : done'[n][s] \in Accepted
      BY <3>2, <3>3 DEF Traced, Known
    <3> QED BY <3>1, <3>4 DEF Traced, Known
  <2>3. \A p, q \in Node : Proposals(net'[p][q]) \subseteq Accepted
    BY <1>4 DEF Traced, Known
  <2> QED BY <1>2, <2>1, <2>2, <2>3 DEF Traced, Known
<1>7. Waiting'
  BY <1>2 DEF Traced, Waiting
<1>8. LedOnce'
  <2>1. ASSUME NEW m \in Node, NEW s \in DOMAIN log'[m], log'[m][s].request
        PROVE  /\ log'[m][s].leader /\ s >= execute'[m]
               /\ log'[m][s].cmd \notin replied'
               /\ \A r \in Node : Leads(r, s)' => r = m
    <3>1. Leads(m, s) /\ ~(m = n /\ s \in ran(e))
      BY <1>3, <2>1 DEF Leads
    <3>2. s \in DOMAIN log[m] /\ log[m][s].request /\ s \in Nat
      BY <3>1 DEF Leads, Inv, TypeOK
    <3>3. log'[m][s].cmd = log[m][s].cmd /\ log'[m][s].leader
      <4> HIDE DEF ran
      <4> QED BY <1>1, <2>1, <3>2 DEF Evolves, Traced, LedOnce
    <3>4. s >= execute'[m]
      BY <1>2, <3>1, <3>2 DEF Traced, LedOnce
    <3>5. ASSUME NEW r \in Node, Leads(r, s)' PROVE r = m
      BY <1>3, <3>2, <3>5 DEF Traced, LedOnce
    <3>6. log'[m][s].cmd \notin replied'
      <4>1. log[m][s].cmd \notin replied /\ Slot(log[m][s].cmd) = s
        BY <3>2 DEF Traced, LedOnce, Inv, SoundVotes, SoundLog
      <4>2. ASSUME s \in ran(e), Leads(n, s) PROVE FALSE
        BY <3>1, <3>2, <4>2 DEF Traced, LedOnce
      <4> QED BY <1>5, <3>3, <4>1, <4>2
    <3> QED BY <3>3, <3>4, <3>5, <3>6
  <2>2. \A p, q \in Node : \A c \in Proposals(net'[p][q]) : ~Leads(q, Slot(c))'
    BY <1>3, <1>4 DEF Traced, LedOnce
  <2> QED BY <2>1, <2>2 DEF LedOnce
<1>9. Kept'
  <2> SUFFICES ASSUME NEW c \in Issued
               PROVE  \/ c \in replied'
                      \/ \E m \in Node : c \in http'[m] \/ Leads(m, Slot(c))'
    BY <1>2 DEF Kept
  <2>1. CASE c \in replied \/ \E m \in Node : c \in http[m]
    BY <1>1, <2>1
  <2>2. ASSUME NEW m \in Node, Leads(m, Slot(c)), ~Leads(m, Slot(c))'
        PROVE  c \in replied'
    <3>1. m = n /\ Slot(c) \in ran(e)
      BY <1>3, <2>2
    <3> DEFINE x == lg[Slot(c)]
    <3>2. x.request /\ x.leader /\ x \in Entry /\ Slot(x.cmd) = Slot(c)
      <4> HIDE DEF ran
      <4> QED BY <1>1, <2>2, <3>1 DEF Leads, Evolves
    <3>3. x.cmd = c
      <4>1. c \in Command /\ x.cmd \in Command
        BY <3>2, IssuedCommands DEF Inv, Entry
      <4> QED BY <3>2, <4>1, SameSlot
    <3>4. x.cmd \in Answers(lg, ran(e))
      BY <3>1, <3>2 DEF Answers
    <3> QED BY <1>1, <3>3, <3>4
  <2> QED BY <2>1, <2>2 DEF Traced, Kept
<1>10. FewLate'
  <2>1. \A m \in Node : l'[m] = IF m = n THEN NotRun(l[n], ran(e)) ELSE l[m]
    BY <1>1 DEF Inv, TypeOK
  <2>2. IsFiniteSet(l'[n])
    BY <2>1, FS_Subset DEF NotRun, Traced, FewLate
  <2>3. \A cb \in l[n] : Slot(cb.cmd) \in Nat
    BY HeardEntry DEF Inv, TypeOK, CommandBallot
  <2>4. Late(n)' = Late(n)
    <3>1. Late(n)' = {cb \in l'[n] : Slot(cb.cmd) < execute'[n]}
      BY DEF Late
    <3>2. execute[n] \in Nat /\ execute'[n] = e /\ l'[n] = NotRun(l[n], ran(e))
      BY <1>2, <2>1
    <3> QED BY <1>1, <2>3, <3>1, <3>2 DEF Late, NotRun
  <2>5. \A m \in Node : m # n => l'[m] = l[m] /\ Late(m)' = Late(m)
    BY <1>2, <2>1 DEF Late
  <2> QED BY <2>2, <2>4, <2>5 DEF Traced, FewLate
<1> QED BY <1>6, <1>7, <1>8, <1>9, <1>10 DEF Traced
\* A proposed command changes the log of the replica that accepts it.
LEMMA ProposeEvolves ==
  ASSUME Inv, Traced, NEW p \in Node, NEW q \in Node,
         NEW i \in DOMAIN net[p][q], HandlePropose(p, q, i)
  PROVE  \E lg : Evolves(q, lg) /\ Becomes(q, lg)
<1> DEFINE cmd   == net[p][q][i].cmd
           s     == Slot(cmd)
           known == s \in DOMAIN log[q]
           cnt   == IF known THEN count[q] ELSE count[q] + 1
           e     == Adopted(log[q], cmd)
           lg    == Put(log[q], s, e)
           L     == Record(l[q], [cmd |-> cmd, id |-> q])
           due   == Cardinality(L) >= Total \/ cnt >= execute[q] + Total
<1>1. Becomes(q, IF due THEN AllVoted(lg) ELSE lg)
  <2>1. log' = [log EXCEPT ![q] = IF due THEN AllVoted(lg) ELSE lg]
    BY DEF HandlePropose
  <2> QED BY <2>1 DEF Becomes, Inv, TypeOK
<1>2. cmd \in Command /\ s \in Nat /\ Heard(cmd) \in Entry /\ cmd \in Proposals(net[p][q])
  <2>1. net[p][q][i] \in Message /\ net[p][q][i].type = "Propose"
    BY TypedNetIsType, MessageAt DEF HandlePropose, Inv, TypeOK
  <2>2. cmd \in Proposals(net[p][q])
    BY <2>1 DEF Proposals
  <2> QED BY <2>1, <2>2, MessageFields, HeardEntry
<1>3. cmd \in Accepted /\ ~Leads(q, s)
  BY <1>2 DEF Traced, Known, LedOnce
<1>4. /\ DOMAIN log[q] \subseteq Nat /\ log[q] \in [DOMAIN log[q] -> Entry]
      /\ \A x \in DOMAIN log[q] : /\ log[q][x].cmd \in Accepted
                                  /\ Slot(log[q][x].cmd) = x
                                  /\ log[q][x].request => log[q][x].leader
  BY DEF Inv, TypeOK, SoundVotes, SoundLog, Traced, Known, LedOnce
<1>5. /\ e \in Entry /\ e.request = FALSE /\ e.cmd \in Accepted /\ Slot(e.cmd) = s
      /\ known => e.cmd = log[q][s].cmd /\ e.commit = log[q][s].commit
                    /\ log[q][s].request = FALSE
  <2>1. CASE known
    <3>1. log[q][s] \in Entry /\ log[q][s].request = FALSE
      BY <1>3, <1>4, <2>1 DEF Leads, Entry
    <3>2. e = [log[q][s] EXCEPT !.leader = FALSE]
      BY <2>1 DEF Adopted
    <3>3. log[q][s].cmd \in Accepted /\ Slot(log[q][s].cmd) = s
      BY <1>4, <2>1
    <3> HIDE DEF e, s, cmd
    <3> QED BY <3>1, <3>2, <3>3 DEF Entry
  <2>2. CASE ~known
    BY <1>2, <1>3, <2>2 DEF Heard, Adopted
  <2> QED BY <2>1, <2>2
<1> HIDE DEF e, s, cmd
<1>6. /\ DOMAIN lg = DOMAIN log[q] \cup {s} /\ DOMAIN lg \subseteq Nat
      /\ lg \in [DOMAIN lg -> Entry] /\ lg[s] = e
      /\ \A x \in DOMAIN log[q] : x # s => lg[x] = log[q][x]
  <2>1. /\ DOMAIN log[q] \subseteq Nat /\ log[q] \in [DOMAIN log[q] -> Entry]
        /\ s \in Nat /\ e \in Entry
    BY <1>2, <1>4, <1>5
  <2> QED BY <2>1, PutEntry
<1> HIDE DEF lg, due
<1>7. Evolves(q, lg)
  BY <1>4, <1>5, <1>6 DEF Evolves
<1>8. Evolves(q, AllVoted(lg))
  <2>1. \A x \in DOMAIN lg : LET v == AllVoted(lg)[x]
                             IN v.cmd = lg[x].cmd /\ v.commit = lg[x].commit
                                  /\ v.request = lg[x].request /\ v.leader = lg[x].leader
    <3>1. ASSUME NEW x \in Entry
          PROVE  LET v == [x EXCEPT !.voted = TRUE]
                 IN v.cmd = x.cmd /\ v.commit = x.commit
                      /\ v.request = x.request /\ v.leader = x.leader
      BY DEF Entry
    <3>2. \A x \in DOMAIN lg : lg[x] \in Entry /\ AllVoted(lg)[x] = [lg[x] EXCEPT !.voted = TRUE]
      BY <1>6, AllVotedType
    <3> QED BY <3>1, <3>2
  <2>2. DOMAIN AllVoted(lg) = DOMAIN lg
    BY <1>6, AllVotedType
  <2> QED BY <1>7, <2>1, <2>2 DEF Evolves
<1> QED BY <1>1, <1>7, <1>8

\* An iteration of a loop of n evolves its log to lg, and may run exec() on it.
Iterates(n, lg) ==
    /\ DOMAIN lg \subseteq Nat
    /\ lg \in [DOMAIN lg -> Entry]
    /\ Evolves(n, lg)
    /\ \/ Exec(n, lg)
       \/ Becomes(n, lg) /\ UNCHANGED <<execute, l, net, done, replied>>

\* An iteration of the loop over the log changes one entry and may run exec.
LEMMA SweepIterates ==
  ASSUME Inv, Traced, NEW n \in Node, NEW s \in sweep[n], Sweep(n, s)
  PROVE  \E lg : Iterates(n, lg)
<1> DEFINE lg == [log[n] EXCEPT ![s].voted = TRUE]
<1>1. /\ s \in DOMAIN log[n] /\ DOMAIN log[n] \subseteq Nat
      /\ log[n] \in [DOMAIN log[n] -> Entry]
      /\ \A x \in DOMAIN log[n] : /\ log[n][x].cmd \in Accepted
                                  /\ Slot(log[n][x].cmd) = x
                                  /\ log[n][x].request => log[n][x].leader
  BY DEF Inv, TypeOK, SoundVotes, SoundLog, Traced, Known, LedOnce
<1>2. \/ Exec(n, lg)
      \/ Becomes(n, lg) /\ UNCHANGED <<execute, l, net, done, replied>>
  BY DEF Sweep, Becomes, Inv, TypeOK
<1> DEFINE v == [log[n][s] EXCEPT !.voted = TRUE]
<1>3. /\ v \in Entry /\ v.cmd = log[n][s].cmd /\ v.commit = log[n][s].commit
      /\ v.request = log[n][s].request /\ v.leader = log[n][s].leader
  <2>1. log[n][s] \in Entry
    BY <1>1
  <2> QED BY <2>1 DEF Entry
<1>4. lg = [log[n] EXCEPT ![s] = v]
  OBVIOUS
<1> HIDE DEF lg, v
<1>5. /\ DOMAIN lg = DOMAIN log[n] /\ lg \in [DOMAIN lg -> Entry] /\ lg[s] = v
      /\ \A x \in DOMAIN log[n] : x # s => lg[x] = log[n][x]
  BY <1>1, <1>3, <1>4
<1>6. Evolves(n, lg)
  BY <1>1, <1>3, <1>5 DEF Evolves
<1> QED BY <1>1, <1>2, <1>5, <1>6 DEF Iterates

\* So does an iteration of the loop over a Vote.
LEMMA TallyIterates ==
  ASSUME OneClient, Inv, Traced, NEW n \in Node, NEW cb \in tally[n], Tally(n, cb)
  PROVE  \E lg : Iterates(n, lg)
<1> DEFINE s  == Slot(cb.cmd)
           e  == IF s \in DOMAIN log[n] THEN log[n][s] ELSE Heard(cb.cmd)
           a  == [e EXCEPT !.acks = @ \cup {cb.id}]
           c  == [a EXCEPT !.commit = TRUE]
<1>1. cb.cmd \in Accepted /\ cb.cmd \in Command /\ cb.id \in Node /\ s \in Nat
        /\ Heard(cb.cmd) \in Entry
  <2>1. cb \in CommandBallot /\ cb.cmd \in accepted[cb.id]
    BY DEF Inv, TypeOK, SoundVotes
  <2>2. cb.cmd \in Command /\ cb.id \in Node
    BY <2>1 DEF CommandBallot
  <2> QED BY <2>1, <2>2, HeardEntry DEF Accepted
<1>2. /\ DOMAIN log[n] \subseteq Nat /\ log[n] \in [DOMAIN log[n] -> Entry]
      /\ DOMAIN log = Node
      /\ \A x \in DOMAIN log[n] : /\ log[n][x].cmd \in Accepted
                                  /\ Slot(log[n][x].cmd) = x
                                  /\ log[n][x].request => log[n][x].leader
  BY DEF Inv, TypeOK, SoundVotes, SoundLog, Traced, Known, LedOnce
<1>3. \/ UNCHANGED <<log, execute, l, net, done, replied>>
      \/ Exec(n, Put(log[n], s, c))
      \/ /\ Becomes(n, Put(log[n], s, a))
         /\ UNCHANGED <<execute, l, net, done, replied>>
  <2> HIDE DEF s, a, c
  <2>1. log' = [log EXCEPT ![n] = Put(@, s, a)] => Becomes(n, Put(log[n], s, a))
    BY DEF Becomes, Inv, TypeOK
  <2> QED BY <2>1 DEF Tally, s, e, a, c
<1>4. /\ e \in Entry /\ e.cmd \in Accepted /\ Slot(e.cmd) = s
      /\ e.request => s \in DOMAIN log[n] /\ e.leader
      /\ s \in DOMAIN log[n] => e = log[n][s]
  <2>1. CASE s \in DOMAIN log[n]
    BY <1>2, <2>1
  <2>2. CASE s \notin DOMAIN log[n]
    BY <1>1, <2>2 DEF Heard
  <2> QED BY <2>1, <2>2
<1>5. /\ a \in Entry /\ a.cmd = e.cmd /\ a.request = e.request
      /\ a.leader = e.leader /\ a.commit = e.commit
  <2> HIDE DEF e
  <2> QED BY <1>1, <1>4 DEF Entry
<1>6. /\ c \in Entry /\ c.cmd = e.cmd /\ c.request = e.request
      /\ c.leader = e.leader /\ c.commit = TRUE
  <2> HIDE DEF a, e
  <2> QED BY <1>5 DEF Entry
<1> HIDE DEF s, e, a, c
\* Both entries may take the place of e.
<1>7. ASSUME NEW x \in Entry, x.cmd = e.cmd, x.request = e.request,
             x.leader = e.leader, e.commit => x.commit
      PROVE  /\ DOMAIN Put(log[n], s, x) \subseteq Nat
             /\ Put(log[n], s, x) \in [DOMAIN Put(log[n], s, x) -> Entry]
             /\ Evolves(n, Put(log[n], s, x))
  <2> DEFINE lg == Put(log[n], s, x)
  <2>1. /\ DOMAIN lg = DOMAIN log[n] \cup {s} /\ DOMAIN lg \subseteq Nat
        /\ lg \in [DOMAIN lg -> Entry] /\ lg[s] = x
        /\ \A y \in DOMAIN log[n] : y # s => lg[y] = log[n][y]
    <3>1. /\ DOMAIN log[n] \subseteq Nat /\ log[n] \in [DOMAIN log[n] -> Entry]
          /\ s \in Nat
      BY <1>1, <1>2
    <3> QED BY <3>1, PutEntry
  <2> HIDE DEF lg
  <2>2. Evolves(n, lg)
    BY <1>2, <1>4, <1>7, <2>1 DEF Evolves
  <2> QED BY <2>1, <2>2 DEF lg
<1>8. CASE UNCHANGED <<log, execute, l, net, done, replied>>
  <2>1. Evolves(n, log[n]) /\ Becomes(n, log[n])
    BY <1>2, <1>8 DEF Evolves, Becomes
  <2> QED BY <1>2, <1>8, <2>1 DEF Iterates
<1>9. CASE Exec(n, Put(log[n], s, c))
  BY <1>6, <1>7, <1>9 DEF Iterates
<1>10. CASE /\ Becomes(n, Put(log[n], s, a))
            /\ UNCHANGED <<execute, l, net, done, replied>>
  BY <1>5, <1>7, <1>10 DEF Iterates
<1> QED BY <1>3, <1>8, <1>9, <1>10
\* HandlePropose takes no entry with a request over: none of its slot is on its
\* way to a replica that leads it.
LEMMA HandleProposeTraced ==
  ASSUME Inv, Traced, NEW p \in Node, NEW q \in Node,
         NEW i \in DOMAIN net[p][q], HandlePropose(p, q, i)
  PROVE  Traced'
<1> DEFINE cmd  == net[p][q][i].cmd
           L    == Record(l[q], [cmd |-> cmd, id |-> q])
           full == Cardinality(L) >= Total
           took == Take(net, p, q, i)
<1>1. /\ l' = [l EXCEPT ![q] = IF full THEN {} ELSE L]
      /\ net' = IF full THEN Broadcast(Frozen(took, q, L), q, VoteMsg(L)) ELSE took
      /\ accepted' = [accepted EXCEPT ![q] = @ \cup {cmd}]
      /\ UNCHANGED <<http, execute, issued, replied, done>>
  BY DEF HandlePropose
<1>2. TypedNet(net) /\ cmd \in Command /\ cmd \in Accepted
  <2>1. TypedNet(net) /\ net[p][q][i] \in Message /\ net[p][q][i].type = "Propose"
    BY TypedNetIsType, MessageAt DEF HandlePropose, Inv, TypeOK
  <2>2. cmd \in Proposals(net[p][q])
    BY <2>1 DEF Proposals
  <2> QED BY <2>1, <2>2, MessageFields DEF Traced, Known
<1> HIDE DEF cmd
<1>3. Accepted' = Accepted
  <2>1. \A m \in Node : accepted'[m] = IF m = q THEN accepted[m] \cup {cmd} ELSE accepted[m]
    BY <1>1 DEF Inv, TypeOK
  <2> QED BY <1>2, <2>1 DEF Accepted
<1>4. ASSUME NEW r \in Node, NEW t \in Node
      PROVE  Proposals(net'[r][t]) \subseteq Proposals(net[r][t])
  <2>1. TypedNet(took) /\ Proposals(took[r][t]) \subseteq Proposals(net[r][t])
    BY <1>2, TakeNet, ProposalsTake DEF TypedNet
  <2> HIDE DEF took
  <2>2. VoteMsg(L) \in Message /\ VoteMsg(L).type # "Propose"
    <3>1. L \in SUBSET CommandBallot
      <4>1. [cmd |-> cmd, id |-> q] \in CommandBallot /\ l[q] \subseteq CommandBallot
        BY <1>2 DEF Inv, TypeOK, CommandBallot
      <4> QED BY <4>1 DEF Record
    <3> QED BY <3>1, MessageTypes DEF VoteMsg
  <2> HIDE DEF L
  <2>3. /\ TypedNet(Frozen(took, q, L))
        /\ Proposals(Frozen(took, q, L)[r][t]) \subseteq Proposals(took[r][t])
    <3>1. VoteMsg(L) \in [x \in Node |-> Message][q]
      BY <2>2
    <3>2. TypedNet(Frozen(took, q, L))
      BY <2>1, <3>1, FrozenNet DEF TypedNet
    <3> QED BY <2>1, <3>2, ProposalsFrozen
  <2> DEFINE fr == Frozen(took, q, L)
  <2> HIDE DEF fr
  <2>4. Proposals(Broadcast(fr, q, VoteMsg(L))[r][t]) \subseteq Proposals(fr[r][t])
    BY <2>2, <2>3, ProposalsBroadcast DEF fr
  <2> QED BY <1>1, <2>1, <2>3, <2>4 DEF fr
<1>5. FewLate'
  <2>1. \A m \in Node : m # q => l'[m] = l[m] /\ Late(m)' = Late(m)
    BY <1>1 DEF Late, Inv, TypeOK
  <2>2. l'[q] = IF full THEN {} ELSE L
    BY <1>1 DEF Inv, TypeOK
  <2>3. IsFiniteSet(L)
    <3>1. IsFiniteSet({x \in l[q] : Slot(x.cmd) # Slot(cmd)})
      BY FS_Subset DEF Traced, FewLate
    <3> QED BY <3>1, FS_AddElement DEF Record
  <2> HIDE DEF L
  <2>4. Cardinality(L) \in Nat /\ Cardinality({}) = 0 /\ IsFiniteSet({})
    BY <2>3, FS_CardinalityType, FS_EmptySet
  <2>5. IsFiniteSet(l'[q]) /\ Cardinality(l'[q]) < Total
    BY <2>2, <2>3, <2>4, TotalAssumption
  <2>6. Late(q)' \subseteq l'[q]
    BY DEF Late
  <2>7. Cardinality(Late(q)') < Total
    <3>1. /\ Cardinality(Late(q)') <= Cardinality(l'[q])
          /\ Cardinality(Late(q)') \in Nat /\ Cardinality(l'[q]) \in Nat
      BY <2>5, <2>6, FS_Subset, FS_CardinalityType
    <3> QED BY <2>5, <3>1, TotalAssumption
  <2> QED BY <2>1, <2>5, <2>7 DEF Traced, FewLate
<1>6. PICK lg : Evolves(q, lg) /\ Becomes(q, lg)
  BY ProposeEvolves
<1> QED BY <1>1, <1>3, <1>4, <1>5, <1>6, EvolveTraced

\* An iteration of either loop keeps the writes traced.
LEMMA IteratesTraced ==
  ASSUME OneClient, Inv, Traced, NEW n \in Node, NEW lg, Iterates(n, lg),
         UNCHANGED <<http, issued, accepted>>
  PROVE  Traced'
<1>1. CASE Exec(n, lg)
  BY <1>1, ExecTraced DEF Iterates
<1>2. CASE Becomes(n, lg) /\ UNCHANGED <<execute, l, net, done, replied>>
  <2>1. FewLate' /\ Accepted' = Accepted
    BY <1>2 DEF Traced, FewLate, Late, Accepted
  <2> QED BY <1>2, <2>1, EvolveTraced DEF Iterates
<1> QED BY <1>1, <1>2 DEF Iterates

\* The steps that touch the links alone.
LEMMA LinkTraced ==
  ASSUME Inv, Traced, NEW p \in Node, NEW q \in Node, NEW i \in DOMAIN net[p][q],
         HandleVote(p, q, i) \/ Encode(p, q, i) \/ Lose(p, q, i)
  PROVE  Traced'
<1>1. UNCHANGED <<http, log, execute, l, issued, replied, done, accepted>>
  BY DEF HandleVote, Encode, Lose, replica, history
<1>2. net' = Take(net, p, q, i) \/ net' = [net EXCEPT ![p][q][i] = VoteMsg(l[p])]
  BY DEF HandleVote, Encode, Lose
<1>3. TypedNet(net)
  BY TypedNetIsType DEF Inv, TypeOK
<1>4. \A r, t \in Node : Proposals(net'[r][t]) \subseteq Proposals(net[r][t])
  <2>1. CASE net' = Take(net, p, q, i)
    BY <1>3, <2>1, ProposalsTake
  <2>2. CASE net' = [net EXCEPT ![p][q][i] = VoteMsg(l[p])]
    BY <1>3, <2>2, ProposalsEncode
  <2> QED BY <1>2, <2>1, <2>2
<1> QED BY <1>1, <1>4, NetTraced

\* Every loop step is an iteration that leaves requests and clients alone.
LEMMA LoopIterates ==
  ASSUME OneClient, Inv, Traced, NEW n \in Node, Loop(n)
  PROVE  /\ \E lg : Iterates(n, lg)
         /\ UNCHANGED <<http, issued, accepted>>
<1>1. CASE \E s \in sweep[n] : Sweep(n, s)
  BY <1>1, SweepIterates DEF Sweep
<1>2. CASE \E cb \in tally[n] : Tally(n, cb)
  BY <1>2, TallyIterates DEF Tally
<1> QED BY <1>1, <1>2 DEF Loop

-----------------------------------------------------------------------------
(* The theorems *)

\* With one client every write can be traced from its request to the one entry
\* that answers it, whatever the links do to messages (HandleRequest,
\* HandlePropose, HandleVote, exec): Traced is inductive together with the types
\* and SoundVotes.
THEOREM WritesTraced ==
  ASSUME OneClient
  PROVE  Spec => [](Inv /\ Traced)
<1>1. Inv /\ Traced /\ [Next]_vars /\ Inv' => Traced'
  <2> SUFFICES ASSUME Inv, Traced, [Next]_vars, Inv' PROVE Traced'
    OBVIOUS
  <2>1. ASSUME NEW c \in Client, NEW n \in Node, Issue(c, n) PROVE Traced'
    BY <2>1, IssueTraced
  <2>2. ASSUME NEW n \in Node, Request(n) PROVE Traced'
    BY <2>2, HandleRequestTraced DEF Request
  <2>3. ASSUME NEW n \in Node, Loop(n) PROVE Traced'
    BY <2>3, LoopIterates, IteratesTraced
  <2>4. ASSUME NEW p \in Node, NEW q \in Node, Deliver(p, q) PROVE Traced'
    BY <2>4, HandleProposeTraced, LinkTraced DEF Deliver
  <2>5. ASSUME NEW p \in Node, NEW q \in Node, NEW i \in DOMAIN net[p][q],
               Lose(p, q, i)
        PROVE  Traced'
    BY <2>5, LinkTraced
  <2>6. CASE UNCHANGED vars
    BY <2>6, NetTraced DEF vars, replica, history
  <2> QED BY <2>1, <2>2, <2>3, <2>4, <2>5, <2>6 DEF Next, Progress
<1>2. TypeOK /\ SoundVotes <=> Inv
  BY DEF Inv
<1>3. Spec => []Inv
  BY <1>2, TypeCorrect, VotesSound, PTL
<1> QED BY <1>1, <1>3, InitTraced, PTL DEF Spec

\* With one client every unanswered write has exactly one replica that can still
\* answer it, and an answered one has none (HandleRequest, HandlePropose, exec).
THEOREM OneReplicaHolds ==
  ASSUME OneClient
  PROVE  Spec => []OneHolder
<1>1. Inv /\ Traced => OneHolder
  <2> SUFFICES ASSUME Inv, Traced, NEW c \in Issued
               PROVE  \/ c \in replied /\ Holders(c) = {}
                      \/ c \notin replied /\ \E n \in Node : Holders(c) = {n}
    BY DEF OneHolder
  <2>1. c \in Command
    BY IssuedCommands DEF Inv
  \* To hold c is to have its request, or to lead its slot.
  <2>2. \A n \in Node : n \in Holders(c) <=> c \in http[n] \/ Leads(n, Slot(c))
    <3> TAKE n \in Node
    <3>1. ASSUME NEW s \in DOMAIN log[n], log[n][s].request
          PROVE  /\ log[n][s].cmd = c <=> s = Slot(c)
                 /\ log[n][s].leader /\ s >= execute[n]
      <4>1. log[n][s].cmd \in Command /\ Slot(log[n][s].cmd) = s
        BY <3>1 DEF Inv, TypeOK, Entry, SoundVotes, SoundLog
      <4> QED BY <2>1, <3>1, <4>1, SameSlot DEF Traced, LedOnce
    <3>2. Leads(n, Slot(c)) <=> \E s \in DOMAIN log[n] :
             /\ s >= execute[n] /\ log[n][s].cmd = c
             /\ log[n][s].request /\ log[n][s].leader
      BY <3>1 DEF Leads
    <3> QED BY <3>2 DEF Holders
  <2>3. Holders(c) \subseteq Node
    BY DEF Holders
  \* A waiting request is not accepted by anybody, so it is not answered and
  \* nobody leads its slot.
  <2>4. ASSUME NEW n \in Node, c \in http[n]
        PROVE  c \notin replied /\ \A m \in Node : m \in Holders(c) => m = n
    <3>1. c \notin Accepted
      BY <2>4 DEF Traced, Waiting
    <3>2. \A m \in Node : ~Leads(m, Slot(c))
      BY <2>1, <3>1, FreshSlot DEF Leads, Traced
    <3>3. \A m \in Node : c \in http[m] => m = n
      BY <2>4 DEF Traced, Waiting
    <3>4. c \notin replied
      BY <3>1, RepliedAccepted DEF Inv
    <3> QED BY <2>2, <3>2, <3>3, <3>4
  <2>5. ASSUME NEW n \in Node, Leads(n, Slot(c))
        PROVE  c \notin replied /\ \A m \in Node : Leads(m, Slot(c)) => m = n
    <3>1. log[n][Slot(c)].cmd = c
      <4>1. log[n][Slot(c)].cmd \in Command /\ Slot(log[n][Slot(c)].cmd) = Slot(c)
        BY <2>5 DEF Leads, Inv, TypeOK, Entry, SoundVotes, SoundLog
      <4> QED BY <2>1, <4>1, SameSlot
    <3> QED BY <2>5, <3>1 DEF Leads, Traced, LedOnce
  <2>6. c \notin replied => \E n \in Node : n \in Holders(c)
    BY <2>2 DEF Traced, Kept
  <2>7. \A n \in Node : n \in Holders(c) =>
           c \notin replied /\ \A m \in Node : m \in Holders(c) => m = n
    BY <2>2, <2>4, <2>5
  <2> QED BY <2>3, <2>6, <2>7
<1> QED BY <1>1, WritesTraced, PTL

\* With one client what late proposals leave behind does no harm: the entry holds
\* what was executed, answers nothing and does not fill p.l (HandlePropose, exec).
THEOREM LateIsInert ==
  ASSUME OneClient
  PROVE  Spec => []LateInert
<1>1. Inv /\ Traced => LateInert
  <2> SUFFICES ASSUME Inv, Traced, NEW n \in Node
               PROVE  /\ \A s \in DOMAIN log[n] : s < execute[n] =>
                           /\ log[n][s].cmd = done[n][s]
                           /\ ~(log[n][s].request /\ log[n][s].leader)
                      /\ Cardinality({cb \in l[n] : Slot(cb.cmd) < execute[n]}) < Total
    BY DEF LateInert
  <2>1. ASSUME NEW s \in DOMAIN log[n], s < execute[n]
        PROVE  log[n][s].cmd = done[n][s] /\ ~log[n][s].request
    <3>1. s \in Nat /\ execute[n] \in Nat
      BY DEF Inv, TypeOK
    <3>2. s \in DOMAIN done[n] /\ done[n][s] \in Command /\ log[n][s].cmd \in Command
      BY <2>1, <3>1 DEF Inv, TypeOK, Entry
    <3>3. Slot(log[n][s].cmd) = s /\ Slot(done[n][s]) = s
      BY <3>2 DEF Inv, SoundVotes, SoundLog, SoundDone
    <3>4. ~log[n][s].request
      BY <2>1, <3>1 DEF Traced, LedOnce
    <3> QED BY <3>2, <3>3, <3>4, SameSlot
  <2>2. Cardinality({cb \in l[n] : Slot(cb.cmd) < execute[n]}) < Total
    BY DEF Traced, FewLate, Late
  <2> QED BY <2>1, <2>2
<1> QED BY <1>1, WritesTraced, PTL

\* What CommitStable says of a step.
StaysCommitted(n, s) ==
    \/ /\ s \in DOMAIN log'[n]
       /\ log'[n][s].commit
       /\ log'[n][s].cmd = log[n][s].cmd
    \/ /\ s < execute'[n]
       /\ done'[n][s] = log[n][s].cmd

\* An entry that evolves stays committed.
LEMMA EvolvesCommitted ==
  ASSUME NEW n \in Node, NEW lg, Evolves(n, lg), Becomes(n, lg),
         NEW m \in Node, NEW s \in DOMAIN log[m], log[m][s].commit
  PROVE  StaysCommitted(m, s)
BY DEF Evolves, Becomes, StaysCommitted

\* An iteration loses no committed entry.
LEMMA IteratesCommitted ==
  ASSUME Inv, NEW n \in Node, NEW lg, Iterates(n, lg),
         NEW m \in Node, NEW s \in DOMAIN log[m], log[m][s].commit
  PROVE  StaysCommitted(m, s)
<1>1. CASE Becomes(n, lg)
  BY <1>1, EvolvesCommitted DEF Iterates
<1>2. CASE Exec(n, lg)
  <2> DEFINE ran(e) == execute[n]..(e - 1)
  <2>1. PICK e \in Nat : ExecTo(n, lg, e)
    BY <1>2, ExecStops DEF Iterates
  <2>2. CASE m # n
    BY <2>1, <2>2 DEF ExecTo, StaysCommitted
  <2>3. CASE m = n
    <3>1. s \in DOMAIN lg /\ lg[s].commit /\ lg[s].cmd = log[n][s].cmd
      BY <2>3 DEF Iterates, Evolves
    <3>2. CASE s \in ran(e)
      <4>1. execute'[n] = e /\ s < e
        BY <2>1, <3>2 DEF ExecTo, Inv, TypeOK
      <4>2. done'[n] = [x \in DOMAIN done[n] \cup ran(e) |->
                          IF x \in ran(e) THEN lg[x].cmd ELSE done[n][x]]
        BY <2>1 DEF ExecTo, Inv, TypeOK
      <4>3. done'[n][s] = lg[s].cmd
        BY <3>2, <4>2
      <4> QED BY <2>3, <3>1, <4>1, <4>3 DEF StaysCommitted
    <3>3. CASE s \notin ran(e)
      <4>1. s \in DOMAIN log'[n]
        BY <2>1, <3>1, <3>3 DEF ExecTo
      <4>2. log'[n][s].commit = lg[s].commit /\ log'[n][s].cmd = lg[s].cmd
        BY <2>1, <4>1 DEF ExecTo
      <4> QED BY <2>3, <3>1, <4>1, <4>2 DEF StaysCommitted
    <3> QED BY <3>2, <3>3
  <2> QED BY <2>2, <2>3
<1> QED BY <1>1, <1>2 DEF Iterates

\* HandleRequest overwrites no committed entry: the slot of a write that waits
\* has no entry yet.
LEMMA RequestCommitted ==
  ASSUME OneClient, Inv, Traced, NEW n \in Node, NEW cmd \in http[n],
         HandleRequest(n, cmd),
         NEW m \in Node, NEW s \in DOMAIN log[m], log[m][s].commit
  PROVE  StaysCommitted(m, s)
<1>1. log' = [log EXCEPT ![n] = Put(@, Slot(cmd), Requested(cmd))]
  BY DEF HandleRequest
<1>2. Slot(cmd) \notin DOMAIN log[n]
  <2>1. cmd \in Command /\ cmd \notin Accepted
    BY DEF Inv, TypeOK, Traced, Waiting
  <2> QED BY <2>1, FreshSlot DEF Traced
<1>3. s \in DOMAIN log'[m] /\ log'[m][s] = log[m][s]
  <2>1. CASE m # n
    BY <1>1, <2>1 DEF Inv, TypeOK
  <2>2. CASE m = n
    <3>1. log'[n] = Put(log[n], Slot(cmd), Requested(cmd)) /\ s # Slot(cmd)
      BY <1>1, <1>2, <2>2 DEF Inv, TypeOK
    <3> QED BY <2>2, <3>1 DEF Put
  <2> QED BY <2>1, <2>2
<1> QED BY <1>3 DEF StaysCommitted

\* With one client a committed slot keeps its command until it is executed with
\* it: no request or proposal overwrites it (HandleRequest, HandlePropose, exec).
THEOREM CommitsAreStable ==
  ASSUME OneClient
  PROVE  Spec => CommitStable
<1>1. Inv /\ Traced /\ [Next]_vars =>
        [\A n \in Node : \A s \in DOMAIN log[n] : log[n][s].commit =>
           \/ /\ s \in DOMAIN log'[n]
              /\ log'[n][s].commit
              /\ log'[n][s].cmd = log[n][s].cmd
           \/ /\ s < execute'[n]
              /\ done'[n][s] = log[n][s].cmd]_vars
  <2> SUFFICES ASSUME Inv, Traced, Next,
                      NEW m \in Node, NEW s \in DOMAIN log[m], log[m][s].commit
               PROVE  StaysCommitted(m, s)
    BY DEF StaysCommitted
  <2>1. CASE log' = log
    BY <2>1 DEF StaysCommitted
  <2>2. ASSUME NEW n \in Node, Request(n) PROVE StaysCommitted(m, s)
    BY <2>2, RequestCommitted DEF Request
  <2>3. ASSUME NEW n \in Node, Loop(n) PROVE StaysCommitted(m, s)
    BY <2>3, LoopIterates, IteratesCommitted
  <2>4. ASSUME NEW p \in Node, NEW q \in Node, NEW i \in DOMAIN net[p][q],
               HandlePropose(p, q, i)
        PROVE  StaysCommitted(m, s)
    BY <2>4, ProposeEvolves, EvolvesCommitted
  <2>5. ASSUME NEW c \in Client, NEW n \in Node, Issue(c, n) PROVE log' = log
    BY <2>5 DEF Issue, replica
  <2>6. ASSUME NEW p \in Node, NEW q \in Node, NEW i \in DOMAIN net[p][q],
               HandleVote(p, q, i) \/ Encode(p, q, i) \/ Lose(p, q, i)
        PROVE  log' = log
    BY <2>6 DEF HandleVote, Encode, Lose, replica
  <2> QED BY <2>1, <2>2, <2>3, <2>4, <2>5, <2>6 DEF Next, Progress, Deliver
<1> QED BY <1>1, WritesTraced, PTL DEF Spec, CommitStable

-----------------------------------------------------------------------------
(* The refinement of OrderedLog *)

\* The place of a command that was issued has that command in the log.
LEMMA CommandAt ==
  ASSUME OneClient, TypeOK, NEW c \in Issued
  PROVE  Log!At(Slot(c)) = c
<1>1. \A d \in Issued : Slot(d) = Slot(c) => d = c
  BY IssuedCommands, SameSlot
<1> QED BY <1>1 DEF Log!At

\* The replicas begin with an empty log.
LEMMA InitLog == Init => Log!Init
<1>1. 0..(0 - 1) = {}
  OBVIOUS
<1>2. Init => Issued = {}
  BY <1>1 DEF Init, Issued
<1> QED BY <1>2 DEF Init, Log!Init

\* A client that issues a write submits it.
LEMMA IssueSubmits ==
  ASSUME OneClient, TypeOK, NEW c \in Client, NEW n \in Node, Issue(c, n)
  PROVE  Log!Submit
<1> DEFINE cmd == [client |-> c, counter |-> issued[c]]
<1>1. issued' = [issued EXCEPT ![c] = @ + 1] /\ UNCHANGED <<done, replied>>
  BY DEF Issue, history
<1>2. issued \in [Client -> Nat] /\ \A d \in Client : d = c
  BY DEF TypeOK, OneClient
<1>3. \A x : x \in Issued <=> \E k \in 0..(issued[c] - 1) : x = [client |-> c, counter |-> k]
  BY <1>2 DEF Issued
<1>4. \A x : x \in Issued' <=> \E k \in 0..issued[c] : x = [client |-> c, counter |-> k]
  <2>1. issued'[c] = issued[c] + 1 /\ issued[c] \in Nat
    BY <1>1, <1>2
  <2>2. \A x : x \in Issued' <=> \E k \in 0..(issued'[c] - 1) : x = [client |-> c, counter |-> k]
    BY <1>2 DEF Issued
  <2>3. issued'[c] - 1 = issued[c]
    BY <2>1
  <2> QED BY <2>2, <2>3
<1>5. 0..issued[c] = 0..(issued[c] - 1) \cup {issued[c]} /\ issued[c] \in 0..issued[c]
  BY <1>2
<1>6. Issued' = Issued \cup {cmd} /\ cmd \in Issued'
  <2>1. ASSUME NEW x PROVE x \in Issued' <=> x \in Issued \cup {cmd}
    BY <1>3, <1>4, <1>5
  <2> QED BY <2>1
<1>7. \A d \in Issued : Slot(d) # Slot(cmd)
  BY <1>2, <1>3 DEF Slot
<1> HIDE DEF cmd
<1> QED BY <1>1, <1>6, <1>7 DEF Log!Submit

\* exec() of n applies the slots it runs.
LEMMA ExecApplies ==
  ASSUME OneClient, Inv, Traced, NEW n \in Node, NEW lg, Iterates(n, lg),
         Exec(n, lg), UNCHANGED issued
  PROVE  Log!Apply(n)
<1> DEFINE ran(e) == execute[n]..(e - 1)
           new == DOMAIN done'[n] \ DOMAIN done[n]
<1>1. PICK e \in Nat : ExecTo(n, lg, e)
  BY ExecStops DEF Iterates
<1>2. /\ e >= execute[n] /\ ran(e) \subseteq DOMAIN lg
      /\ done' = [done EXCEPT ![n] = [s \in DOMAIN @ \cup ran(e) |->
                    IF s \in ran(e) THEN lg[s].cmd ELSE @[s]]]
      /\ replied' = replied \cup Answers(lg, ran(e))
  BY <1>1 DEF ExecTo
<1>3. execute[n] \in Nat /\ DOMAIN done[n] = 0..(execute[n] - 1) /\ DOMAIN done = Node
  BY DEF Inv, TypeOK
<1>4. done'[n] = [s \in DOMAIN done[n] \cup ran(e) |->
                    IF s \in ran(e) THEN lg[s].cmd ELSE done[n][s]]
  BY <1>2, <1>3
<1>5. new = ran(e) /\ DOMAIN done'[n] = 0..(e - 1) /\ DOMAIN done[n] \subseteq DOMAIN done'[n]
  BY <1>2, <1>3, <1>4
<1>6. \A s \in ran(e) : /\ lg[s].cmd \in Issued /\ Slot(lg[s].cmd) = s
                        /\ Log!At(s) = lg[s].cmd
  <2> TAKE s \in ran(e)
  <2>1. lg[s].cmd \in Accepted /\ Slot(lg[s].cmd) = s
    BY <1>2 DEF Iterates, Evolves
  <2>2. lg[s].cmd \in Issued
    BY <2>1 DEF Traced, Known
  <2> QED BY <2>1, <2>2, CommandAt DEF Inv
<1>7. done'[n] = [s \in DOMAIN done'[n] |-> IF s \in new THEN Log!At(s) ELSE done[n][s]]
  <2> HIDE DEF ran, new
  <2> QED BY <1>4, <1>5, <1>6
<1>8. done' = [done EXCEPT ![n] = [s \in DOMAIN done'[n] |->
                             IF s \in new THEN Log!At(s) ELSE done[n][s]]]
  <2> DEFINE d == [s \in DOMAIN done'[n] |-> IF s \in new THEN Log!At(s) ELSE done[n][s]]
             x == [s \in DOMAIN done[n] \cup ran(e) |->
                    IF s \in ran(e) THEN lg[s].cmd ELSE done[n][s]]
  <2>1. done' = [done EXCEPT ![n] = x]
    BY <1>2
  <2>2. x = d
    BY <1>4, <1>7
  <2> HIDE DEF x, d
  <2>3. done' = [done EXCEPT ![n] = d]
    BY <2>1, <2>2
  <2> QED BY <2>3 DEF d
<1>9. \A s \in new : 0..s \subseteq DOMAIN done'[n]
  BY <1>3, <1>5
<1>10. \A s \in new : \E c \in Issued : Slot(c) = s
  BY <1>5, <1>6
<1>11. replied \subseteq replied' /\ replied' \ replied \subseteq {Log!At(s) : s \in new}
  <2>1. Answers(lg, ran(e)) \subseteq {lg[s].cmd : s \in ran(e)}
    BY DEF Answers
  <2> HIDE DEF ran, new
  <2> QED BY <1>2, <1>5, <1>6, <2>1
<1>12. Issued' = Issued
  BY DEF Issued
<1> HIDE DEF new
<1> QED BY <1>5, <1>8, <1>9, <1>10, <1>11, <1>12 DEF Log!Apply, new

\* With one client the replicas implement one ordered log: every slot is executed
\* with the write issued for it, in order, and a write is answered by a step that
\* executes it (Issue, HandlePropose, HandleVote, exec).
THEOREM ReplicasImplementLog ==
  ASSUME OneClient
  PROVE  Spec => ImplementsLog
<1>1. Inv /\ Traced /\ [Next]_vars => [Log!Next]_(Log!vars)
  <2> SUFFICES ASSUME Inv, Traced, [Next]_vars
               PROVE  Log!Next \/ UNCHANGED <<Issued, done, replied>>
    BY DEF Log!vars
  <2>1. ASSUME NEW c \in Client, NEW n \in Node, Issue(c, n) PROVE Log!Next
    BY <2>1, IssueSubmits DEF Log!Next, Inv
  <2>2. CASE UNCHANGED <<issued, done, replied>>
    BY <2>2 DEF Issued
  <2>3. ASSUME NEW n \in Node, Loop(n)
        PROVE  Log!Next \/ UNCHANGED <<issued, done, replied>>
    <3>1. PICK lg : Iterates(n, lg)
      BY <2>3, LoopIterates
    <3>2. UNCHANGED issued
      BY <2>3, LoopIterates
    <3>3. CASE Exec(n, lg)
      BY <3>1, <3>2, <3>3, ExecApplies DEF Log!Next
    <3> QED BY <3>1, <3>2, <3>3 DEF Iterates
  <2>4. ASSUME NEW n \in Node, Request(n) PROVE UNCHANGED <<issued, done, replied>>
    BY <2>4 DEF Request, HandleRequest
  <2>5. ASSUME NEW p \in Node, NEW q \in Node, NEW i \in DOMAIN net[p][q],
               HandlePropose(p, q, i) \/ HandleVote(p, q, i)
                 \/ Encode(p, q, i) \/ Lose(p, q, i)
        PROVE  UNCHANGED <<issued, done, replied>>
    BY <2>5 DEF HandlePropose, HandleVote, Encode, Lose, history
  <2>6. CASE UNCHANGED vars
    BY <2>2, <2>6 DEF vars, history
  <2> QED BY <2>1, <2>2, <2>3, <2>4, <2>5, <2>6 DEF Next, Progress, Deliver
<1> QED BY <1>1, InitLog, WritesTraced, PTL DEF Spec, ImplementsLog, Log!Spec
=============================================================================
