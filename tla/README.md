# BigBFT in TLA+

A model of the BigBFT replication framework in `src/`: TLA+ modules of its
components, TLC configurations that check them on small instances, and proofs
checked by TLAPS. `PROJECT.json` maps every definition to the lines it models
and lists runs, mutants, hazards, findings and theorems.

## The system

BigBFT is a multi-leader state machine replication prototype in Go, built on
the skeleton of the Paxi framework. A deployment is a set of replica processes
(`server/`), a benchmark process (`client/`) that issues writes over HTTP, and
optionally an admin shell (`cmd/`) and a master that hands out the
configuration.

| component | source | state | operations |
|---|---|---|---|
| replica | `consensus/consensus.go`, `msg.go`, `replica.go` | `log`, `l`, `execute`, `count`, `flag2` | HandleRequest, HandlePropose, HandleVote, exec |
| quorum | `quorum.go` | the acknowledgements of a slot | ACK, Majority, Total, Reset |
| node | `node.go` | `MessageChan`, `forwards` | recv, handle, Forward, Retry |
| HTTP server | `http.go` | one goroutine per request | handleRoot, handleHistory, handleCrash, handleDrop |
| socket | `socket.go` | `crash`, `drop`, `slow`, `flaky`, connections | Send, Recv, Broadcast, fault injection |
| transport | `transport.go` | `send` and `recv` channels, a connection | Dial, Listen, Send, Recv, Close |
| client | `client.go` | `rr`, `ID`, `CID`, `List` | Put, Get, the multi-node operations, the admin operations |
| benchmark | `benchmark.go` | channels, workers, WaitGroup, counters | Run, Load, worker, collect, next |
| database | `db.go` | `data`, `version`, `history` | Execute, Get, Put, History |
| master | `master/`, `util.go` | registrations, the shared configuration | register, hand out |
| queue | `lib/queue.go` | a ring buffer | Push, Pop |
| graph | `lib/graph.go`, `lib/graph_scc.go` | adjacency maps `from` and `to` | Add, Remove, AddEdge, RemoveEdge, Transpose, BFS, DFS, Cyclic, Cycle, SCC |
| hash ring | `lib/hash_ring.go` | a circular list of nodes | Insert, search, Get |
| rate limiter | `rate.go` | `last`, `sleep` | Wait |
| ballot, view, id | `ballot.go`, `view.go`, `id.go` | packed integers | NewBallot, Next, N, ID |
| command conflicts | `db.go` | | Conflict, ConflictBatch |
| peers, policies, statistics | `peerset.go`, `policy.go`, `stat.go` | counters | Addmember, Hit |
| library | `lib/` | stack, sets, maps | |

How they interact. A worker of the benchmark draws the next number, calls
`HTTPClient.Put`, which picks a replica with `Next` and sends the write with the
number as its counter. `handleRoot` of the replica's HTTP server puts the
request in `MessageChan` and waits for the reply on a channel of the request.
`node.handle`, one goroutine per replica, takes messages from `MessageChan` and
calls the handlers of the replica one after the other. Handlers broadcast
through the socket, which has a transport per peer: a bounded channel, a
goroutine that encodes on a TCP connection, a goroutine at the other end that
decodes into the peer's receive channel, and `node.recv`, which passes on to the
peer's `MessageChan`. `exec` executes committed slots in order and answers the
requests the replica leads. The admin injects faults over HTTP into the socket
and audits the histories of the databases.

What is hard about each part, and what makes it correct:

* **Replica.** Messages of different senders overtake one another; votes come in
  batches; `exec` broadcasts the live map `p.l` by reference while goroutines
  encode it later; loops range over Go maps that the code they call changes;
  acknowledgements are counted per slot, whatever the command. Correct means: no
  two replicas execute different commands in a slot, what is executed or
  answered was accepted by enough replicas, commits are stable, all writes are
  answered.
* **Fault injection.** Goroutines that switch faults off overlap with later
  injections; a partition is a series of calls that may fail one by one; messages
  that are in `Send`, delayed, or in the channel of a connection outlive the crash
  of their node. Correct means: a fault lasts as long as asked and ends, and acts
  on what is under way no worse than it must.
* **Transport and node.** Bounded channels, blocking sends and a single handler
  goroutine: replicas may wait for one another; a replica may be sent to before
  it has started. Correct means: links are queues, and everything is handled in
  the end. A forwarded request is found again by the text of its command alone:
  correct means that its client gets an answer.
* **Client.** Workers share `rr` and `ID` without a lock. Correct means: writes
  go round the replicas, every request gets to one. The operations on several
  replicas start goroutines whose calls may fail or hang, and which overtake one
  another: correct means that they return what they say, from as many replicas as
  they say, when the calls have returned.
* **Benchmark.** Main goroutine, workers and collector meet at channels and a
  WaitGroup. Correct means: numbers without gap or repetition, since they are
  the slots of the log, all results recorded, Run returns when the replicas have
  answered.
* **Database and audit.** Histories are read at different times while replicas
  execute. Correct means: a store answers with the last value written; the audit
  raises no false alarm and misses nothing it could see.
* **Master.** A goroutine per connection and unbuffered channels; the
  configuration is shared without a lock; replicas restart. Correct means:
  everybody gets the complete configuration.
* **Queue.** Empty and full look alike, and the ring grows when it has wrapped
  around. Correct means: it is a queue.
* **Graph.** The searches go over Go maps, in any order, and keep a second map in
  step. Correct means: they visit what can be reached, once and in their order,
  and find a cycle exactly when there is one.
* **Hash ring, limiter, ballots, conflicts.** Boundaries: the last node of the
  ring, the savings of the limiter, fields of a word that overflow, a read that
  changes nothing. Correct means: few keys move, the rate is kept, ballots grow,
  and what does not conflict commutes.

## The modules

| module | models | refines | proofs |
|---|---|---|---|
| `Consensus` | replicas, quorum, messages, faulty links | `OrderedLog` | `ConsensusProofs` |
| `Faults` | fault injection, `Send` under faults, `Partition` | | `FaultsProofs` |
| `Transport` | start, dialling, channels and goroutines between replicas (tcp, chan) | `Links` | `TransportProofs` |
| `Forward` | requests handed on to another replica, and their answers | | `ClientProofs` |
| `Client` | `Put`, `Get`, `Next` of concurrent workers | | `ClientProofs` |
| `Fanout` | `GetMUL`, `PutMUL`, `MultiGet`, `LocalQuorumGet`, `QuorumPut` | | `ClientProofs` |
| `Benchmark` | `Run`, `Load`, `worker`, `collect` | | `BenchmarkProofs` |
| `Database` | stores, `/history`, `HTTPClient.Consensus` | | `DatabaseProofs` |
| `Master` | registration and hand-out | | `MasterProofs` |
| `Queue` | the ring buffer | `Fifo` | `LibraryProofs` |
| `Graph` | the graph and its searches | | `LibraryProofs` |
| `GraphSCC` | `SCC`, Tarjan's algorithm as it is written | | `LibraryProofs` |
| `HashRing` | `Insert`, `search`, `Get` | | `LibraryProofs` |
| `Limiter` | `Wait` and the passing of time | | `LibraryProofs` |
| `Ballots` | ballots as words of narrow fields | | `LibraryProofs` |
| `Conflicts` | `Conflict`, `ConflictBatch` and the store they speak of | | `LibraryProofs` |

`MCConsensus` and `MCTransport` give operators as values to constants.
`MCProcesses` (Benchmark, Client, Fanout, Forward, Master) and `MCLibrary` (Queue,
Graph, HashRing, Limiter, Ballots, Conflicts, Database) put parts that share no
state side by side: a behaviour chooses one part at the beginning and leaves the
others alone, so that one run checks them all. The other runs use the module
itself.
A definition commented as `mutant` is not part of the model: it is a bug of the
kind the code could have, and a run's property is violated when it takes the
place of the definition below it.

**Consensus.** One action per handler. A handler runs to its end before the next
begins (`Idle`), but its loops over Go maps are one step per iteration, in any
order (`Sweep`, `Tally`): that is where `exec`, called inside, changes the map
under the loop. `Exec` is the whole of `exec()`: it runs all slots that can run,
removes them from `log` and `l`, answers the requests led here, and at a
committed slot it may not run yet resets the acknowledgements and broadcasts
`p.l` by reference (`VoteRef`); `Encode` reads the live map later, and
`HandlePropose`, which replaces the map, freezes what pending messages refer to
(`Frozen`). The links are sequences per pair of replicas; `Slow` lets them
reorder, `Lossy` lose. History variables `done` and `accepted` record what was
executed and accepted. Ballots are left out, since no handler decides by them,
and so is the content of writes.

**Faults.** The four flags of a socket, the goroutines that end them, and the
admin's `Partition` as the series of HTTP calls it is, each of which may fail,
which `HTTPClient.Drop` logs and nothing else (`PartitionDrop`, `missed`). `Send`
is two steps, since the code looks at the flags and may then dial before it hands
the message over: `Send` up to the look at `flaky`, `HandOver` from the look at
`slow` on; `SendDelayed` is the goroutine of a slow message. Both put the message
in the bounded channel `t.send` (`queue`), from which the goroutine of the
connection encodes it whatever the flags say by then (`Encode`). History variables
record what was encoded (`wire`), how much of it since the sender crashed (`left`)
and how much the channel held at the crash (`kept`), who is down because of a
`Crash(t)` with `t <= 0` (`forever`), and how often `Drop` was called (`drops`).

**Transport.** Replicas `Start` in any order. `Dial` is an attempt of `Retry`; a
sender that has made the last one in vain panics, and the model ends there.
`Post` (HTTP), `Handle`, `Send` (one iteration of `Broadcast`), `Encode`,
`Decode`, `Take` and `Pass` each block while their channel is full. With the
scheme `chan` the messages of all senders meet in one channel of the receiver's
host (`Join`, `Listen`) in place of a connection each. `Links` says what
Consensus assumes: per pair of replicas one queue. The connections are reliable:
an error of `Encode` is logged and the message lost (`transport.go:108`), which is
not in this model, but in `Faults` and in the lossy links of `Consensus`.

**Forward.** A request enters the map `forwards` under the text of its command
(`CommandOf`, which leaves the counter out), travels to the other replica and its
answer back; `recv` looks the answer up and puts it in the channel of the request
it finds, which has one slot and one reader. The handler of the other replica is
taken to answer; nothing in the repository calls `Forward` yet.

**Client.** Each read and each write of the shared `rr` and `ID` is a step, as
in unsynchronised Go code. This is why `Consensus` lets a write of several
workers reach any replica (`AnyReplica`). The replicas execute a number when they
have all lower ones and enough for a batch, and answer some of those who wait for
it (`Execute`); nothing makes them do it.

**Fanout.** The goroutines of an operation, the bounded or unbounded channels
for values and headers, the loops that receive. A call returns with an answer
(`Called`), returns an error (`CallFails`), or hangs. An error ends the goroutine
without a word, except for `QuorumPut`, which ignores the result; `answered`
records the replicas that did answer.

**Benchmark.** The main goroutine, the workers and the collector with their
channels and the WaitGroup. A write may return when the replicas have what they
need to vote for it (`Answerable`: all lower numbers, and `Concurrency` commands);
it may also fail or never return.

**Database.** Stores that execute arbitrary commands, and the audit, which reads
one history per step.

**Master.** The goroutine of each connection, the collector, the two writes to
the shared configuration, the client's two reads of it, connections that break.

**Queue.** The buffer as a function from `0..cap-1`.

**Graph, GraphSCC.** The maps `from` and `to` as functions. A search is one step
per iteration of its loop, in any order of the map it ranges over; the calls of
`visit` and `strongConnect` are frames of a stack, so that no recursion is
needed. What the searches and `SCC` find is compared with what the edges lead to:
the least set that contains the successors of each of its members.

**HashRing.** The list from the head to the node whose next is the head, as a
sequence; hashes are numbers.

**Limiter.** The clock ticks at any time, in a sleep for longer than asked too.
The history variables pick any operation and count those after it.

**Ballots.** Words of four fields of `Field` values each, with the shifts and the
bitwise or of the code; IDs may be too large for their fields. The bitwise or is
the constant `WordOr`, of which the module assumes what the proof needs
(`BitwiseOr`); the run gives it the `|` of `Bitwise`, and TLC checks the
assumption for all pairs of words.

**Conflicts.** A store after some writes and two batches, which are executed in
both orders.

## The runs

| run | question | instance |
|---|---|---|
| `core_batch` | one log (`OrderedLog`), commits stable, late messages harmless, exactly one replica can answer a write, every write can be traced (the inductive invariant `Traced`) | 3 replicas, 2 workers, 3 writes, ordered loss-free links |
| `core_faulty` | acknowledgements are sound (the inductive invariant), execution certified, answers durable | 3 replicas, 2 workers, 2 writes, lossy and reordering links |
| `core_live` | with batches of one every write is answered | 3 replicas, 1 worker, 2 writes |
| `faults` | every fault has a goroutine that ends it, and ends, but for crashes with `t <= 0`; a crash ends early only by another's timer; a partition cuts every link whose call got through; what leaves a crashed node is what was in `t.send` and one message more, and only slow links reorder | 3 nodes, 2 overlapping injections for 0 or 1 second, at most 3 injections and messages, channels of one slot |
| `transport` | a chain of channels is one queue (`Links`) from before the receiver has started; everything is handled unless the replicas wait for one another in a circle of full channels | 2 replicas, channels of one slot, 2 attempts; tcp with 6 requests and a Vote each, which reach the circle, chan with 2 |
| `processes` | the index settles, calls that do not overlap are spread evenly, requests get to a replica; what several replicas answer is complete, paired, from a majority, and operations return when their calls have; forwarded requests are answered; WaitGroup, numbers, keys in step, results complete, Run returns or waits for replicas; complete configurations, all answered by the master | 2 workers, 2 replicas, 5 writes, 1 read; 4 replicas, all five operations, calls that fail or hang; 4 forwarded requests, 3 with one command; 3 workers, 4 requests, `Run` with and without a time limit, `Load`, reads, failing writes; 3 replicas at the master, one of them registering twice, 1 client, 1 broken connection |
| `library` | `Fifo` implemented; searches right; few keys move; rate kept; ballots grow; free commands commute; stores current, no false alarm, divergence found | queue of capacity 2 growing to 4; all graphs of 4 vertices; 4 ring nodes of 5 hashes; 30 ticks, 4 of them a second, rate 2; fields of 4 values, parts up to 6; 2 keys, batches of 2; 3 stores that may disagree, 2 keys, one audit |
| `two_clients` | violates `Agreement` | 3 replicas, 2 benchmark processes, 1 write each |
| `majority` | violates `ExecutedByMajority` | 3 replicas, 2 workers, 2 writes in one batch, loss-free links that reorder |
| `full_batch` | violates `EveryWriteAnswered` | 3 replicas, 2 workers, 2 writes in one batch, ordered loss-free links |
| `quorum_put` | violates `MajorityWritten` | 4 replicas, calls that succeed |
| `scc` | violates `SCCsFound` | all graphs of 3 vertices |

`two_clients` is expected to fail. The repository's own specification says "No
two correct processes decide differently" (`src/tla/BigBFT.tla:251`); every
benchmark process numbers its writes from 0 and the number is the slot, so that
two processes make two commands compete for a slot, acknowledgements are counted
per slot, and replicas execute different commands there. All other runs and the
proofs about votes and writes have one client.

`majority` is expected to fail. "Majority quorum satisfied" says the comment of
`Majority` (`src/quorum.go:56`), but the test is `size >= n/2` and the set it
counts holds replicas other than the one that counts, of which the executing
replica need not be one: of three replicas a follower executes a command of a
Propose that has not reached it, on the Vote of a single replica, before any
majority has accepted it. The links of the run may let a Vote overtake a Propose
of another sender's; eight steps are enough. The same happens on links that keep
the order of every sender, with four writes and 31 steps. What does hold, on all
links, is `ExecutedCertified`.

`full_batch` is expected to fail. The repository's own specification says that
every leader finishes, `Termination` (`src/tla/BigBFT.tla:245`), and the WaitGroup
of a `Run` waits "for all generated keys to complete" (`src/benchmark.go:82`). But a
replica votes only when a Propose fills its batch of `Concurrency` commands, and a
slot it executes leaves the batch. In the run n1 leads slot 1 and n2 slot 0; n2 has
both commands first and votes. With three replicas one acknowledgement is enough:
n1 executes both slots on this Vote, and so does n3 before it has both Proposes.
Neither ever has a full batch, no Vote comes to n2, and it never answers the write
of slot 0, though no message is lost and the batch was full. With batches of one
this cannot happen, which is what `core_live` checks.

`quorum_put` is expected to fail. "QuorumPut concurrently write values to majority
of nodes" (`src/client.go:345`), but its loop starts `c.N/2` calls: half of an even
number of replicas, less than half of an odd one.

`scc` is expected to fail. "SCC find SCCs using Tarjan's algorithm"
(`src/lib/graph_scc.go:3`), but the loop of `strongConnect` takes the values of
the set of successors, all of them `struct{}{}`, and not its keys: it descends
into a vertex that is not in the graph and never into a successor. A graph of one
edge is enough. Nothing in the repository calls `SCC`.

### Observations

Modelling showed other places where the code does not do what a comment or a
name says. They are not runs; the properties above are stated so that they
exclude them, and the instance given shows each.

| what the code does | seen in |
|---|---|
| Writes that do not fill a batch of `Concurrency` commands are never voted for, and their workers wait forever | `full_batch` with one write |
| A replica whose proposals arrive after their slots were executed re-creates entries in `p.log` that nothing removes, and in `p.l`, where they count towards the next batch | `HandlePropose`; `LateInert` says what they cannot do |
| `Crash(0)` lasts forever; the comment says forever only for `t < 0` (`client.go:408`) | `FaultsEnd` and `FaultsBacked` without `forever` |
| A call of `Partition` that fails is logged and leaves its link uncut | `PartitionCuts` without `missed` |
| The timer of a crash ends a later, longer one | `CrashLasts` allows it while the longer crash's own timer waits |
| `Partition` cuts one direction: the nodes inside still send to those outside (`client.go:431`) | `PartitionCuts` with both directions |
| A message that `Send` is handing over leaves a node that has crashed since, and so do all in `t.send`; of those delayed by `Slow` any number does, and they overtake one another | `FaultsObeyed` without `kept` or `+ 1`, or without its conditions |
| An error of `Encode` is logged and its message lost: nothing sends it again (`transport.go:108`) | `Encode` of `Faults` |
| A sender whose peer starts too late gives up after 100 attempts and panics in the handler | `AllHandled` without `panicked` |
| Of two forwarded requests with the same command the first, if it still waits when the second comes, is never answered; the answers to a third stop `recv`, and with it the replica, for good, as entries of `forwards` are never removed | `ForwardsAnswered` without `replaced` and `Stuck` |
| Replicas that broadcast with full channels wait for each other forever | `AllHandled` without `CircularWait` |
| Two workers that overlap in `Next` send to the same replica or use an index out of range, which panics | `RoundRobin` without `~raced` |
| A read carries number 0, the slot of the first write, and never returns once it is executed | `GetNumber`; `Execute` executes a number once |
| Neither the client nor `handleRoot` has a timeout: a request that the replicas leave unanswered (see `full_batch`, or a leader's mark that `HandlePropose` clears, `consensus.go:146`, when several replicas get requests with one number, as from `PutMUL`) hangs for ever | `RequestsSent` and `Awaiting`, which promise no answer |
| `QuorumPut` does not notice that its calls have failed (`client.go:357`) | `AllHeard` with `answered = targets` for `QuorumPut` |
| A failed call makes `GetMUL`, `PutMUL` and `QuorumGet` wait forever; `LocalQuorumGet` always does; `GetMUL` mixes up values and headers | `OpReturns`, `Paired` without their conditions |
| `Run` never returns with a write ratio below one, after a failed write, or when its last writes do not fill a batch; `Load` gives every write the number -1 and never returns | `Returns` without its conditions |
| With a time limit a late answer meets a closed channel and panics | `Result`, third case |
| `Version` ignores its key (`db.go:144`); without `MultiVersion`, the default, all histories are empty and the audit always says yes | `DivergenceFound` with `MultiVersion = FALSE` |
| A client that asks the master early gets an empty configuration | `CopyAddrs` |
| A replica that registers twice counts as two: the configuration lacks a replica, which waits for ever | `CompleteConfig` and `AllAnswered` without `Twice` |
| `Cycle` ("the first cycle with vertices", `lib/graph.go:211`) returns the vertices on the way to the cycle as well | `Cycle`, used in `SearchesRight` |
| The last node of the hash ring gets no keys: `search` ends before it | `KeysMove` without its case for the tail |
| A zone or node above 65535 runs over the field next to it, and `ID` does not give it back | `BallotsGrow` without `Fits` |

### Bounds

The constants commented `bound` limit what clients and admins do; nothing else
limits a behaviour. They are chosen so that the cases in question happen:

* three replicas are the fewest with which a Vote overtakes a Propose; three
  writes and two workers leave one write outside a batch and let `p.l` be
  replaced while a reference to it is pending. The even number of replicas, where
  `n/2` and a majority differ most, is covered by the proofs.
* `transport` goes past the limit: with tcp a direction holds five messages (send
  channel, connection, receive channel, the hand of `node.recv`, `MessageChan`), and
  six requests each make the two replicas wait for each other forever, the
  `CircularWait` of `AllHandled`. The mutant of the run takes one of these places
  away, and the replicas stop with room left. With the code's 1024 slots the
  circle needs some thousand broadcasts in flight; the code has no other
  protection. The way of the scheme chan holds two messages more; it has fewer
  requests, since it is its order and its start that are in question. Two attempts
  stand for 100: the peer starts before the first, between two, or after the last.
* two overlapping injections are the fewest in which one timer clears what
  another call has set. Of three nodes a partition has two links to cut, so that
  one call of two may fail, or be made before the other. Duration 0 is the crash for good, 1 any
  other. Two messages are the fewest that overtake one another or leave a crashed
  node together; injections and messages share a bound of three (`MaxEvents`).
  One node sends and is injected at, and its link faults are about one other,
  which loses nothing, since `Partition` may make the others drop too and no
  property relates faults of different senders.
  After the last injection the clock goes on until no timer is due.
* three workers and four requests let a worker come round while two are waiting,
  and a channel of one latency fills; three stores are the fewest in which a
  short history could hide that two longer ones differ; a ring of two cells wraps
  around before it grows to four.
* five writes to two replicas go round twice, by two workers that lose each
  other's updates of `rr`; three forwarded requests with one command are the
  fewest that stop `recv`, and the fourth, with another, is one that suffers.
* four vertices are the fewest where breadth-first and depth-first order and a
  vertex pushed twice can all be told apart; four nodes give the ring a head, a
  tail and two between; 30 ticks are longer than the twenty the limiter may save
  and the burst after them; parts of up to 6 in fields of 4 values overflow by a
  bit.

Symmetry over the replicas is used in `core_batch`, `core_faulty` and
`majority`, which check no liveness; nothing compares identifiers. Deadlock
checking is off where the system may stop: all writes answered, all injections over, all connections
served.

### Fairness

A process does not stop while one of its goroutines can take a step: `Consensus`
assumes weak fairness of `Progress`, the next-state relation without lost messages,
`Transport` of `Next`, which has no faults, and replicas that start. What a process
waits for from elsewhere is not assumed: `Benchmark` assumes fairness of
`Progress`, to which answers and failures of writes do not belong; `Client` of
`Calls`, the steps of the workers up to the sending of a request, not of the
replicas' `Execute`; `Fanout` of `Passing`, what goroutines do once a call has
returned, not of calls. `Forward` assumes that what was forwarded is taken further
and answered, not that anybody forwards. In `MCProcesses` each assumption is about
the part in use. The Go scheduler gives more, fairness to each goroutine; the weaker
assumption is enough because a bounded number of requests makes finitely many
steps. The steps that issue requests are part of this, since they are the
benchmark's own loop. `Faults` assumes only that time passes, timers fire
and messages under way move on; nobody has to inject anything, or to end a
`Partition`. `Master` assumes fairness of the goroutine of each connection
and of the collector; no connection has to break.

## What is proved

For every set of replicas, number of clients and writes, batch size and kind of
link, not only for the instances above:

* `ConsensusProofs`, types: `TypeCorrect`, with `done[n]` filled exactly up to
  `execute[n]` and `sweep` within the log.
* `ConsensusProofs`, votes: for one client, `VotesSound`, and from it
  `ExecutedAreCertified` and `RepliesAreDurable`. Neither is inductive alone: an
  acknowledgement is a name in a set, and nothing in an entry says what its bearer
  accepted. `SoundVotes` follows the
  acknowledgement from `p.l` into the message, into the loop of `HandleVote` and
  into the entry, and says everywhere that the replica it names accepted exactly
  this command; that no replica counts itself; that a committed entry has a
  majority of such accepters even after `Reset` emptied its set. With one client a
  slot has one command, so that an acknowledgement of the slot is one of the
  command; the assumption `OneClient` is where `two_clients` fails. The proofs
  hold on lossy, reordering links.
* `ConsensusProofs`, writes: for one client, `WritesTraced`, and from it
  `OneReplicaHolds`, `LateIsInert`, `CommitsAreStable` and the refinement
  `ReplicasImplementLog`, on all links as well. That a write has one replica that
  can answer it is not inductive, since a Propose under way may still bring an
  entry of its slot to another replica, before or after the slot was executed.
  `Traced` therefore says where everything about a write is: what is logged,
  executed or proposed was accepted by somebody, and what was accepted was issued
  (`Known`); a request waits at one replica, and no replica has heard of its
  command (`Waiting`); an entry with a request is led here and nowhere else, is
  not executed or answered yet, and no Propose on its way can take it over
  (`LedOnce`); a write that was issued is answered, waits, or has an entry with
  its request (`Kept`); and what `p.l` holds of executed slots is less than a
  batch, so that it never fills a Vote (`FewLate`). For the
  refinement, executing the slots of an `Exec` is one step of `OrderedLog` per
  slot that no replica executed before, and every other action a stutter.
* `TransportProofs!ChainIsQueue`: the chain of channels between two replicas is a
  queue of `Links`, for any number of replicas and capacities, both schemes and
  whatever is sent. What is on the way from p to q is the concatenation of what
  each channel holds of p's messages; that taking a sender's messages out of a
  channel commutes with concatenation (`FromConcat`) is proved by induction, and
  then a step moves a message over the boundary between two neighbours, which
  leaves the concatenation alone. The invariant `LinkInv` says that a connection
  carries its sender's messages only, that no replica sends to itself and that
  with tcp nothing is in the channel which all senders share, so that `Decode`
  may go past it.
* `FaultsProofs`: types; `FaultsAreBacked`: a fault that is on has a goroutine
  that will end it, whatever overlaps, or is a crash for `t <= 0`; the action
  property `CrashesLast`, from the invariant that the longest crash asked of a node
  has its timer waiting until it is over (`UntilBacked`); `FaultsAreObeyed`, from an
  invariant on the messages under way (`InHand`): a node hands over one message at a
  time, so that what was encoded since its crash and what its channels hold exceed
  what they held at the crash by one message at most, and only while `Send` holds
  none; and what it holds has a higher number than all that waits or was encoded on
  the link; and `PartitionCutsOff`, from the invariant `Cutting`, which relates the
  calls `Partition` has made, has still to make or has seen fail to the flags they
  set and the timers they started. They hold for durations of any sign and channels
  of any capacity.
* `BenchmarkProofs`: `WritesAreNumbered`, `KeysInStep`, `WaitGroupCounts` and
  `ReturnIsComplete`, for any number of workers and any channel capacities. The
  last follows from the count of the WaitGroup: when `Wait` returns, nothing is in
  a channel or in the hands of a worker.
* `ClientProofs`: `Next` returns a replica; `IndexSettles`: the index is out
  of range only while some worker is about to bring it back; `LoadIsEven`, from
  the invariant that without a race the index is the number of writes sent,
  modulo the replicas (`InTurn`); and for `Fanout` `HeadersPaired` and
  `ReturnsHeard`, from an invariant that counts every answer once, in its
  goroutine, its channel or the caller's list (`Fanned`). For `Forward`,
  `UnreplacedIsFound`, that a forwarded request without an answer is the one that
  `recv` finds under its command unless another took its entry, and
  `RecvStopsAtThird`, that `recv` waits for good only after three requests with
  one command. Both follow from `Counted`: the answers a request has been given,
  the one it returned with, the one in its channel and the one in the hands of
  `recv`, are no more than the requests with its command whose answer has arrived,
  and each of those was forwarded.
* `DatabaseProofs`: `StoreIsCurrent`, `AlarmIsReal` and `DivergenceIsFound`. The
  audit's invariant is that what was read of a history is a beginning of what the
  replica has written (`ReadBefore`), which executing keeps because histories only
  grow; that histories which had parted when the audit began are still found
  apart by it (`ApartSeen`) needs `MultiVersion`, without which the audit sees
  nothing.
* `MasterProofs`: `ConfigurationComplete`, for any number of replicas and
  connections, from what the collector has of each registration (`Collected`) and
  that the configuration does not change once it was handed out (`Final`,
  `Handed`).
* `LibraryProofs`: `RingIntact` and `QueueIsFifo`, a refinement proof in which
  each step lemma shows how the i-th cell moves (the remainders are eliminated by
  one lemma, `NextCell`); `GraphMirrored`, that the two maps of a graph describe
  the same edges; `SearchesAreRight`, for every finite graph and any order of the
  maps; `LimiterKeepsRate`, from an invariant that relates what passed
  to the debt in `sleep`, asleep or awake; `FewKeysMove`, by where the loop of
  `Insert` stops and what `search` finds before and after; `FreeCommandsCommute`
  for two commands and, by induction over both batches, `FreeBatchesCommute`;
  `BallotsDoGrow`, for fields of any width; and `SCCsAreSingle`.
  `SearchesAreRight` has an invariant for each search. Of the breadth-first ones,
  `Broad`: what was visited is reachable, has a predecessor among what was taken
  from the queue, the earlier the sooner, and what those lead to is visited. Of
  `DFS`, `Deep` with `Waits`: what waits on the stack is reachable, and every
  successor of a result is a result or waits, above it only successors of later
  ones. Of `Cyclic` and `Cycle`, `Stacked` and `Settled`: the frames are a path
  through the grey vertices, and a black one leads to black ones only and not to
  itself. When a search returns, what it found contains its successors, hence is
  all there is to reach.
  `BallotsDoGrow` is arithmetic: the fields of a ballot are its remainders
  and quotients (`WordParts`, `NewBallotIs`), and the bitwise or of parts that do
  not overlap is their sum.
  `SCCsAreSingle` says for all graphs what the run `scc` finds for one: since
  every iteration of `strongConnect` goes to the value `struct{}{}`, there are
  never more than two calls, no lowlink is ever lowered (`Ascending`), and every
  vertex is returned by itself. `SCC` finds the strongly connected components of
  the graphs without edges and of no other.

The assumptions are those of the modules: finite, non-empty sets of replicas,
capacities of at least one, hashes that are numbers, `BitwiseOr`; and for
`SCCsAreSingle` that `struct{}{}` is no vertex. Where an induction over data
is needed, it goes by the least exception (`LeastNatural`), since the induction
theorems of the library take a predicate as parameter.

Only model-checked: the liveness properties (`EveryWriteAnswered`, `FaultsEnd`,
`AllHandled`, `Returns`, `RequestsSent`, `OpReturns`, `ForwardsAnswered`,
`AllAnswered`), which are out of the prover's reach. Every other property of a
passing run is a theorem. Of the expected violations only `scc` has a theorem,
`SCCsAreSingle`; the others are about particular histories.

## Abstractions and what is not modelled

* A goroutine that encodes the live map `p.l` reads it in one step. In Go the
  iteration may see a mixture, or the runtime may stop the process. The same
  holds for the unsynchronised maps of the socket. A stopped replica is one whose
  messages are all lost, which the lossy links contain.
* Values, keys and headers are left out wherever no property tells them apart;
  parsing and formatting of HTTP requests is left out.
* A sender that gives up dialling panics; what its peers then see of it is not in
  `Transport`, but in the lossy links of `Consensus`.

### Not modelled

* Configuration files, log output, flags, the shell's parsing, statistics: input
  and output, and sums of floating-point numbers for it.
* The scheme `udp`: datagrams may be lost, repeated and reordered, so that nothing
  of `Links` remains to be checked; what replicas do on such links is
  `core_faulty`.
* `Close`, `node.Retry`, `MulticastZone`, `MulticastQuorum`, the quorum functions
  other than those of `Consensus`, the policies, `Memberlist` beyond its `Reset`,
  `View` (a second packing like the ballot's), the locked sets and maps: nothing
  in the repository calls them, and each is a few assignments without a second
  actor, so that a property of theirs would restate them. The policy `ema` computes
  with floating-point numbers.
* `TCPcommunications.go`: its handlers have empty bodies.
* Strings of IDs and ballots, `HashRing.Next` and `String`: formatting.

## Plan

1. Compositions: `Consensus` over `Transport` with blocking sends, to see which
   batch sizes can block; `Benchmark` with `Client` and `Consensus`, to see which
   writes of a `Run` are answered.
2. Proofs to add: that the loops of `SCC` and of the searches end, for which the
   number of steps left would be a property of the kind the provers handle; the
   refinements of the compositions of 1.
