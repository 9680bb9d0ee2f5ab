------------------------------- MODULE Faults -------------------------------
(***************************************************************************)
(* Fault injection: the flags crash, drop, slow and flaky of a socket, the *)
(* timers that clear them (src/socket.go), the HTTP calls that set them     *)
(* (src/http.go) and the admin client that makes the calls (src/client.go). *)
(*                                                                         *)
(* Every injection starts a goroutine that sleeps and then clears the flag, *)
(* whatever was injected since.  Time is a clock in seconds; a timer fires  *)
(* when it is due or any time later.  The delay of a slow message is in     *)
(* milliseconds and unbounded, so that it may end at any time.              *)
(*                                                                         *)
(* A message passes through Send, the bounded channel t.send of its        *)
(* connection and the goroutine that encodes it (src/transport.go).        *)
(***************************************************************************)
EXTENDS Integers, FiniteSets, Sequences

CONSTANTS
    Node,        \* the replicas
    Durations,   \* the arguments t of the injections, in seconds
    Injectable,  \* which of "crash", "drop", "slow", "flaky", "partition"
    ChanBuffer,  \* config.ChanBufferSize, the capacity of t.send
    Senders,     \* bound: the nodes that send and that faults are injected at
    Targets,     \* bound: the nodes Drop, Slow and Flaky are given
    MaxTime,     \* bound: the end of the injections
    MaxCalls,    \* bound: injections
    MaxEvents    \* bound: injections and messages

ASSUME FaultNodes     == IsFiniteSet(Node) /\ Senders \cup Targets \subseteq Node
ASSUME FaultDurations == Durations \subseteq Int
ASSUME FaultBounds    == ChanBuffer \in Nat /\ MaxTime \in Nat /\ MaxCalls \in Nat
                            /\ MaxEvents \in Nat

Link     == {k \in Node \X Node : k[1] # k[2]}
FlagKind == {"drop", "slow", "flaky"}

\* A goroutine that will clear the crash flag of a node or a flag of a link;
\* no tells the goroutines of different injections apart.
Timer == [flag : FlagKind, link : Link, at : Int, no : Nat]
            \cup [flag : {"crash"}, node : Node, at : Int, no : Nat]

VARIABLES
    now,       \* the clock
    calls,     \* injections so far
    crash,     \* crash[n]: socket.crash of n
    flags,     \* flags[k]: the links (p, q) with the flag k at p for q
    timers,    \* goroutines waiting to clear a flag
    plan,      \* Drop calls the admin's Partition has still to make
    cut,       \* history: [inside, until] of the last Partition, or {}
    missed,    \* history: the links its failed calls were about
    drops,     \* history: drops[k], the Drops ever done on link k
    until,     \* history: until[n], the end of the longest crash asked of n
    forever,   \* history: nodes down since a Crash(t) with t <= 0
    slowed,    \* history: the links Slow was ever injected on
    sends,     \* messages given to Send so far; they are numbered
    handing,   \* messages past Send's first checks, not yet handed over
    delayed,   \* messages waiting for their slow timer
    queue,     \* queue[k]: t.send of link k
    wire,      \* history: wire[k], the messages encoded on the connection of k
    left,      \* history: left[k], those encoded since the sender crashed
    kept       \* history: kept[k], the length of t.send when it crashed

faults  == <<crash, flags, timers>>
asked   == <<plan, cut, missed, drops, until, forever, slowed>>
traffic == <<sends, handing, delayed, queue, wire, left, kept>>
vars    == <<now, calls, faults, asked, traffic>>

\* bound: what is injected ends before the clock does
InTime(t) == now + t <= MaxTime

\* bound: on injections and messages together
Spare == calls + sends < MaxEvents

Init == /\ now = 0 /\ calls = 0
        /\ crash = [n \in Node |-> FALSE]
        /\ flags = [k \in FlagKind |-> {}]
        /\ timers = {}
        /\ plan = {} /\ cut = {} /\ missed = {}
        /\ drops = [k \in Link |-> 0]
        /\ until = [n \in Node |-> 0]
        /\ forever = {} /\ slowed = {}
        /\ sends = 0 /\ handing = {} /\ delayed = {}
        /\ queue = [k \in Link |-> <<>>]
        /\ wire = [k \in Link |-> <<>>]
        /\ left = [k \in Link |-> 0]
        /\ kept = [k \in Link |-> 0]

OffTimer(k, link, t, no) ==    \* mutant: no timer for short injections
    IF t > 1 THEN {[flag |-> k, link |-> link, at |-> now + t, no |-> no]}
             ELSE {}

\* The timer Drop, Slow and Flaky start, whatever t is.
LinkTimer(k, link, t, no) ==
    {[flag |-> k, link |-> link, at |-> now + t, no |-> no]}

CrashTimerLate(n, t) ==    \* mutant: off by one
    IF t > 1 THEN {[flag |-> "crash", node |-> n, at |-> now + t, no |-> calls]}
             ELSE {}

CrashTimerEarly(n, t) ==   \* mutant: fires at once
    IF t > 0 THEN {[flag |-> "crash", node |-> n, at |-> now, no |-> calls]}
             ELSE {}

\* The timer Crash starts: none for t <= 0.
CrashTimer(n, t) ==
    IF t > 0 THEN {[flag |-> "crash", node |-> n, at |-> now + t, no |-> calls]}
             ELSE {}

-----------------------------------------------------------------------------
(* Injections *)

\* handleCrash and Crash(t).
Crash(n, t) ==
    /\ "crash" \in Injectable
    /\ Spare /\ calls < MaxCalls /\ InTime(t)
    /\ calls' = calls + 1
    /\ crash' = [crash EXCEPT ![n] = TRUE]
    /\ timers' = timers \cup CrashTimer(n, t)
    /\ until' = [until EXCEPT ![n] =
                   IF now + t > @ THEN now + t ELSE @]
    /\ forever' = forever \cup {x \in {n} : t <= 0}
    /\ left' = [k \in Link |-> IF k[1] = n /\ ~crash[n] THEN 0 ELSE left[k]]
    /\ kept' = [k \in Link |-> IF k[1] = n /\ ~crash[n] THEN Len(queue[k])
                                                        ELSE kept[k]]
    /\ UNCHANGED <<now, flags, plan, cut, missed, drops, slowed, sends, handing,
                   delayed, queue, wire>>

\* Drop(id, t), Slow(id, d, t) with d > 0, Flaky(id, p, t) with p > 0.
Inject(k, link, t) ==
    /\ k \in Injectable
    /\ Spare /\ calls < MaxCalls /\ InTime(t)
    /\ calls' = calls + 1
    /\ flags' = [flags EXCEPT ![k] = @ \cup {link}]
    /\ timers' = timers \cup LinkTimer(k, link, t, calls)
    /\ drops' = IF k = "drop" THEN [drops EXCEPT ![link] = @ + 1] ELSE drops
    /\ slowed' = slowed \cup {x \in {link} : k = "slow"}
    /\ UNCHANGED <<now, crash, plan, cut, missed, until, forever, traffic>>

\* mutant: the nodes inside are told to drop what they send
PartitionOutward(inside, t) ==
    /\ "partition" \in Injectable
    /\ Spare /\ calls < MaxCalls /\ InTime(t) /\ plan = {}
    /\ calls' = calls + 1
    /\ plan' = {[link |-> k, t |-> t, no |-> calls] :
                  k \in inside \X (Node \ inside)}
    /\ cut' = {[inside |-> inside, until |-> now + t]}
    /\ missed' = {}
    /\ UNCHANGED <<now, faults, drops, until, forever, slowed, traffic>>

\* Partition(t, nodes): every node outside is told, one HTTP call after the
\* other, to drop what it sends to the nodes inside.
Partition(inside, t) ==
    /\ "partition" \in Injectable
    /\ Spare /\ calls < MaxCalls /\ InTime(t) /\ plan = {}
    /\ calls' = calls + 1
    /\ plan' = {[link |-> k, t |-> t, no |-> calls] :
                  k \in (Node \ inside) \X inside}
    /\ cut' = {[inside |-> inside, until |-> now + t]}
    /\ missed' = {}
    /\ UNCHANGED <<now, faults, drops, until, forever, slowed, traffic>>

\* A call of a Partition: it reaches handleDrop, which calls Drop, or it fails,
\* and HTTPClient.Drop only logs the error.
PartitionDrop(d) ==
    /\ d \in plan
    /\ plan' = plan \ {d}
    /\ \/ /\ flags' = [flags EXCEPT !["drop"] = @ \cup {d.link}]
          /\ timers' = timers \cup LinkTimer("drop", d.link, d.t, d.no)
          /\ drops' = [drops EXCEPT ![d.link] = @ + 1]
          /\ UNCHANGED missed
       \/ /\ missed' = missed \cup {d.link}
          /\ UNCHANGED <<flags, timers, drops>>
    /\ UNCHANGED <<now, calls, crash, cut, until, forever, slowed, traffic>>

\* A goroutine wakes up and clears its flag.
Fire(tm) ==
    /\ tm \in timers
    /\ tm.at <= now
    /\ timers' = timers \ {tm}
    /\ \/ /\ tm.flag = "crash"
          /\ crash' = [crash EXCEPT ![tm.node] = FALSE]
          /\ forever' = forever \ {tm.node}
          /\ UNCHANGED flags
       \/ /\ tm.flag # "crash"
          /\ flags' = [flags EXCEPT ![tm.flag] = @ \ {tm.link}]
          /\ UNCHANGED <<crash, forever>>
    /\ UNCHANGED <<now, calls, plan, cut, missed, drops, until, slowed, traffic>>

\* A second passes; the clock stops at its bound when nothing is due later.
Tick == /\ now < MaxTime \/ \E tm \in timers : tm.at > now
        /\ now' = now + 1
        /\ UNCHANGED <<calls, faults, asked, traffic>>

-----------------------------------------------------------------------------
(* Messages *)

PassesDrop(link) == link \notin flags["drop"]   \* mutant: crash not looked at

\* Send(to, m) gets past the early returns for crash and drop.
Passes(link) == ~crash[link[1]] /\ link \notin flags["drop"]

\* Send up to its look at slow.  A node's handlers run on one goroutine: it sends
\* one message at a time, and may have to dial before it goes on.
Send(link) ==
    /\ Spare
    /\ \A x \in handing : x.link[1] # link[1]
    /\ sends' = sends + 1
    /\ \/ /\ ~Passes(link) \/ link \in flags["flaky"]
          /\ UNCHANGED handing
       \/ /\ Passes(link)
          /\ handing' = handing \cup {[link |-> link, no |-> sends]}
    /\ UNCHANGED <<now, calls, faults, asked, delayed, queue, wire, left, kept>>

\* t.Send(m), which waits while the channel is full, whatever was injected since
\* Send looked.
Enqueue(m) ==
    /\ Len(queue[m.link]) < ChanBuffer
    /\ queue' = [queue EXCEPT ![m.link] = Append(@, m.no)]

\* The rest of Send: a slow message is left to a goroutine.
HandOver(m) ==
    /\ m \in handing
    /\ handing' = handing \ {m}
    /\ \/ /\ m.link \in flags["slow"]
          /\ delayed' = delayed \cup {m}
          /\ UNCHANGED queue
       \/ /\ m.link \notin flags["slow"]
          /\ Enqueue(m)
          /\ UNCHANGED delayed
    /\ UNCHANGED <<now, calls, faults, asked, sends, wire, left, kept>>

\* The goroutine of a slow message hands it to the transport.
SendDelayed(m) ==
    /\ m \in delayed
    /\ delayed' = delayed \ {m}
    /\ Enqueue(m)
    /\ UNCHANGED <<now, calls, faults, asked, sends, handing, wire, left, kept>>

\* The goroutine of the connection takes the next message of t.send and encodes
\* it, or logs the error and goes on; it does not look at the flags.
Encode(k) ==
    /\ queue[k] # <<>>
    /\ queue' = [queue EXCEPT ![k] = Tail(@)]
    /\ \/ /\ wire' = [wire EXCEPT ![k] = Append(@, Head(queue[k]))]
          /\ left' = IF crash[k[1]] THEN [left EXCEPT ![k] = @ + 1] ELSE left
       \/ UNCHANGED <<wire, left>>
    /\ UNCHANGED <<now, calls, faults, asked, sends, handing, delayed, kept>>

Goroutines == \/ \E tm \in timers : Fire(tm)
              \/ \E m \in handing : HandOver(m)
              \/ \E m \in delayed : SendDelayed(m)
              \/ \E k \in Link : Encode(k)
              \/ Tick

Next == \/ \E n \in Senders, t \in Durations : Crash(n, t)
        \/ \E k \in FlagKind, link \in Link, t \in Durations :
              link[1] \in Senders /\ link[2] \in Targets /\ Inject(k, link, t)
        \/ \E inside \in SUBSET Node \ {{}, Node}, t \in Durations :
              Partition(inside, t)
        \/ \E d \in plan : PartitionDrop(d)
        \/ \E link \in Link : link[1] \in Senders /\ Send(link)
        \/ Goroutines

Spec == Init /\ [][Next]_vars

\* The clock goes on, the goroutines run and the sleeping ones wake up in the
\* end.  The admin need not inject anything nor end a Partition it began.
FairSpec == Spec /\ WF_vars(Goroutines)

-----------------------------------------------------------------------------
(* Properties *)

TypeOK == /\ now \in Nat /\ calls \in Nat /\ sends \in Nat
          /\ crash \in [Node -> BOOLEAN]
          /\ flags \in [FlagKind -> SUBSET Link]
          /\ timers \subseteq Timer
          /\ plan \subseteq [link : Link, t : Durations, no : Nat]
          /\ cut \subseteq [inside : SUBSET Node, until : Int]
          /\ missed \subseteq Link
          /\ drops \in [Link -> Nat]
          /\ until \in [Node -> Int]
          /\ forever \subseteq Node /\ slowed \subseteq Link
          /\ handing \subseteq [link : Link, no : Nat]
          /\ delayed \subseteq [link : Link, no : Nat]
          /\ queue \in [Link -> Seq(Nat)]
          /\ wire \in [Link -> Seq(Nat)]
          /\ left \in [Link -> Nat] /\ kept \in [Link -> Nat]

\* A fault that is on has a goroutine that will switch it off, however the
\* injections and their timers overlap, or is a crash with t <= 0 that no timer
\* of another crash has ended (Drop, Slow, Flaky, Crash).
FaultsBacked ==
    /\ \A k \in FlagKind : \A link \in flags[k] :
         \E tm \in timers : tm.flag = k /\ tm.link = link
    /\ \A n \in Node : crash[n] =>
         n \in forever \/ \E tm \in timers : tm.flag = "crash" /\ tm.node = n

\* When the injections are over every fault ends and stays ended, except that a
\* node asked to crash for t <= 0 seconds is down for good unless the timer of
\* another crash raised it after that (the timer goroutines, Crash).
FaultsEnd ==
    <>[](/\ \A k \in FlagKind : flags[k] = {}
         /\ \A n \in Node : crash[n] <=> n \in forever)

\* A node recovers before the end of the longest crash asked of it only by the
\* timer of another Crash: its own is then still waiting (Crash with t > 0).
CrashLasts ==
    [][\A n \in Node :
         crash[n] /\ ~crash'[n] /\ now < until[n]
           => \E tm \in timers' : /\ tm.flag = "crash" /\ tm.node = n
                                 /\ tm.at = until[n]]_vars

\* When a partition has made its calls, and as long as it lasts, Send lets nothing
\* pass from the nodes outside to those inside, on every link but those whose
\* call failed and those another Drop, of whose timer it knows nothing, was
\* injected on (Partition, Drop, Send).
PartitionCuts ==
    \A c \in cut : plan = {} /\ now < c.until =>
        \A k \in (Node \ c.inside) \X c.inside :
            k \in missed \/ drops[k] > 1 \/ ~Passes(k)

\* No link of n was ever slowed.
Prompt(n) == \A k \in slowed : k[1] # n

\* Send looks at the flags before it hands a message over, a slow message is
\* handed over later still, and what is in t.send is encoded in any case.  Yet a
\* node that crashes and was never slowed lets no more than that go, and one
\* message that was in Send: on one link at most, and there by at most one, more
\* is encoded than t.send held at the crash.  Messages overtake one another only
\* on links that were slowed (Send, Slow, Crash, Dial).
FaultsObeyed ==
    /\ \A k \in Link : crash[k[1]] /\ Prompt(k[1]) =>
         /\ left[k] <= kept[k] + 1
         /\ \A l \in Link :
              l[1] = k[1] /\ left[k] > kept[k] /\ left[l] > kept[l] => k = l
    /\ \A k \in Link \ slowed : \A i, j \in DOMAIN wire[k] :
         i < j => wire[k][i] < wire[k][j]
=============================================================================
