---------------------------- MODULE FaultsProofs ----------------------------
(***************************************************************************)
(* Proofs about Faults: no injected fault is left without the goroutine    *)
(* that ends it, what a crashed node still sends is bounded, and a          *)
(* partition cuts what it reached, for any nodes, durations and bounds.     *)
(***************************************************************************)
EXTENDS Faults, TLAPS

\* A timer that was just started is one of the timers of Timer (LinkTimer).
LEMMA LinkTimerType ==
    ASSUME NEW k \in FlagKind, NEW link \in Link, NEW t \in Durations,
           NEW no \in Nat, now \in Nat
    PROVE  /\ LinkTimer(k, link, t, no) \subseteq Timer
           /\ \E tm \in LinkTimer(k, link, t, no) : tm.flag = k /\ tm.link = link
BY FaultDurations DEF LinkTimer, Timer

\* The same of the timer of a crash, which there is when t > 0 (CrashTimer).
LEMMA CrashTimerType ==
    ASSUME NEW n \in Node, NEW t \in Durations,
           now \in Nat, calls \in Nat
    PROVE  /\ CrashTimer(n, t) \subseteq Timer
           /\ t > 0 => \E tm \in CrashTimer(n, t) : tm.flag = "crash" /\ tm.node = n
<1> DEFINE tm == [flag |-> "crash", node |-> n, at |-> now + t, no |-> calls]
<1>1. tm \in Timer /\ tm.flag = "crash" /\ tm.node = n
  BY FaultDurations DEF Timer
<1>2. CrashTimer(n, t) = IF t > 0 THEN {tm} ELSE {}
  BY DEF CrashTimer
<1> HIDE DEF tm
<1> QED BY <1>1, <1>2

\* Both ends of a link are nodes.
LEMMA LinkEnds == \A k \in Link : k[1] \in Node /\ k[2] \in Node
BY DEF Link

\* The links a partition cuts are links.
LEMMA LinksAcross ==
    \A inside \in SUBSET Node : (Node \ inside) \X inside \subseteq Link
BY DEF Link

\* A message handed to the transport joins t.send of its link (Send).
LEMMA EnqueueType ==
    ASSUME TypeOK, NEW m \in [link : Link, no : Nat], Enqueue(m)
    PROVE  queue' \in [Link -> Seq(Nat)]
BY DEF Enqueue, TypeOK

\* The clock, the flags, the timers and the plan of a partition keep their
\* types (all operations of a socket).
THEOREM FaultTypes == Spec => []TypeOK
<1>1. Init => TypeOK
  BY DEF Init, TypeOK, FlagKind
<1>2. TypeOK /\ [Next]_vars => TypeOK'
  <2> SUFFICES ASSUME TypeOK, [Next]_vars PROVE TypeOK'
    OBVIOUS
  <2> USE DEF TypeOK
  <2>1. ASSUME NEW n \in Node, NEW t \in Durations, Crash(n, t) PROVE TypeOK'
    <3>1. timers' \subseteq Timer
      BY <2>1, CrashTimerType DEF Crash
    <3>2. /\ now' \in Nat /\ calls' \in Nat /\ sends' \in Nat
          /\ crash' \in [Node -> BOOLEAN]
          /\ flags' \in [FlagKind -> SUBSET Link]
          /\ plan' \subseteq [link : Link, t : Durations, no : Nat]
          /\ cut' \subseteq [inside : SUBSET Node, until : Int]
          /\ missed' \subseteq Link /\ drops' \in [Link -> Nat]
          /\ forever' \subseteq Node /\ slowed' \subseteq Link
          /\ handing' \subseteq [link : Link, no : Nat]
          /\ delayed' \subseteq [link : Link, no : Nat]
          /\ queue' \in [Link -> Seq(Nat)]
          /\ wire' \in [Link -> Seq(Nat)]
      BY <2>1 DEF Crash
    <3>3. until' \in [Node -> Int]
      BY <2>1, FaultDurations DEF Crash
    <3>4. left' \in [Link -> Nat] /\ kept' \in [Link -> Nat]
      BY <2>1 DEF Crash
    <3> QED BY <3>1, <3>2, <3>3, <3>4
  <2>2. ASSUME NEW k \in FlagKind, NEW link \in Link, NEW t \in Durations,
               Inject(k, link, t)
        PROVE TypeOK'
    <3>1. timers' \subseteq Timer
      BY <2>2, LinkTimerType DEF Inject
    <3>2. drops' \in [Link -> Nat]
      BY <2>2 DEF Inject
    <3>3. /\ flags' \in [FlagKind -> SUBSET Link]
          /\ slowed' \subseteq Link
          /\ calls' \in Nat
      BY <2>2 DEF Inject
    <3>4. UNCHANGED <<now, crash, plan, cut, missed, until, forever, sends, handing,
                      delayed, queue, wire, left, kept>>
      BY <2>2 DEF Inject, traffic
    <3> QED BY <3>1, <3>2, <3>3, <3>4
  <2>3. ASSUME NEW inside \in SUBSET Node, NEW t \in Durations,
               Partition(inside, t)
        PROVE TypeOK'
    <3>1. plan' \subseteq [link : Link, t : Durations, no : Nat]
      BY <2>3, LinksAcross DEF Partition
    <3>2. cut' \subseteq [inside : SUBSET Node, until : Int]
      BY <2>3, FaultDurations DEF Partition
    <3>3. calls' \in Nat /\ missed' \subseteq Link
      BY <2>3 DEF Partition
    <3>4. UNCHANGED <<now, crash, flags, timers, drops, until, forever, slowed, sends,
                      handing, delayed, queue, wire, left, kept>>
      BY <2>3 DEF Partition, faults, traffic
    <3> QED BY <3>1, <3>2, <3>3, <3>4
  <2>4. ASSUME NEW link \in Link, Send(link) PROVE TypeOK'
    <3>1. handing' \subseteq [link : Link, no : Nat]
      BY <2>4 DEF Send
    <3>2. sends' \in Nat
      BY <2>4 DEF Send
    <3>3. UNCHANGED <<now, calls, crash, flags, timers, plan, cut, missed, drops,
                      until, forever, slowed, delayed, queue, wire, left, kept>>
      BY <2>4 DEF Send, faults, asked
    <3> QED BY <3>1, <3>2, <3>3
  <2>5. ASSUME NEW d \in plan, PartitionDrop(d) PROVE TypeOK'
    <3>1. d.link \in Link /\ d.t \in Durations /\ d.no \in Nat
      OBVIOUS
    <3>2. timers' \subseteq Timer
      BY <2>5, <3>1, LinkTimerType DEF PartitionDrop, FlagKind
    <3> DEFINE Fine == /\ flags' \in [FlagKind -> SUBSET Link]
                       /\ missed' \subseteq Link /\ drops' \in [Link -> Nat]
    <3>3. ASSUME /\ flags' = [flags EXCEPT !["drop"] = @ \cup {d.link}]
                 /\ drops' = [drops EXCEPT ![d.link] = @ + 1]
                 /\ missed' = missed
          PROVE  Fine
      <4>1. flags' \in [FlagKind -> SUBSET Link]
        BY <3>1, <3>3
      <4>2. drops' \in [Link -> Nat]
        BY <3>3
      <4> QED BY <3>3, <4>1, <4>2
    <3>4. ASSUME flags' = flags, drops' = drops, missed' = missed \cup {d.link}
          PROVE  Fine
      BY <3>1, <3>4
    <3>5. Fine
      BY <2>5, <3>3, <3>4 DEF PartitionDrop
    <3>6. /\ plan' \subseteq plan
          /\ UNCHANGED <<now, calls, crash, cut, until, forever, slowed, sends,
                         handing, delayed, queue, wire, left, kept>>
      BY <2>5 DEF PartitionDrop, traffic
    <3> QED BY <3>2, <3>5, <3>6
  <2>6. ASSUME NEW tm \in timers, Fire(tm) PROVE TypeOK'
    BY <2>6 DEF Fire, traffic
  <2>7. ASSUME NEW m \in delayed, SendDelayed(m) PROVE TypeOK'
    BY <2>7, EnqueueType DEF SendDelayed, faults, asked
  <2>8. CASE Tick
    <3>1. /\ now' = now + 1
          /\ UNCHANGED <<calls, crash, flags, timers, plan, cut, missed, drops, until,
                         forever, slowed, sends, handing, delayed, queue, wire, left,
                         kept>>
      BY <2>8 DEF Tick, faults, asked, traffic
    <3> QED BY <3>1
  <2>9. CASE UNCHANGED vars
    BY <2>9 DEF vars, faults, asked, traffic
  <2>10. ASSUME NEW m \in handing, HandOver(m) PROVE TypeOK'
    <3>1. queue' \in [Link -> Seq(Nat)] /\ delayed' \subseteq [link : Link, no : Nat]
      BY <2>10, EnqueueType DEF HandOver
    <3>2. /\ handing' \subseteq handing
          /\ UNCHANGED <<now, calls, crash, flags, timers, plan, cut, missed, drops,
                         until, forever, slowed, sends, wire, left, kept>>
      BY <2>10 DEF HandOver, faults, asked
    <3> QED BY <3>1, <3>2
  <2>11. ASSUME NEW k \in Link, Encode(k) PROVE TypeOK'
    <3>1. queue[k] \in Seq(Nat) /\ queue[k] # <<>>
      BY <2>11 DEF Encode
    <3>2. queue' \in [Link -> Seq(Nat)]
      BY <2>11, <3>1 DEF Encode
    <3>3. Head(queue[k]) \in Nat
      BY <3>1
    <3>4. [wire EXCEPT ![k] = Append(@, Head(queue[k]))] \in [Link -> Seq(Nat)]
      BY <3>3
    <3>5. [left EXCEPT ![k] = @ + 1] \in [Link -> Nat]
      OBVIOUS
    <3>7. wire' \in [Link -> Seq(Nat)]
      BY <2>11, <3>4 DEF Encode
    <3>8. left' \in [Link -> Nat]
      BY <2>11, <3>5 DEF Encode
    <3>6. UNCHANGED <<now, calls, crash, flags, timers, plan, cut, missed, drops,
                      until, forever, slowed, sends, handing, delayed, kept>>
      BY <2>11 DEF Encode, faults, asked
    <3> QED BY <3>2, <3>6, <3>7, <3>8
  <2> QED BY <2>1, <2>2, <2>3, <2>4, <2>5, <2>6, <2>7, <2>8, <2>9, <2>10, <2>11,
             FaultNodes DEF Next, Goroutines
<1> QED BY <1>1, <1>2, PTL DEF Spec

\* Starting more timers leaves every fault backed that was (Drop, Slow, Flaky,
\* Crash).
LEMMA BackedMore ==
    ASSUME FaultsBacked, timers \subseteq timers', forever \subseteq forever'
    PROVE  /\ \A k \in FlagKind : \A link \in flags[k] :
                \E tm \in timers' : tm.flag = k /\ tm.link = link
           /\ \A n \in Node : crash[n] =>
                \/ n \in forever'
                \/ \E tm \in timers' : tm.flag = "crash" /\ tm.node = n
BY DEF FaultsBacked

\* Every fault that is on has a goroutine that will switch it off, or is a crash
\* with t <= 0 (Drop, Slow, Flaky, Crash).
THEOREM FaultsAreBacked == Spec => []FaultsBacked
<1>1. Init => FaultsBacked
  BY DEF Init, FaultsBacked
<1>2. TypeOK /\ FaultsBacked /\ [Next]_vars => FaultsBacked'
  <2> SUFFICES ASSUME TypeOK, FaultsBacked, [Next]_vars PROVE FaultsBacked'
    OBVIOUS
  <2>0. /\ now \in Nat /\ calls \in Nat
        /\ crash \in [Node -> BOOLEAN] /\ flags \in [FlagKind -> SUBSET Link]
        /\ timers \subseteq Timer
    BY DEF TypeOK
  <2>1. ASSUME NEW n \in Node, NEW t \in Durations, Crash(n, t) PROVE FaultsBacked'
    <3>1. timers \subseteq timers' /\ forever \subseteq forever'
      BY <2>1 DEF Crash
    <3>2. t > 0 => \E tm \in timers' : tm.flag = "crash" /\ tm.node = n
      BY <2>0, <2>1, CrashTimerType DEF Crash
    <3>3. ~(t > 0) => n \in forever'
      BY <2>1, FaultDurations DEF Crash
    <3> QED BY <2>0, <2>1, <3>1, <3>2, <3>3, BackedMore DEF Crash, FaultsBacked
  <2>2. ASSUME NEW k \in FlagKind, NEW link \in Link, NEW t \in Durations,
               Inject(k, link, t)
        PROVE FaultsBacked'
    <3>1. timers \subseteq timers' /\ forever' = forever
      BY <2>2 DEF Inject
    <3>2. \E tm \in timers' : tm.flag = k /\ tm.link = link
      BY <2>0, <2>2, LinkTimerType DEF Inject
    <3> QED BY <2>0, <2>2, <3>1, <3>2, BackedMore DEF Inject, FaultsBacked
  <2>3. ASSUME NEW inside \in SUBSET Node, NEW t \in Durations,
               Partition(inside, t)
        PROVE FaultsBacked'
    BY <2>3 DEF Partition, faults, FaultsBacked
  <2>4. ASSUME NEW link \in Link, Send(link) PROVE FaultsBacked'
    BY <2>4 DEF Send, faults, asked, FaultsBacked
  <2>5. ASSUME NEW d \in plan, PartitionDrop(d) PROVE FaultsBacked'
    <3>1. d.link \in Link /\ d.t \in Durations /\ d.no \in Nat
      BY DEF TypeOK
    <3>2. timers \subseteq timers' /\ forever' = forever /\ crash' = crash
      BY <2>5 DEF PartitionDrop
    <3>3. CASE flags' = flags
      BY <3>2, <3>3, BackedMore DEF FaultsBacked
    <3>4. CASE /\ flags' = [flags EXCEPT !["drop"] = @ \cup {d.link}]
               /\ timers' = timers \cup LinkTimer("drop", d.link, d.t, d.no)
      <4>1. \E tm \in timers' : tm.flag = "drop" /\ tm.link = d.link
        BY <2>0, <3>1, <3>4, LinkTimerType DEF FlagKind
      <4> QED BY <2>0, <3>2, <3>4, <4>1, BackedMore DEF FaultsBacked
    <3> QED BY <2>5, <3>3, <3>4 DEF PartitionDrop
  <2>6. ASSUME NEW tm \in timers, Fire(tm) PROVE FaultsBacked'
    <3>1. CASE tm.flag = "crash"
      <4>1. tm.node \in Node
        BY <2>0, <3>1 DEF Timer, FlagKind
      <4> QED BY <2>0, <2>6, <3>1, <4>1 DEF Fire, FaultsBacked, FlagKind
    <3>2. CASE tm.flag # "crash"
      <4>1. tm.flag \in FlagKind
        BY <2>0, <3>2 DEF Timer
      <4> QED BY <2>0, <2>6, <3>2, <4>1 DEF Fire, FaultsBacked, FlagKind
    <3> QED BY <3>1, <3>2
  <2>7. CASE \/ \E m \in handing : HandOver(m)
             \/ \E m \in delayed : SendDelayed(m)
             \/ \E k \in Link : Encode(k)
             \/ Tick
             \/ UNCHANGED vars
    BY <2>7 DEF HandOver, SendDelayed, Encode, Tick, vars, faults, asked, FaultsBacked
  <2> QED BY <2>1, <2>2, <2>3, <2>4, <2>5, <2>6, <2>7, FaultNodes DEF Next, Goroutines
<1> QED BY <1>1, <1>2, FaultTypes, PTL DEF Spec

\* The end of the longest crash asked of n is in the past or has its timer: what
\* CrashLasts needs to be carried from step to step (Crash).
UntilBacked ==
    \A n \in Node : now < until[n] =>
        \E tm \in timers : tm.flag = "crash" /\ tm.node = n /\ tm.at = until[n]

\* The timer of a crash that lasts longer than now survives every step.
LEMMA UntilInductive == TypeOK /\ UntilBacked /\ [Next]_vars => UntilBacked'
<1> SUFFICES ASSUME TypeOK, UntilBacked, [Next]_vars, NEW m \in Node,
                    now' < until'[m]
             PROVE  \E tm \in timers' : /\ tm.flag = "crash" /\ tm.node = m
                                        /\ tm.at = until'[m]
  BY DEF UntilBacked
<1> USE DEF TypeOK
<1>1. ASSUME timers \subseteq timers', now \in Nat, now' \in Nat, now <= now',
             until'[m] = until[m]
      PROVE  \E tm \in timers' : /\ tm.flag = "crash" /\ tm.node = m
                                 /\ tm.at = until'[m]
  <2>1. until[m] \in Int
    OBVIOUS
  <2>2. now < until[m]
    BY <1>1, <2>1
  <2> QED BY <1>1, <2>2 DEF UntilBacked
<1>2. ASSUME NEW n \in Node, NEW t \in Durations, Crash(n, t)
      PROVE  \E tm \in timers' : /\ tm.flag = "crash" /\ tm.node = m
                                 /\ tm.at = until'[m]
  <2>1. CASE m = n /\ now + t > until[n]
    <3>1. until'[m] = now + t /\ now' = now
      BY <1>2, <2>1 DEF Crash
    <3>2. t > 0
      BY <3>1, FaultDurations
    <3> DEFINE new == [flag |-> "crash", node |-> n, at |-> now + t, no |-> calls]
    <3>3. new \in timers'
      BY <1>2, <3>2 DEF Crash, CrashTimer
    <3>4. new.flag = "crash" /\ new.node = m /\ new.at = now + t
      BY <2>1
    <3> HIDE DEF new
    <3> QED BY <3>1, <3>3, <3>4
  <2>2. CASE ~(m = n /\ now + t > until[n])
    <3>1. until'[m] = until[m]
      BY <1>2, <2>2 DEF Crash
    <3>2. timers \subseteq timers' /\ now' = now
      BY <1>2 DEF Crash
    <3> QED BY <1>1, <3>1, <3>2
  <2> QED BY <2>1, <2>2
<1>3. ASSUME NEW tm \in timers, Fire(tm)
      PROVE  \E x \in timers' : /\ x.flag = "crash" /\ x.node = m
                                /\ x.at = until'[m]
  <2>1. now < until[m] /\ until'[m] = until[m]
    BY <1>3 DEF Fire
  <2>2. PICK x \in timers : x.flag = "crash" /\ x.node = m /\ x.at = until[m]
    BY <2>1 DEF UntilBacked
  <2>3. x # tm
    BY <1>3, <2>1, <2>2 DEF Fire
  <2>4. x \in timers'
    BY <1>3, <2>3 DEF Fire
  <2> QED BY <2>1, <2>2, <2>4
<1>4. ASSUME NEW k \in FlagKind, NEW link \in Link, NEW t \in Durations,
             Inject(k, link, t)
      PROVE  timers \subseteq timers' /\ now' = now /\ until' = until
  BY <1>4 DEF Inject
<1>5. ASSUME NEW inside \in SUBSET Node, NEW t \in Durations,
             Partition(inside, t)
      PROVE  timers' = timers /\ now' = now /\ until' = until
  BY <1>5 DEF Partition, faults
<1>6. ASSUME NEW d \in plan, PartitionDrop(d)
      PROVE  timers \subseteq timers' /\ now' = now /\ until' = until
  BY <1>6 DEF PartitionDrop
<1>7. ASSUME Tick PROVE timers' = timers /\ now' = now + 1 /\ until' = until
  BY <1>7 DEF Tick, faults, asked
<1>8. CASE \/ \E link \in Link : Send(link)
           \/ \E x \in handing : HandOver(x)
           \/ \E x \in delayed : SendDelayed(x)
           \/ \E k \in Link : Encode(k)
           \/ UNCHANGED vars
  <2>1. timers' = timers /\ now' = now /\ until' = until
    BY <1>8 DEF Send, HandOver, SendDelayed, Encode, vars, faults, asked
  <2> QED BY <1>1, <2>1
<1> QED BY <1>1, <1>2, <1>3, <1>4, <1>5, <1>6, <1>7, <1>8, FaultNodes
       DEF Next, Goroutines

\* No node recovers from a crash before its end except by the timer of another
\* one, whatever injections overlap (Crash).
THEOREM CrashesLast == Spec => CrashLasts
<1> DEFINE Step == \A n \in Node :
              crash[n] /\ ~crash'[n] /\ now < until[n]
              => \E tm \in timers' : /\ tm.flag = "crash" /\ tm.node = n
                                    /\ tm.at = until[n]
<1>1. Init => UntilBacked
  BY DEF Init, UntilBacked
<1>2. TypeOK /\ TypeOK' /\ UntilBacked /\ UntilBacked' /\ [Next]_vars => [Step]_vars
  <2> SUFFICES ASSUME TypeOK, UntilBacked, Next, NEW n \in Node,
                      crash[n], ~crash'[n], now < until[n]
               PROVE  \E tm \in timers' : /\ tm.flag = "crash" /\ tm.node = n
                                          /\ tm.at = until[n]
    OBVIOUS
  <2>1. PICK x \in timers : x.flag = "crash" /\ x.node = n /\ x.at = until[n]
    BY DEF UntilBacked
  <2>2. \A tm \in timers : Fire(tm) => x \in timers'
    <3> SUFFICES ASSUME NEW tm \in timers, Fire(tm) PROVE x \in timers'
      OBVIOUS
    <3>1. x # tm
      BY <2>1 DEF Fire, TypeOK
    <3> QED BY <3>1 DEF Fire
  <2>3. (\E tm \in timers : Fire(tm)) \/ crash' = crash
          \/ \E m \in Node, t \in Durations : Crash(m, t)
    BY FaultNodes DEF Next, Goroutines, Inject, Partition, Send, PartitionDrop,
       HandOver, SendDelayed, Encode, Tick, faults
  <2>4. ASSUME NEW m \in Node, NEW t \in Durations, Crash(m, t) PROVE FALSE
    BY <2>4 DEF Crash, TypeOK
  <2> QED BY <2>1, <2>2, <2>3, <2>4
<1>3. CrashLasts <=> [][Step]_vars
  BY PTL DEF CrashLasts
<1> QED BY <1>1, <1>2, <1>3, FaultTypes, UntilInductive, PTL DEF Spec

-----------------------------------------------------------------------------
(* FaultsObeyed *)

\* Only slowed links have delayed messages; a node hands over one message at a
\* time, and messages are numbered in the order they were given to Send (Send).
HandedOver ==
    /\ flags["slow"] \subseteq slowed
    /\ \A m \in delayed : m.link \in slowed
    /\ \A x, y \in handing : x.link[1] = y.link[1] => x = y
    /\ \A m \in handing : m.no < sends

\* More left link k since its sender crashed, or still will, than was in t.send.
Over(k) == left[k] + Len(queue[k]) > kept[k]

\* A prompt node that crashed is over on one link at most, by one message, and
\* then Send holds no other from before the crash (Send, Dial).
Counted ==
    \A k \in Link : crash[k[1]] /\ Prompt(k[1]) =>
        /\ left[k] + Len(queue[k]) <= kept[k] + 1
        /\ Over(k) => /\ \A m \in handing : m.link[1] # k[1]
                      /\ \A l \in Link : l[1] = k[1] /\ Over(l) => l = k

Increasing(q) == \A i, j \in DOMAIN q : i < j => q[i] < q[j]

Below(q, x) == \A i \in DOMAIN q : q[i] < x

\* On a link that was never slowed, what was encoded comes before what is in
\* t.send, and that before what Send hands over (Send, Dial).
Ordered ==
    \A k \in Link \ slowed :
        /\ Increasing(wire[k]) /\ Increasing(queue[k])
        /\ \A i \in DOMAIN queue[k] : Below(wire[k], queue[k][i])
        /\ Below(wire[k], sends) /\ Below(queue[k], sends)
        /\ \A m \in handing : m.link = k => Below(wire[k], m.no) /\ Below(queue[k], m.no)

InHand == HandedOver /\ Counted /\ Ordered

\* A step that changes neither the messages nor what they may overtake.
LEMMA InHandKept ==
    ASSUME InHand, flags'["slow"] \subseteq slowed', slowed \subseteq slowed',
           crash' = crash, UNCHANGED traffic
    PROVE  InHand'
<1>1. UNCHANGED <<sends, handing, delayed, queue, wire, left, kept>>
  BY DEF traffic
<1>2. HandedOver'
  BY <1>1 DEF InHand, HandedOver
<1>3. \A n \in Node : Prompt(n)' => Prompt(n)
  BY DEF Prompt
<1>4. Counted'
  BY <1>1, <1>3, LinkEnds DEF InHand, Counted, Over
<1>5. Ordered'
  BY <1>1 DEF InHand, Ordered, Increasing, Below
<1> QED BY <1>2, <1>4, <1>5 DEF InHand

\* Crash of a node that is up starts the counts of its links afresh (Crash).
LEMMA InHandCrash ==
    ASSUME TypeOK, InHand, NEW n \in Node, NEW t \in Durations, Crash(n, t)
    PROVE  InHand'
<1>1. UNCHANGED <<flags, slowed, sends, handing, delayed, queue, wire>>
  BY DEF Crash
<1>2. \A k \in Link :
        /\ k[1] = n /\ ~crash[n] => left'[k] = 0 /\ kept'[k] = Len(queue[k])
        /\ k[1] # n \/ crash[n] => /\ left'[k] = left[k] /\ kept'[k] = kept[k]
                                   /\ crash'[k[1]] = crash[k[1]]
  BY LinkEnds DEF Crash, TypeOK
<1>3. \A k \in Link : Len(queue[k]) \in Nat
  BY DEF TypeOK
<1>4. \A m \in Node : Prompt(m)' = Prompt(m)
  BY <1>1 DEF Prompt
<1>5. \A k \in Link : k[1] = n /\ ~crash[n] =>
        Over(k)' = FALSE /\ left'[k] + Len(queue'[k]) <= kept'[k] + 1
  BY <1>1, <1>2, <1>3 DEF Over
<1>6. \A k \in Link : k[1] # n \/ crash[n] => Over(k)' = Over(k)
  BY <1>1, <1>2 DEF Over
<1>7. Counted'
  <2> SUFFICES ASSUME NEW k \in Link, crash'[k[1]], Prompt(k[1])'
               PROVE  /\ left'[k] + Len(queue'[k]) <= kept'[k] + 1
                      /\ Over(k)' => /\ \A m \in handing' : m.link[1] # k[1]
                                     /\ \A l \in Link : l[1] = k[1] /\ Over(l)' => l = k
    BY DEF Counted
  <2>1. CASE k[1] = n /\ ~crash[n]
    BY <1>5, <2>1
  <2>2. CASE k[1] # n \/ crash[n]
    <3>1. crash[k[1]] /\ Prompt(k[1])
      BY <1>2, <1>4, <2>2, LinkEnds
    <3> QED BY <1>1, <1>2, <1>6, <2>2, <3>1 DEF InHand, Counted
  <2> QED BY <2>1, <2>2
<1>8. HandedOver' /\ Ordered'
  BY <1>1 DEF InHand, HandedOver, Ordered, Increasing, Below
<1> QED BY <1>7, <1>8 DEF InHand

\* A timer may end a crash and a slow link (Fire).
LEMMA InHandFire ==
    ASSUME TypeOK, InHand, NEW tm \in timers, Fire(tm)
    PROVE  InHand'
<1>1. UNCHANGED <<slowed, sends, handing, delayed, queue, wire, left, kept>>
  BY DEF Fire, traffic
<1>2. \A m \in Node : crash'[m] => crash[m]
  <2>1. crash \in [Node -> BOOLEAN]
    BY DEF TypeOK
  <2> QED BY <2>1 DEF Fire
<1>3. flags'["slow"] \subseteq flags["slow"]
  <2>1. flags \in [FlagKind -> SUBSET Link] /\ "slow" \in FlagKind
    BY DEF TypeOK, FlagKind
  <2> QED BY <2>1 DEF Fire
<1>4. \A m \in Node : Prompt(m)' = Prompt(m)
  BY <1>1 DEF Prompt
<1>5. Counted'
  BY <1>1, <1>2, <1>4, LinkEnds DEF InHand, Counted, Over
<1>6. HandedOver' /\ Ordered'
  BY <1>1, <1>3 DEF InHand, HandedOver, Ordered, Increasing, Below
<1> QED BY <1>5, <1>6 DEF InHand

\* Send takes a message in hand only when its node has none and is up (Send).
LEMMA InHandSend ==
    ASSUME TypeOK, InHand, NEW link \in Link, Send(link)
    PROVE  InHand'
<1>1. UNCHANGED <<flags, slowed, crash, delayed, queue, wire, left, kept>>
  BY DEF Send, faults, asked
<1>2. /\ sends \in Nat /\ sends' = sends + 1
      /\ \A k \in Link : /\ \A i \in DOMAIN wire[k] : wire[k][i] \in Nat
                         /\ \A i \in DOMAIN queue[k] : queue[k][i] \in Nat
  <2>1. sends \in Nat /\ sends' = sends + 1
    BY DEF Send, TypeOK
  <2>2. \A k \in Link : wire[k] \in Seq(Nat) /\ queue[k] \in Seq(Nat)
    BY DEF TypeOK
  <2> QED BY <2>1, <2>2
<1>3. \A n \in Node : Prompt(n)' = Prompt(n)
  BY <1>1 DEF Prompt
<1> DEFINE m == [link |-> link, no |-> sends]
<1>4. m.link = link /\ m.no = sends
  OBVIOUS
<1>5. \/ handing' = handing
      \/ handing' = handing \cup {m} /\ ~crash[link[1]]
  BY DEF Send, Passes
<1>6. \A x \in handing : x.link[1] # link[1] /\ x.no \in Nat
  BY DEF Send, TypeOK
<1> HIDE DEF m
<1>7. HandedOver'
  BY <1>1, <1>2, <1>4, <1>5, <1>6 DEF InHand, HandedOver
<1>8. Counted'
  BY <1>1, <1>3, <1>4, <1>5, LinkEnds DEF InHand, Counted, Over
<1>9. \A k \in Link \ slowed : Below(wire[k], sends') /\ Below(queue[k], sends')
  BY <1>2 DEF InHand, Ordered, Below
<1>10. \A k \in Link \ slowed : \A x \in handing' : x.link = k =>
         Below(wire[k], x.no) /\ Below(queue[k], x.no)
  BY <1>4, <1>5 DEF InHand, Ordered
<1>11. Ordered'
  BY <1>1, <1>9, <1>10 DEF InHand, Ordered, Increasing, Below
<1> QED BY <1>7, <1>8, <1>11 DEF InHand

\* What joins an increasing sequence at its end (Send).
LEMMA AppendOrdered ==
    ASSUME NEW q \in Seq(Nat), NEW x \in Nat, Increasing(q), Below(q, x)
    PROVE  /\ Increasing(Append(q, x))
           /\ Append(q, x) \in Seq(Nat)
           /\ \A i \in DOMAIN Append(q, x) : Append(q, x)[i] = x \/ 
                \E j \in DOMAIN q : Append(q, x)[i] = q[j]
BY DEF Increasing, Below

\* What is left when the first of an increasing sequence is taken (Dial).
LEMMA TailOrdered ==
    ASSUME NEW q \in Seq(Nat), q # <<>>, Increasing(q)
    PROVE  /\ Increasing(Tail(q)) /\ Tail(q) \in Seq(Nat)
           /\ Len(q) = Len(Tail(q)) + 1 /\ Len(Tail(q)) \in Nat
           /\ 1 \in DOMAIN q /\ Head(q) = q[1] /\ q[1] \in Nat
           /\ \A i \in DOMAIN Tail(q) : Tail(q)[i] = q[i + 1] /\ i + 1 \in DOMAIN q
                                        /\ Head(q) < Tail(q)[i]
BY DEF Increasing

\* t.send of a link gets a message in hand (Send).
LEMMA EnqueueAppends ==
    ASSUME TypeOK, NEW m \in [link : Link, no : Nat], Enqueue(m), NEW k \in Link
    PROVE  /\ k # m.link => queue'[k] = queue[k]
           /\ k = m.link => /\ queue'[k] = Append(queue[k], m.no)
                            /\ Len(queue'[k]) = Len(queue[k]) + 1
           /\ queue[k] \in Seq(Nat) /\ Len(queue[k]) \in Nat
BY DEF Enqueue, TypeOK

\* The message in hand becomes a delayed one or joins t.send (Send).
LEMMA InHandOver ==
    ASSUME TypeOK, InHand, NEW m \in handing, HandOver(m)
    PROVE  InHand'
<1>1. UNCHANGED <<flags, slowed, crash, sends, wire, left, kept>>
  BY DEF HandOver, faults, asked
<1>2. /\ handing' = handing \ {m} /\ m \in [link : Link, no : Nat] /\ sends \in Nat
      /\ left \in [Link -> Nat] /\ kept \in [Link -> Nat] /\ wire \in [Link -> Seq(Nat)]
  BY DEF HandOver, TypeOK
<1>3. \A n \in Node : Prompt(n)' = Prompt(n)
  BY <1>1 DEF Prompt
<1>4. /\ \A x, y \in handing' : x.link[1] = y.link[1] => x = y
      /\ \A x \in handing' : x.no < sends /\ x.link # m.link
      /\ \A x \in handing' : x.link[1] # m.link[1]
  BY <1>2 DEF InHand, HandedOver
<1>5. CASE m.link \in flags["slow"]
  <2>1. delayed' = delayed \cup {m} /\ queue' = queue
    BY <1>5 DEF HandOver
  <2>2. m.link \in slowed
    BY <1>5 DEF InHand, HandedOver
  <2>3. HandedOver'
    BY <1>1, <1>4, <2>1, <2>2 DEF InHand, HandedOver
  <2>4. Counted'
    BY <1>1, <1>2, <1>3, <2>1, LinkEnds DEF InHand, Counted, Over
  <2>5. Ordered'
    BY <1>1, <1>2, <2>1 DEF InHand, Ordered, Increasing, Below
  <2> QED BY <2>3, <2>4, <2>5 DEF InHand
<1>6. CASE m.link \notin flags["slow"]
  <2>1. delayed' = delayed /\ Enqueue(m)
    BY <1>6 DEF HandOver
  <2>2. HandedOver'
    BY <1>1, <1>4, <2>1 DEF InHand, HandedOver
  <2>3. \A k \in Link :
          /\ k # m.link => queue'[k] = queue[k] /\ Over(k)' = Over(k)
          /\ k = m.link => /\ queue'[k] = Append(queue[k], m.no)
                           /\ Len(queue'[k]) = Len(queue[k]) + 1
          /\ queue[k] \in Seq(Nat) /\ Len(queue[k]) \in Nat
    BY <1>1, <1>2, <2>1, EnqueueAppends DEF Over
  <2>4. Counted'
    <3> SUFFICES ASSUME NEW k \in Link, crash[k[1]], Prompt(k[1])
                 PROVE  /\ left[k] + Len(queue'[k]) <= kept[k] + 1
                        /\ Over(k)' =>
                             /\ \A x \in handing' : x.link[1] # k[1]
                             /\ \A l \in Link : l[1] = k[1] /\ Over(l)' => l = k
      BY <1>1, <1>3, LinkEnds DEF Counted
    <3>1. CASE k[1] # m.link[1]
      <4>1. \A l \in Link : l[1] = k[1] => Over(l)' = Over(l) /\ queue'[l] = queue[l]
        BY <2>3, <3>1
      <4> QED BY <1>2, <4>1 DEF InHand, Counted
    <3>2. CASE k[1] = m.link[1]
      <4>1. \A l \in Link : l[1] = k[1] => ~Over(l)
        BY <3>2 DEF InHand, Counted
      <4>2. \A l \in Link : l[1] = k[1] /\ Over(l)' => l = m.link
        BY <2>3, <4>1
      <4>3. left[k] + Len(queue[k]) <= kept[k] /\ left[k] \in Nat /\ kept[k] \in Nat
        BY <1>2, <2>3, <4>1 DEF Over
      <4>4. left[k] + Len(queue'[k]) <= kept[k] + 1
        BY <2>3, <4>3
      <4> QED BY <1>4, <3>2, <4>2, <4>4
    <3> QED BY <3>1, <3>2
  <2>5. Ordered'
    <3> SUFFICES ASSUME NEW k \in Link \ slowed
                 PROVE  /\ Increasing(wire[k]) /\ Increasing(queue'[k])
                        /\ \A i \in DOMAIN queue'[k] : Below(wire[k], queue'[k][i])
                        /\ Below(wire[k], sends) /\ Below(queue'[k], sends)
                        /\ \A x \in handing' : x.link = k =>
                             Below(wire[k], x.no) /\ Below(queue'[k], x.no)
      BY <1>1 DEF Ordered, Increasing, Below
    <3>1. CASE k # m.link
      BY <1>2, <2>3, <3>1 DEF InHand, Ordered
    <3>2. CASE k = m.link
      <4>1. /\ Increasing(queue[k]) /\ Below(queue[k], m.no) /\ Below(wire[k], m.no)
            /\ \A i \in DOMAIN queue[k] : Below(wire[k], queue[k][i])
            /\ Increasing(wire[k]) /\ Below(wire[k], sends) /\ Below(queue[k], sends)
            /\ m.no < sends /\ m.no \in Nat
        BY <1>2, <3>2 DEF InHand, Ordered, HandedOver
      <4>2. /\ Increasing(queue'[k])
            /\ \A i \in DOMAIN queue'[k] :
                 queue'[k][i] = m.no \/ \E j \in DOMAIN queue[k] : queue'[k][i] = queue[k][j]
        <5>1. queue'[k] = Append(queue[k], m.no) /\ queue[k] \in Seq(Nat)
          BY <2>3, <3>2
        <5> QED BY <4>1, <5>1, AppendOrdered
      <4>3. Below(queue'[k], sends)
        BY <4>1, <4>2 DEF Below
      <4>4. \A i \in DOMAIN queue'[k] : Below(wire[k], queue'[k][i])
        BY <4>1, <4>2
      <4> QED BY <1>4, <3>2, <4>1, <4>2, <4>3, <4>4
    <3> QED BY <3>1, <3>2
  <2> QED BY <2>2, <2>4, <2>5 DEF InHand
<1> QED BY <1>5, <1>6

\* A delayed message belongs to a slowed link, of which nothing is said (Slow).
LEMMA InHandDelayed ==
    ASSUME TypeOK, InHand, NEW m \in delayed, SendDelayed(m)
    PROVE  InHand'
<1>1. UNCHANGED <<flags, slowed, crash, sends, handing, wire, left, kept>> /\ Enqueue(m)
  BY DEF SendDelayed, faults, asked
<1>2. delayed' \subseteq delayed /\ m \in [link : Link, no : Nat] /\ m.link \in slowed
  BY DEF SendDelayed, TypeOK, InHand, HandedOver
<1>3. \A k \in Link : k # m.link => queue'[k] = queue[k] /\ Over(k)' = Over(k)
  BY <1>1, <1>2, EnqueueAppends DEF Over
<1>4. \A n \in Node : Prompt(n)' = Prompt(n)
  BY <1>1 DEF Prompt
<1>5. \A k \in Link : Prompt(k[1]) => k[1] # m.link[1]
  BY <1>2 DEF Prompt
<1>6. Counted'
  BY <1>1, <1>3, <1>4, <1>5, LinkEnds DEF InHand, Counted
<1>7. HandedOver'
  BY <1>1, <1>2 DEF InHand, HandedOver
<1>8. Ordered'
  BY <1>1, <1>2, <1>3 DEF InHand, Ordered, Increasing, Below
<1> QED BY <1>6, <1>7, <1>8 DEF InHand

\* The first message of t.send is encoded or lost (Dial).
LEMMA InHandEncode ==
    ASSUME TypeOK, InHand, NEW e \in Link, Encode(e)
    PROVE  InHand'
<1>1. UNCHANGED <<flags, slowed, crash, sends, handing, delayed, kept>>
  BY DEF Encode, faults, asked
<1>2. /\ queue \in [Link -> Seq(Nat)] /\ queue[e] \in Seq(Nat) /\ queue[e] # <<>>
      /\ left \in [Link -> Nat] /\ kept \in [Link -> Nat] /\ wire \in [Link -> Seq(Nat)]
      /\ queue' = [queue EXCEPT ![e] = Tail(@)]
  BY DEF Encode, TypeOK
<1>3. \A n \in Node : Prompt(n)' = Prompt(n)
  BY <1>1 DEF Prompt
<1>4. \A k \in Link \ {e} : queue'[k] = queue[k] /\ wire'[k] = wire[k]
                              /\ left'[k] = left[k]
  BY <1>2 DEF Encode
<1>5. queue'[e] = Tail(queue[e]) /\ Len(queue[e]) = Len(queue'[e]) + 1
        /\ Len(queue'[e]) \in Nat
  BY <1>2
<1>6. left'[e] = left[e] \/ left'[e] = left[e] + 1
  BY <1>2 DEF Encode
<1>7. wire'[e] = wire[e] \/ wire'[e] = Append(wire[e], Head(queue[e]))
  BY <1>2 DEF Encode
<1>8. HandedOver'
  BY <1>1 DEF InHand, HandedOver
<1>9. Counted'
  <2>1. /\ left'[e] + Len(queue'[e]) <= left[e] + Len(queue[e])
        /\ left'[e] \in Nat /\ left[e] \in Nat /\ kept[e] \in Nat
        /\ Len(queue[e]) \in Nat
    <3>1. left[e] \in Nat /\ kept[e] \in Nat
      BY <1>2
    <3> QED BY <3>1, <1>5, <1>6
  <2>2. ASSUME NEW k \in Link
        PROVE  /\ Over(k)' => Over(k)
               /\ left[k] + Len(queue[k]) <= kept[k] + 1 =>
                    left'[k] + Len(queue'[k]) <= kept'[k] + 1
    <3>1. CASE k = e
      <4>1. kept'[e] = kept[e] /\ Len(queue'[e]) \in Nat
        BY <1>1, <1>5
      <4>2. left'[e] + Len(queue'[e]) > kept'[e] => left[e] + Len(queue[e]) > kept[e]
        BY <2>1, <4>1
      <4>3. left[e] + Len(queue[e]) <= kept[e] + 1 =>
              left'[e] + Len(queue'[e]) <= kept'[e] + 1
        BY <2>1, <4>1
      <4> QED BY <3>1, <4>2, <4>3 DEF Over
    <3>2. CASE k # e
      <4>1. left'[k] = left[k] /\ queue'[k] = queue[k] /\ kept'[k] = kept[k]
        BY <1>1, <1>4, <3>2
      <4> QED BY <4>1 DEF Over
    <3> QED BY <3>1, <3>2
  <2> QED BY <1>1, <1>3, <2>2, LinkEnds DEF InHand, Counted
<1>10. Ordered'
  <2> SUFFICES ASSUME NEW k \in Link \ slowed
               PROVE  /\ Increasing(wire'[k]) /\ Increasing(queue'[k])
                      /\ \A i \in DOMAIN queue'[k] : Below(wire'[k], queue'[k][i])
                      /\ Below(wire'[k], sends) /\ Below(queue'[k], sends)
                      /\ \A x \in handing : x.link = k =>
                           Below(wire'[k], x.no) /\ Below(queue'[k], x.no)
    BY <1>1 DEF Ordered, Increasing, Below
  <2>1. CASE k # e
    BY <1>4, <2>1 DEF InHand, Ordered
  <2>2. CASE k = e
    <3> DEFINE q == queue[e]
               h == Head(q)
               w == wire[e]
    <3>1. /\ Increasing(w) /\ Increasing(q) /\ Below(w, sends) /\ Below(q, sends)
          /\ \A i \in DOMAIN q : Below(w, q[i])
          /\ \A x \in handing : x.link = k => Below(w, x.no) /\ Below(q, x.no)
          /\ w \in Seq(Nat) /\ q \in Seq(Nat) /\ q # <<>>
      BY <1>2, <2>2 DEF InHand, Ordered
    <3>2. queue'[k] = Tail(q) /\ (wire'[k] = w \/ wire'[k] = Append(w, h))
      BY <1>5, <1>7, <2>2
    <3> HIDE DEF q, w, h
    <3>3. /\ Increasing(Tail(q)) /\ h = q[1] /\ 1 \in DOMAIN q /\ h \in Nat
          /\ \A i \in DOMAIN Tail(q) : /\ Tail(q)[i] = q[i + 1] /\ i + 1 \in DOMAIN q
                                       /\ h < Tail(q)[i]
      BY <3>1, TailOrdered DEF h
    <3>4. Increasing(Append(w, h)) /\ \A i \in DOMAIN Append(w, h) :
            Append(w, h)[i] = h \/ \E j \in DOMAIN w : Append(w, h)[i] = w[j]
      BY <3>1, <3>3, AppendOrdered
    <3>5. \A x : Below(q, x) => Below(Tail(q), x) /\ h < x
      BY <3>3 DEF Below
    <3>6. \A x : Below(w, x) /\ h < x => Below(Append(w, h), x)
      BY <3>4 DEF Below
    <3>7. Increasing(wire'[k]) /\ Increasing(queue'[k])
      BY <3>1, <3>2, <3>3, <3>4
    <3>8. \A i \in DOMAIN Tail(q) : Below(w, Tail(q)[i]) /\ h < Tail(q)[i]
      BY <3>1, <3>3
    <3>9. \A i \in DOMAIN queue'[k] : Below(wire'[k], queue'[k][i])
      BY <3>2, <3>6, <3>8
    <3>10. Below(wire'[k], sends) /\ Below(queue'[k], sends)
      BY <3>1, <3>2, <3>5, <3>6
    <3>11. \A x \in handing : x.link = k => Below(wire'[k], x.no) /\ Below(queue'[k], x.no)
      BY <3>1, <3>2, <3>5, <3>6
    <3> QED BY <3>7, <3>9, <3>10, <3>11
  <2> QED BY <2>1, <2>2
<1> QED BY <1>8, <1>9, <1>10 DEF InHand

\* However injections, their timers, Send and the encoding goroutines overlap, a
\* node that crashes lets no more go than t.send held and one message that was in
\* Send, unless it was slowed, and only slowed links reorder (Send, Slow, Crash,
\* Dial).
THEOREM FaultsAreObeyed == Spec => []FaultsObeyed
<1>1. Init => InHand
  BY DEF Init, InHand, HandedOver, Counted, Ordered, Increasing, Below, FlagKind, Over
<1>2. TypeOK /\ InHand /\ [Next]_vars => InHand'
  <2> SUFFICES ASSUME TypeOK, InHand, [Next]_vars PROVE InHand'
    OBVIOUS
  <2>0. /\ flags \in [FlagKind -> SUBSET Link] /\ "slow" \in FlagKind /\ "drop" \in FlagKind
        /\ flags["slow"] \subseteq slowed
    BY DEF TypeOK, FlagKind, InHand, HandedOver
  <2>1. ASSUME NEW n \in Node, NEW t \in Durations, Crash(n, t) PROVE InHand'
    BY <2>1, InHandCrash
  <2>2. ASSUME NEW k \in FlagKind, NEW link \in Link, NEW t \in Durations,
               Inject(k, link, t)
        PROVE InHand'
    <3>1. flags'["slow"] \subseteq slowed' /\ slowed \subseteq slowed'
      BY <2>0, <2>2 DEF Inject
    <3> QED BY <2>2, <3>1, InHandKept DEF Inject
  <2>3. ASSUME NEW inside \in SUBSET Node, NEW t \in Durations,
               Partition(inside, t)
        PROVE InHand'
    BY <2>0, <2>3, InHandKept DEF Partition, faults
  <2>4. ASSUME NEW link \in Link, Send(link) PROVE InHand'
    BY <2>4, InHandSend
  <2>5. ASSUME NEW d \in plan, PartitionDrop(d) PROVE InHand'
    <3>1. flags'["slow"] = flags["slow"] /\ slowed' = slowed
      BY <2>0, <2>5 DEF PartitionDrop
    <3> QED BY <2>0, <2>5, <3>1, InHandKept DEF PartitionDrop
  <2>6. ASSUME NEW tm \in timers, Fire(tm) PROVE InHand'
    BY <2>6, InHandFire
  <2>7. ASSUME NEW m \in delayed, SendDelayed(m) PROVE InHand'
    BY <2>7, InHandDelayed
  <2>8. CASE Tick
    BY <2>0, <2>8, InHandKept DEF Tick, faults, asked
  <2>9. CASE UNCHANGED vars
    BY <2>0, <2>9, InHandKept DEF vars, faults, asked
  <2>10. ASSUME NEW m \in handing, HandOver(m) PROVE InHand'
    BY <2>10, InHandOver
  <2>11. ASSUME NEW k \in Link, Encode(k) PROVE InHand'
    BY <2>11, InHandEncode
  <2> QED BY <2>1, <2>2, <2>3, <2>4, <2>5, <2>6, <2>7, <2>8, <2>9, <2>10, <2>11,
             FaultNodes DEF Next, Goroutines
<1>3. TypeOK /\ InHand => FaultsObeyed
  <2> SUFFICES ASSUME TypeOK, InHand PROVE FaultsObeyed
    OBVIOUS
  <2>1. \A k \in Link : left[k] \in Nat /\ kept[k] \in Nat /\ Len(queue[k]) \in Nat
    BY DEF TypeOK
  <2>2. \A k \in Link : left[k] > kept[k] => Over(k)
    BY <2>1 DEF Over
  <2>3. \A k \in Link : left[k] + Len(queue[k]) <= kept[k] + 1 => left[k] <= kept[k] + 1
    BY <2>1
  <2>4. ASSUME NEW k \in Link, crash[k[1]], Prompt(k[1])
        PROVE  /\ left[k] <= kept[k] + 1
               /\ \A l \in Link : l[1] = k[1] /\ left[k] > kept[k] /\ left[l] > kept[l]
                    => k = l
    BY <2>2, <2>3, <2>4 DEF InHand, Counted
  <2> QED BY <2>4 DEF FaultsObeyed, InHand, Ordered, Increasing
<1> QED BY <1>1, <1>2, <1>3, FaultTypes, PTL DEF Spec

-----------------------------------------------------------------------------
(* A partition and what interferes with it *)

\* The only Drop of a link was done by the partition c: its flag is on and no
\* goroutine clears it before the partition is over.
Held(k, c) ==
    /\ k \in flags["drop"] /\ drops[k] >= 1
    /\ \A tm \in timers : tm.flag = "drop" /\ tm.link = k => tm.at >= c.until

\* Each link into the partition is still to be dropped, and then for long enough,
\* or its call failed, or it was dropped more than once, or it is held.
Cutting ==
    /\ \A k \in Link : drops[k] = 0 => \A tm \in timers : ~(tm.flag = "drop" /\ tm.link = k)
    /\ \A c \in cut : \A k \in (Node \ c.inside) \X c.inside :
         \/ now >= c.until
         \/ k \in missed
         \/ drops[k] > 1
         \/ \E d \in plan : d.link = k /\ now + d.t >= c.until
         \/ Held(k, c)

\* A step that keeps the partition and its links' drops, and fires no timer.
LEMMA CuttingKept ==
    ASSUME TypeOK, Cutting, now' \in Nat, now <= now',
           UNCHANGED <<flags, plan, cut, missed, drops>>,
           \A tm \in timers' : tm.flag = "drop" => tm \in timers
    PROVE  Cutting'
<1>1. \A k \in Link : drops'[k] = 0 =>
         \A tm \in timers' : ~(tm.flag = "drop" /\ tm.link = k)
  BY DEF Cutting
<1>2. ASSUME NEW c \in cut', NEW k \in (Node \ c.inside) \X c.inside
      PROVE  \/ now' >= c.until
             \/ k \in missed'
             \/ drops'[k] > 1
             \/ \E d \in plan' : d.link = k /\ now' + d.t >= c.until
             \/ Held(k, c)'
  <2>1. c \in cut /\ c.until \in Int /\ now \in Nat
    BY DEF TypeOK
  <2>2. now >= c.until => now' >= c.until
    BY <2>1
  <2>3. ASSUME NEW d \in plan, now + d.t >= c.until PROVE now' + d.t >= c.until
    <3>1. d.t \in Int
      BY FaultDurations DEF TypeOK
    <3> QED BY <2>1, <2>3, <3>1
  <2>4. Held(k, c) => Held(k, c)'
    BY DEF Held
  <2> QED BY <2>1, <2>2, <2>3, <2>4 DEF Cutting
<1> QED BY <1>1, <1>2 DEF Cutting

\* Calling Partition plans a Drop for every link it has to cut (Partition).
LEMMA CuttingPartition ==
    ASSUME TypeOK, Cutting, NEW inside \in SUBSET Node, NEW t \in Durations,
           Partition(inside, t)
    PROVE  Cutting'
<1>1. t \in Int /\ now \in Nat
  BY FaultDurations DEF TypeOK
<1>2. /\ UNCHANGED <<now, timers, drops>>
      /\ cut' = {[inside |-> inside, until |-> now + t]}
      /\ plan' = {[link |-> k, t |-> t, no |-> calls] : k \in (Node \ inside) \X inside}
  BY DEF Partition, faults
<1>3. ASSUME NEW k \in (Node \ inside) \X inside
      PROVE  \E d \in plan' : d.link = k /\ now' + d.t >= now + t
  <2>1. [link |-> k, t |-> t, no |-> calls] \in plan'
    BY <1>2
  <2> QED BY <1>1, <1>2, <2>1
<1> QED BY <1>2, <1>3 DEF Cutting

\* One more Drop of a link counts; the others keep flags and timers (Drop).
LEMMA CuttingDropped ==
    ASSUME TypeOK, Cutting, NEW link \in Link, NEW t \in Durations, NEW no \in Nat,
           flags' = [flags EXCEPT !["drop"] = @ \cup {link}],
           timers' = timers \cup LinkTimer("drop", link, t, no),
           drops' = [drops EXCEPT ![link] = @ + 1],
           UNCHANGED <<now, cut, missed>>,
           \A d \in plan : d \in plan' \/ d = [link |-> link, t |-> t, no |-> no]
    PROVE  Cutting'
<1>1. /\ drops \in [Link -> Nat] /\ now \in Nat /\ t \in Int
      /\ flags' ["drop"] = flags["drop"] \cup {link}
  BY FaultDurations DEF TypeOK, FlagKind
<1>2. \A tm \in timers' : tm \in timers \/ (tm.link = link /\ tm.at = now + t)
  BY DEF LinkTimer
<1>3. drops'[link] = drops[link] + 1 /\ \A k \in Link \ {link} : drops'[k] = drops[k]
  BY <1>1
<1>4. \A k \in Link : drops'[k] = 0 =>
        \A tm \in timers' : ~(tm.flag = "drop" /\ tm.link = k)
  BY <1>1, <1>2, <1>3 DEF Cutting
<1>5. ASSUME NEW c \in cut', NEW k \in (Node \ c.inside) \X c.inside
      PROVE  \/ now' >= c.until
             \/ k \in missed'
             \/ drops'[k] > 1
             \/ \E d \in plan' : d.link = k /\ now' + d.t >= c.until
             \/ Held(k, c)'
  <2>1. c \in cut /\ c.inside \subseteq Node /\ k \in Link
    BY LinksAcross DEF TypeOK
  <2>2. CASE k # link
    <3>1. drops'[k] = drops[k]
      BY <1>3, <2>1, <2>2
    <3>2. Held(k, c) => Held(k, c)'
      BY <1>1, <1>2, <2>2, <3>1 DEF Held
    <3>3. \A d \in plan : d.link = k => d \in plan'
      BY <2>2
    <3> QED BY <2>1, <3>1, <3>2, <3>3 DEF Cutting
  <2>3. CASE k = link
    <3>1. CASE drops[k] >= 1
      BY <1>1, <1>3, <2>1, <2>3, <3>1
    <3>2. CASE ~(drops[k] >= 1)
      <4>1. drops[k] = 0 /\ drops'[k] = 1
        BY <1>1, <1>3, <2>1, <2>3, <3>2
      <4>2. \A tm \in timers' : tm.flag = "drop" /\ tm.link = k => tm.at = now + t
        BY <1>2, <2>1, <4>1 DEF Cutting
      <4>3. now + t >= c.until => Held(k, c)'
        BY <1>1, <2>3, <4>1, <4>2 DEF Held
      <4>4. \/ now >= c.until
            \/ k \in missed
            \/ \E d \in plan : d.link = k /\ now + d.t >= c.until
        BY <2>1, <4>1 DEF Cutting, Held
      <4>5. \A d \in plan : d \in plan' \/ d.t = t
        OBVIOUS
      <4> QED BY <4>3, <4>4, <4>5
    <3> QED BY <3>1, <3>2
  <2> QED BY <2>2, <2>3
<1> QED BY <1>4, <1>5 DEF Cutting

\* A call of Partition that fails is remembered (PartitionDrop).
LEMMA CuttingMissed ==
    ASSUME TypeOK, Cutting, NEW d \in plan, plan' = plan \ {d},
           missed' = missed \cup {d.link},
           UNCHANGED <<now, flags, timers, cut, drops>>
    PROVE  Cutting'
<1>1. \A k, c : Held(k, c)' = Held(k, c)
  BY DEF Held
<1> QED BY <1>1 DEF Cutting

\* No timer of a held link fires before the partition has ended (Drop).
LEMMA CuttingFire ==
    ASSUME TypeOK, Cutting, NEW tm \in timers, Fire(tm)
    PROVE  Cutting'
<1>1. timers' \subseteq timers /\ UNCHANGED <<now, plan, cut, missed, drops>>
  BY DEF Fire
<1>2. flags \in [FlagKind -> SUBSET Link] /\ "drop" \in FlagKind
  BY DEF TypeOK, FlagKind
<1>3. \A k \in flags["drop"] : k \in flags'["drop"] \/ (tm.flag = "drop" /\ tm.link = k)
  BY <1>2 DEF Fire
<1>4. tm.at \in Int /\ now \in Nat /\ tm.at <= now
  BY DEF Fire, TypeOK, Timer
<1>5. ASSUME NEW c \in cut, NEW k, Held(k, c)
      PROVE  now >= c.until \/ Held(k, c)'
  <2>1. c.until \in Int
    BY DEF TypeOK
  <2>2. CASE tm.flag = "drop" /\ tm.link = k
    BY <1>4, <1>5, <2>1, <2>2 DEF Held
  <2>3. CASE ~(tm.flag = "drop" /\ tm.link = k)
    BY <1>1, <1>3, <1>5, <2>3 DEF Held
  <2> QED BY <2>2, <2>3
<1> QED BY <1>1, <1>5 DEF Cutting

\* Every step keeps what Partition has done and has still to do.
LEMMA CuttingStep == TypeOK /\ Cutting /\ [Next]_vars => Cutting'
<1> SUFFICES ASSUME TypeOK, Cutting, [Next]_vars PROVE Cutting'
  OBVIOUS
<1>0. now \in Nat /\ calls \in Nat /\ timers \subseteq Timer
  BY DEF TypeOK
<1>1. ASSUME NEW n \in Node, NEW t \in Durations, Crash(n, t) PROVE Cutting'
  <2>1. \A tm \in timers' : tm.flag = "drop" => tm \in timers
    BY <1>1 DEF Crash, CrashTimer
  <2> QED BY <1>0, <1>1, <2>1, CuttingKept DEF Crash
<1>2. ASSUME NEW k \in FlagKind, NEW link \in Link, NEW t \in Durations,
             Inject(k, link, t)
      PROVE  Cutting'
  <2>1. CASE k = "drop"
    BY <1>0, <1>2, <2>1, CuttingDropped DEF Inject
  <2>2. CASE k # "drop"
    <3>1. \A tm \in timers' : tm.flag = "drop" => tm \in timers
      BY <1>2, <2>2 DEF Inject, LinkTimer
    <3>2. flags'["drop"] = flags["drop"]
      BY <1>2, <2>2 DEF Inject, TypeOK
    <3>3. UNCHANGED <<now, plan, cut, missed, drops>>
      BY <1>2, <2>2 DEF Inject
    <3>4. \A link1, c : Held(link1, c) => Held(link1, c)'
      BY <3>1, <3>2, <3>3 DEF Held
    <3> QED BY <3>1, <3>3, <3>4 DEF Cutting
  <2> QED BY <2>1, <2>2
<1>3. ASSUME NEW d \in plan, PartitionDrop(d) PROVE Cutting'
  <2>1. /\ d = [link |-> d.link, t |-> d.t, no |-> d.no]
        /\ d.link \in Link /\ d.t \in Durations /\ d.no \in Nat
    BY DEF TypeOK
  <2>2. plan' = plan \ {d} /\ UNCHANGED <<now, cut>>
    BY <1>3 DEF PartitionDrop
  <2>3. ASSUME flags' = [flags EXCEPT !["drop"] = @ \cup {d.link}],
               timers' = timers \cup LinkTimer("drop", d.link, d.t, d.no),
               drops' = [drops EXCEPT ![d.link] = @ + 1], missed' = missed
        PROVE  Cutting'
    <3>1. \A e \in plan : e \in plan' \/ e = [link |-> d.link, t |-> d.t, no |-> d.no]
      BY <2>1, <2>2
    <3> QED BY <2>1, <2>2, <2>3, <3>1, CuttingDropped
  <2>4. ASSUME missed' = missed \cup {d.link}, UNCHANGED <<flags, timers, drops>>
        PROVE  Cutting'
    BY <2>2, <2>4, CuttingMissed
  <2> QED BY <1>3, <2>3, <2>4 DEF PartitionDrop
<1>4. CASE \/ \E link \in Link : Send(link)
           \/ \E m \in handing : HandOver(m)
           \/ \E m \in delayed : SendDelayed(m)
           \/ \E k \in Link : Encode(k)
           \/ UNCHANGED vars
  <2>1. UNCHANGED <<now, flags, timers, plan, cut, missed, drops>>
    BY <1>4 DEF Send, HandOver, SendDelayed, Encode, vars, faults, asked
  <2> QED BY <1>0, <2>1, CuttingKept
<1>5. CASE Tick
  BY <1>0, <1>5, CuttingKept DEF Tick, faults, asked
<1> QED BY <1>1, <1>2, <1>3, <1>4, <1>5, CuttingPartition, CuttingFire, FaultNodes
        DEF Next, Goroutines

\* As long as a partition lasts, every link it had to cut is cut, unless its call
\* failed or the link was dropped more than once, for any nodes, durations, other
\* injections and order of the calls (Partition, Drop, Send).
THEOREM PartitionCutsOff == Spec => []PartitionCuts
<1>1. Init => Cutting
  BY DEF Init, Cutting
<1>2. TypeOK /\ Cutting => PartitionCuts
  <2> SUFFICES ASSUME TypeOK, Cutting, NEW c \in cut, plan = {}, now < c.until,
                      NEW k \in (Node \ c.inside) \X c.inside
               PROVE  k \in missed \/ drops[k] > 1 \/ ~Passes(k)
    BY DEF PartitionCuts
  <2>1. ~(now >= c.until)
    BY DEF TypeOK
  <2> QED BY <2>1 DEF Cutting, Held, Passes
<1> QED BY <1>1, <1>2, CuttingStep, FaultTypes, PTL DEF Spec
=============================================================================
