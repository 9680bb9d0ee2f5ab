---------------------------- MODULE ClientProofs ----------------------------
(***************************************************************************)
(* Proofs about the client, for any number of workers and replicas: the    *)
(* unsynchronised index of the round robin settles, and spreads calls that *)
(* do not overlap evenly; the operations on several replicas return what   *)
(* belongs together, from all they asked; and about the requests a replica *)
(* forwards.                                                               *)
(***************************************************************************)
EXTENDS Client, Fanout, Forward, FiniteSetTheorems, TLAPS

\* The modulo brings any index back into List (Next).
LEMMA WrapInRange == ASSUME NEW v \in Nat PROVE Wrap(v) \in Replica /\ Wrap(v) \in Nat
BY ClientAssumption, SMT DEF Wrap, Replica

\* Types of the client's shared variables and of its workers, and that Next
\* returns a replica (Next, Put, Get).
THEOREM ClientTypes == Spec => []TypeOK
<1>1. Init => TypeOK
  <2> SUFFICES ASSUME Init PROVE TypeOK
    OBVIOUS
  <2>1. raced \in BOOLEAN
    BY DEF Init
  <2> QED BY <2>1, ClientAssumption DEF Init, TypeOK, Place, Replica
<1>2. TypeOK /\ [Next]_vars => TypeOK'
  <2> SUFFICES ASSUME TypeOK, [Next]_vars PROVE TypeOK'
    OBVIOUS
  <2> USE DEF TypeOK, Place, Goto, shared, service
  <2>0. Replica \subseteq Nat
    BY DEF Replica
  <2>1. ASSUME NEW w \in Caller, BeginPut(w) PROVE TypeOK'
    BY <2>1 DEF BeginPut
  <2>2. ASSUME NEW w \in Caller, BeginGet(w) PROVE TypeOK'
    BY <2>2 DEF BeginGet, GetNumber
  <2>3. ASSUME NEW w \in Caller, Pick(w) PROVE TypeOK'
    BY <2>3 DEF Pick
  <2>4. ASSUME NEW w \in Caller, LoadInc(w) PROVE TypeOK'
    BY <2>4 DEF LoadInc, Load
  <2>5. ASSUME NEW w \in Caller, StoreInc(w) PROVE TypeOK'
    BY <2>5 DEF StoreInc, Store
  <2>6. ASSUME NEW w \in Caller, LoadMod(w) PROVE TypeOK'
    BY <2>6 DEF LoadMod, Load
  <2>7. ASSUME NEW w \in Caller, StoreMod(w) PROVE TypeOK'
    <3>1. rr' = Wrap(tmp[w]) /\ tmp[w] \in Nat
      BY <2>7 DEF StoreMod, Store
    <3>2. rr' \in Nat
      BY <3>1, WrapInRange
    <3> QED BY <2>7, <3>2 DEF StoreMod, Store
  <2>8. ASSUME NEW w \in Caller, Return(w) PROVE TypeOK'
    BY <2>0, <2>8 DEF Return
  <2>9. ASSUME NEW w \in Caller, SetID(w) PROVE TypeOK'
    BY <2>9 DEF SetID
  <2>10. ASSUME NEW w \in Caller, Send(w) PROVE TypeOK'
    <3>1. load' = [load EXCEPT ![id] = load[id] + 1]
      BY <2>10 DEF Send
    <3>2. load[id] + 1 \in Nat
      OBVIOUS
    <3>3. load' \in [Replica -> Nat]
      BY <3>1, <3>2
    <3>4. submitted' \subseteq Nat
      BY <2>10 DEF Send
    <3>5. pc' = [pc EXCEPT ![w] = "wait"] /\ UNCHANGED <<shared, tmp, no, puts, gets, execute, raced>>
      BY <2>10 DEF Send
    <3> QED BY <3>3, <3>4, <3>5
  <2>11. ASSUME NEW s \in submitted, Execute(s) PROVE TypeOK'
    <3>1. PICK A \in SUBSET Waiting(s) :
             pc' = [w \in Caller |-> IF w \in A THEN "idle" ELSE pc[w]]
      BY <2>11 DEF Execute
    <3>2. execute' = execute + 1
          /\ UNCHANGED <<shared, tmp, no, puts, gets, load, submitted, raced>>
      BY <2>11 DEF Execute
    <3> QED BY <3>1, <3>2
  <2>12. CASE UNCHANGED vars
    BY <2>12 DEF vars
  <2> QED BY <2>1, <2>2, <2>3, <2>4, <2>5, <2>6, <2>7, <2>8, <2>9, <2>10, <2>11,
             <2>12 DEF Next, Calls, Step
<1> QED BY <1>1, <1>2, PTL DEF Spec

\* An index out of range is being brought back by some worker (Next).
THEOREM IndexSettles == Spec => []Settles
<1>1. Init => Settles
  BY ClientAssumption DEF Init, Settles, Replica
<1>2. TypeOK /\ Settles /\ [Next]_vars => Settles'
  <2> SUFFICES ASSUME TypeOK, Settles, [Next]_vars PROVE Settles'
    OBVIOUS
  <2> USE DEF Settles, TypeOK, Goto, shared, service
  <2>1. ASSUME NEW w \in Caller, BeginPut(w) \/ BeginGet(w) PROVE Settles'
    BY <2>1 DEF BeginPut, BeginGet
  <2>2. ASSUME NEW w \in Caller, Pick(w) PROVE Settles'
    BY <2>2 DEF Pick
  <2>3. ASSUME NEW w \in Caller, LoadInc(w) \/ LoadMod(w) PROVE Settles'
    BY <2>3 DEF LoadInc, LoadMod, Load
  <2>4. ASSUME NEW w \in Caller, StoreInc(w) PROVE Settles'
    BY <2>4 DEF StoreInc, Store
  <2>5. ASSUME NEW w \in Caller, StoreMod(w) PROVE Settles'
    BY <2>5, WrapInRange DEF StoreMod, Store
  <2>6. ASSUME NEW w \in Caller, Return(w) \/ SetID(w) \/ Send(w) PROVE Settles'
    BY <2>6 DEF Return, SetID, Send
  <2>7. ASSUME NEW s \in submitted, Execute(s) PROVE Settles'
    <3>1. \A w \in Caller : pc[w] \in {"mod", "modd"} => pc'[w] = pc[w]
      BY <2>7 DEF Execute, Waiting
    <3> QED BY <2>7, <3>1 DEF Execute
  <2>8. CASE UNCHANGED vars
    BY <2>8 DEF vars
  <2> QED BY <2>1, <2>2, <2>3, <2>4, <2>5, <2>6, <2>7, <2>8 DEF Next, Calls, Step
<1> QED BY <1>1, <1>2, ClientTypes, PTL DEF Spec

-----------------------------------------------------------------------------
(* The round robin *)

After(r) == IF r = N - 1 THEN 0 ELSE r + 1

\* Bringing the index back after adding one is a step around the replicas (Next).
LEMMA WrapIsAfter == ASSUME NEW r \in Replica PROVE Wrap(r + 1) = After(r) /\ After(r) \in Replica
<1>1. N \in Nat /\ N >= 1 /\ r \in 0..(N - 1)
  BY ClientAssumption DEF Replica
<1>2. CASE r = N - 1
  <2>1. N % N = 0
    BY <1>1
  <2> QED BY <1>1, <1>2, <2>1 DEF Wrap, After, Replica
<1>3. CASE r # N - 1
  <2>1. (r + 1) % N = r + 1
    BY <1>1, <1>3
  <2> QED BY <1>1, <1>3, <2>1 DEF Wrap, After, Replica
<1> QED BY <1>2, <1>3

Busy(w) == pc[w] \notin {"idle", "wait"}

\* The replicas before r have got one request more than the others.
Even(r) == \E base \in Nat : \A q \in Replica : load[q] = base + IF q < r THEN 1 ELSE 0

\* Where a call of Put is: which replica is next, and what rr and id say of it.
Turn(w) ==
    /\ pc[w] # "panic"
    /\ pc[w] = "pick" => rr \in Replica /\ Even(rr)
    /\ pc[w] \in {"inc", "incd"} => id = rr
    /\ pc[w] \in {"mod", "modd"} => rr = id + 1
    /\ pc[w] \in {"incd", "modd"} => tmp[w] = rr
    /\ pc[w] \in {"ret", "set", "send"} => rr = After(id)
    /\ pc[w] = "set" => tmp[w] = id
    /\ pc[w] # "pick" => Even(id)

\* As long as calls do not overlap and nobody reads, one call at a time is on its
\* way to a replica, and the replicas are served in turn.
InTurn ==
    gets = 0 /\ ~raced =>
        /\ \A v, w \in Caller : Busy(v) /\ Busy(w) => v = w
        /\ \A w \in Caller : Busy(w) => Turn(w)
        /\ (\A w \in Caller : ~Busy(w)) => rr \in Replica /\ Even(rr)

\* The index is in turn at first.
LEMMA InitTurn == Init => InTurn
<1> SUFFICES ASSUME Init PROVE rr \in Replica /\ Even(rr) /\ \A w \in Caller : ~Busy(w)
  BY DEF InTurn
<1>1. rr = 0 /\ rr \in Replica
  BY ClientAssumption DEF Init, Replica
<1>2. \A q \in Replica : load[q] = 0 + IF q < 0 THEN 1 ELSE 0
  BY DEF Init, Replica
<1> QED BY <1>1, <1>2 DEF Even, Init, Busy

\* A request that arrives at the next replica makes the one after it next.
LEMMA SendEven ==
    ASSUME TypeOK, Even(id), load' = [load EXCEPT ![id] = @ + 1]
    PROVE  \E base \in Nat : \A q \in Replica :
               load'[q] = base + IF q < After(id) THEN 1 ELSE 0
<1>1. PICK base \in Nat : \A q \in Replica : load[q] = base + IF q < id THEN 1 ELSE 0
  BY DEF Even
<1>2. N \in Nat /\ id \in 0..(N - 1) /\ Replica = 0..(N - 1) /\ load \in [Replica -> Nat]
  BY ClientAssumption DEF TypeOK, Replica
<1>3. \A q \in Replica : load'[q] = IF q = id THEN load[q] + 1 ELSE load[q]
  BY <1>2
<1>4. CASE id = N - 1
  <2>1. After(id) = 0
    BY <1>4 DEF After
  <2>2. \A q \in Replica : load'[q] = (base + 1) + IF q < 0 THEN 1 ELSE 0
    BY <1>1, <1>2, <1>3, <1>4
  <2> QED BY <2>1, <2>2
<1>5. CASE id # N - 1
  <2>1. After(id) = id + 1
    BY <1>5 DEF After
  <2>2. \A q \in Replica : load'[q] = base + IF q < id + 1 THEN 1 ELSE 0
    BY <1>1, <1>2, <1>3
  <2> QED BY <2>1, <2>2
<1> QED BY <1>4, <1>5

\* One step of the call that is on its way, until it sends.
LEMMA StepTurn ==
    ASSUME TypeOK, InTurn, gets = 0, ~raced, NEW w \in Caller, Step(w)
    PROVE  InTurn'
<1>1. Busy(w) /\ Turn(w) /\ \A v \in Caller \ {w} : ~Busy(v)
  BY DEF InTurn, Step, Busy, Pick, LoadInc, StoreInc, LoadMod, StoreMod, Return, SetID,
         Send, Load, Store
<1>2. \A v \in Caller \ {w} : ~Busy(v)'
  BY <1>1 DEF Busy, Step, Pick, LoadInc, StoreInc, LoadMod, StoreMod, Return, SetID,
              Send, Load, Store, Goto, TypeOK
<1>3. id \in Replica /\ id \in Nat
  BY DEF TypeOK, Replica
<1>4. CASE Send(w)
  <2>1. Even(id) /\ rr = After(id) /\ load' = [load EXCEPT ![id] = @ + 1] /\ rr' = rr
    BY <1>1, <1>4 DEF Send, Turn, shared
  <2>2. rr' \in Replica /\ Even(rr)'
    BY <1>3, <2>1, SendEven, WrapIsAfter DEF Even
  <2>3. ~Busy(w)'
    BY <1>4 DEF Send, Goto, Busy, TypeOK
  <2> QED BY <1>2, <2>2, <2>3 DEF InTurn
<1>5. CASE ~Send(w)
  <2>1. UNCHANGED load
    BY <1>5 DEF Step, Pick, LoadInc, StoreInc, LoadMod, StoreMod, Return, SetID, Load,
                Store, service
  <2>2. \A r : Even(r) => Even(r)'
    BY <2>1 DEF Even
  <2>3. Turn(w)' /\ Busy(w)'
    <3>1. CASE Pick(w)
      BY <1>1, <2>2, <3>1 DEF Pick, Turn, Busy, Goto, TypeOK
    <3>2. CASE LoadInc(w) \/ LoadMod(w)
      BY <1>1, <2>2, <3>2 DEF LoadInc, LoadMod, Load, Turn, Busy, Goto, TypeOK, shared
    <3>3. CASE StoreInc(w)
      BY <1>1, <2>2, <3>3 DEF StoreInc, Store, Turn, Busy, Goto, TypeOK
    <3>4. CASE StoreMod(w)
      BY <1>1, <1>3, <2>2, <3>4, WrapIsAfter DEF StoreMod, Store, Turn, Busy, Goto, TypeOK
    <3>5. CASE Return(w)
      BY <1>1, <2>2, <3>5 DEF Return, Turn, Busy, Goto, TypeOK, shared
    <3>6. CASE SetID(w)
      BY <1>1, <2>2, <3>6 DEF SetID, Turn, Busy, Goto, TypeOK
    <3> QED BY <1>5, <3>1, <3>2, <3>3, <3>4, <3>5, <3>6 DEF Step
  <2> QED BY <1>2, <2>3 DEF InTurn
<1> QED BY <1>4, <1>5

\* Every step of a worker keeps the index in turn.
LEMMA NextTurn == TypeOK /\ InTurn /\ [Next]_vars => InTurn'
<1> SUFFICES ASSUME TypeOK, InTurn, [Next]_vars, gets' = 0, ~raced' PROVE InTurn'
  BY DEF InTurn
<1>0. gets = 0 /\ ~raced
  BY DEF TypeOK, Next, Calls, Step, BeginPut, BeginGet, Pick, LoadInc, StoreInc, LoadMod,
         StoreMod, Return, SetID, Send, Load, Store, Execute, vars
<1>1. ASSUME NEW w \in Caller, Step(w) PROVE InTurn'
  BY <1>0, <1>1, StepTurn
<1>2. ASSUME NEW w \in Caller, BeginPut(w) PROVE InTurn'
  <2>1. /\ \A v \in Caller : ~Busy(v)
        /\ rr \in Replica /\ Even(rr)
    BY <1>0, <1>2 DEF BeginPut, Alone, Busy, InTurn
  <2>2. /\ pc' = [pc EXCEPT ![w] = "pick"] /\ UNCHANGED <<rr, load>>
    BY <1>2 DEF BeginPut, Goto, shared, service
  <2>3. /\ pc'[w] = "pick" /\ Busy(w)' /\ \A v \in Caller \ {w} : ~Busy(v)'
    BY <2>1, <2>2 DEF Busy, TypeOK
  <2>4. Turn(w)'
    BY <2>1, <2>2, <2>3 DEF Turn, Even
  <2> QED BY <2>3, <2>4 DEF InTurn
<1>3. ASSUME NEW w \in Caller, BeginGet(w) PROVE FALSE
  BY <1>0, <1>3 DEF BeginGet
<1>4. ASSUME NEW s \in submitted, Execute(s) PROVE InTurn'
  <2>1. UNCHANGED <<rr, id, tmp, load>>
    BY <1>4 DEF Execute, shared
  <2>2. \A w \in Caller : /\ Busy(w)' <=> Busy(w)
                          /\ Busy(w) => pc'[w] = pc[w]
    BY <1>4 DEF Execute, Waiting, Busy, TypeOK
  <2>3. \A w \in Caller : Busy(w) /\ Turn(w) => Turn(w)'
    BY <2>1, <2>2 DEF Turn, Even
  <2>4. Even(rr)' <=> Even(rr)
    BY <2>1 DEF Even
  <2> QED BY <1>0, <2>1, <2>2, <2>3, <2>4 DEF InTurn
<1>5. CASE UNCHANGED vars
  BY <1>0, <1>5 DEF vars, shared, service, InTurn, Busy, Turn, Even
<1> QED BY <1>1, <1>2, <1>3, <1>4, <1>5 DEF Next, Calls

\* Writes that do not overlap before they are sent are spread evenly over the
\* replicas, for any number of workers, writes and replicas (Next, Put).
THEOREM LoadIsEven == Spec => []RoundRobin
<1>1. TypeOK /\ InTurn => RoundRobin
  <2> SUFFICES ASSUME TypeOK, InTurn, \A w \in Caller : pc[w] \in {"idle", "wait"},
                      gets = 0, ~raced, NEW r \in Replica, NEW s \in Replica
               PROVE  load[r] - load[s] <= 1
    BY DEF RoundRobin
  <2>1. PICK base \in Nat : \A q \in Replica : load[q] = base + IF q < rr THEN 1 ELSE 0
    BY DEF InTurn, Busy, Even
  <2> QED BY <2>1
<1> QED BY <1>1, InitTurn, NextTurn, ClientTypes, PTL DEF Spec

-----------------------------------------------------------------------------
(* Sequences of answers *)

Distinct(s) == \A i, j \in DOMAIN s : s[i] = s[j] => i = j

\* A list without repetitions has as many elements as places.
LEMMA SizeOfDistinct ==
    ASSUME NEW S, NEW s \in Seq(S), Distinct(s)
    PROVE  IsFiniteSet(ToSet(s)) /\ Cardinality(ToSet(s)) = Len(s)
<1>1. /\ Len(s) \in Nat /\ DOMAIN s = 1..Len(s)
      /\ s \in [1..Len(s) -> ToSet(s)]
  BY DEF ToSet
<1>2. s \in Bijection(1..Len(s), ToSet(s))
  BY <1>1 DEF Distinct, ToSet, Bijection, Injection, Surjection, IsInjective
<1>3. IsFiniteSet(1..Len(s)) /\ Cardinality(1..Len(s)) = Len(s)
  BY <1>1, FS_Interval
<1>4. ExistsBijection(1..Len(s), ToSet(s))
  BY <1>2 DEF ExistsBijection
<1> QED BY <1>3, <1>4, FS_Bijection

\* A list has elements of its set only.
LEMMA ToSetIn == ASSUME NEW S, NEW s \in Seq(S) PROVE ToSet(s) \subseteq S
BY DEF ToSet

\* Appending adds one element, and no repetition if it is new.
LEMMA AppendToSet ==
    ASSUME NEW S, NEW s \in Seq(S), NEW x \in S
    PROVE  /\ Append(s, x) \in Seq(S) /\ ToSet(Append(s, x)) = ToSet(s) \cup {x}
           /\ Distinct(s) /\ x \notin ToSet(s) => Distinct(Append(s, x))
<1>1. /\ Append(s, x) \in Seq(S) /\ Len(Append(s, x)) = Len(s) + 1 /\ Len(s) \in Nat
      /\ DOMAIN Append(s, x) = 1..(Len(s) + 1) /\ DOMAIN s = 1..Len(s)
      /\ \A i \in 1..Len(s) : Append(s, x)[i] = s[i]
      /\ Append(s, x)[Len(s) + 1] = x
  OBVIOUS
<1>2. \A i \in 1..(Len(s) + 1) : i \in 1..Len(s) \/ i = Len(s) + 1
  BY <1>1
<1>3. ToSet(Append(s, x)) = ToSet(s) \cup {x}
  <2>1. \A y \in ToSet(Append(s, x)) : y \in ToSet(s) \cup {x}
    BY <1>1, <1>2 DEF ToSet
  <2>2. \A y \in ToSet(s) : y \in ToSet(Append(s, x))
    BY <1>1 DEF ToSet
  <2>3. x \in ToSet(Append(s, x))
    BY <1>1 DEF ToSet
  <2> QED BY <2>1, <2>2, <2>3
<1>4. ASSUME Distinct(s), x \notin ToSet(s) PROVE Distinct(Append(s, x))
  <2>1. \A i \in 1..Len(s) : s[i] # x
    BY <1>1, <1>4 DEF ToSet
  <2> QED BY <1>1, <1>2, <1>4, <2>1 DEF Distinct
<1> QED BY <1>1, <1>3, <1>4

\* What is taken from the front of a channel is no longer in it.
LEMMA TailToSet ==
    ASSUME NEW S, NEW s \in Seq(S), s # <<>>, Distinct(s)
    PROVE  /\ Tail(s) \in Seq(S) /\ Distinct(Tail(s)) /\ Head(s) \in S
           /\ ToSet(Tail(s)) = ToSet(s) \ {Head(s)} /\ Head(s) \in ToSet(s)
<1>1. /\ Tail(s) \in Seq(S) /\ Len(Tail(s)) = Len(s) - 1 /\ Len(s) \in Nat /\ Len(s) >= 1
      /\ DOMAIN Tail(s) = 1..(Len(s) - 1) /\ DOMAIN s = 1..Len(s)
      /\ \A i \in 1..(Len(s) - 1) : Tail(s)[i] = s[i + 1]
      /\ Head(s) = s[1] /\ Head(s) \in S
  OBVIOUS
<1>2. \A i \in 2..Len(s) : i - 1 \in 1..(Len(s) - 1) /\ s[i] = Tail(s)[i - 1]
  BY <1>1
<1>3. \A i \in 1..(Len(s) - 1) : i + 1 \in 2..Len(s) /\ i + 1 \in 1..Len(s)
  BY <1>1
<1>4. Distinct(Tail(s))
  BY <1>1, <1>3 DEF Distinct
<1>5. \A i \in 2..Len(s) : s[i] # s[1]
  BY <1>1 DEF Distinct
<1>6. ASSUME NEW y \in ToSet(Tail(s)) PROVE y \in ToSet(s) \ {Head(s)}
  BY <1>1, <1>3, <1>5 DEF ToSet
<1>7. ASSUME NEW y \in ToSet(s) \ {Head(s)} PROVE y \in ToSet(Tail(s))
  <2>1. PICK i \in 1..Len(s) : y = s[i] /\ i # 1
    BY <1>1 DEF ToSet
  <2>2. i \in 2..Len(s) /\ y = Tail(s)[i - 1] /\ i - 1 \in DOMAIN Tail(s)
    BY <1>1, <1>2, <2>1
  <2> QED BY <2>2 DEF ToSet
<1>8. Head(s) \in ToSet(s)
  BY <1>1 DEF ToSet
<1> QED BY <1>1, <1>4, <1>6, <1>7, <1>8

-----------------------------------------------------------------------------
(* The operations on several replicas *)

\* Each target's value and each target's headers are in one place, on their way
\* to the caller or with it, when its goroutine has sent them.
Sent ==
    /\ go \in [targets -> {"call", "value", "meta", "end"}]
    /\ values \in Seq(targets) /\ valueC \in Seq(targets)
    /\ metas \in Seq(targets) /\ metaC \in Seq(targets)
    /\ Distinct(values) /\ Distinct(valueC) /\ Distinct(metas) /\ Distinct(metaC)
    /\ ToSet(values) \cap ToSet(valueC) = {} /\ ToSet(metas) \cap ToSet(metaC) = {}
    /\ \A r \in ToSet(values) \cup ToSet(valueC) : go[r] \in {"meta", "end"}
    /\ \A r \in ToSet(metas) \cup ToSet(metaC) : go[r] = "end"

\* What the caller has got and what it still waits for make what it was to get.
Awaiting ==
    /\ op \in Ops /\ IsFiniteSet(targets) /\ Cardinality(targets) = Started(op)
    /\ left \in Nat /\ caller \in {"value", "meta", "done"}
    /\ caller = "done" <=> left = 0
    /\ Pairs(op) => /\ left + Len(metas) = Awaited(op)
                    /\ Len(values) = Len(metas) + IF caller = "meta" THEN 1 ELSE 0
    /\ ~Pairs(op) => /\ left + Len(values) = Awaited(op) /\ metas = <<>> /\ metaC = <<>>
                     /\ caller # "meta"
                     /\ \A r \in targets : go[r] # "meta"

\* Without buffers a goroutine that has met the caller with its value is the next
\* to meet it with its headers.
Meeting ==
    Pairs(op) /\ op # "GetMUL" =>
        /\ valueC = <<>> /\ metaC = <<>>
        /\ \A i \in DOMAIN metas : values[i] = metas[i]
        /\ caller # "meta" => \A r \in targets : go[r] # "meta"
        /\ caller = "meta" => \A r \in targets : go[r] = "meta" => r = values[Len(values)]

Fanned == Sent /\ Awaiting /\ Meeting

\* There is at least one peer, and one local peer.
LEMMA PeerNumbers == PeerN \in Nat /\ PeerN >= 1 /\ LocalN \in Nat /\ LocalN >= 1
<1>1. IsFiniteSet(Local) /\ Local # {} /\ IsFiniteSet(Peer) /\ Peer # {}
  BY FanoutPeers, FS_Subset
<1> QED BY <1>1, FS_CardinalityType, FS_EmptySet DEF PeerN, LocalN

\* The counts are right when an operation has not begun.
LEMMA InitFanned == FanoutInit => Fanned
<1> SUFFICES ASSUME FanoutInit PROVE Fanned
  OBVIOUS
<1>1. op \in {"GetMUL", "PutMUL", "QuorumGet", "LocalQuorumGet", "QuorumPut"}
  BY FanoutOps DEF FanoutInit
<1>2. Awaited(op) \in Nat /\ (Pairs(op) => Awaited(op) > 0)
  BY <1>1, PeerNumbers DEF Awaited, Started, Quorum, Pairs
<1>3. /\ targets \in SUBSET Candidates(op) /\ Cardinality(targets) = Started(op)
      /\ go = [r \in targets |-> "call"] /\ left = Awaited(op)
      /\ valueC = <<>> /\ metaC = <<>> /\ values = <<>> /\ metas = <<>>
      /\ caller = IF Awaited(op) = 0 THEN "done" ELSE "value"
  BY DEF FanoutInit
<1>4. IsFiniteSet(targets)
  BY <1>3, FanoutPeers, FS_Subset DEF Candidates
<1>5. ToSet(<<>>) = {} /\ Distinct(<<>>) /\ <<>> \in Seq(targets) /\ Len(<<>>) = 0
  BY DEF ToSet, Distinct
<1>6. Sent
  BY <1>3, <1>5 DEF Sent
<1>7. Awaiting
  BY <1>2, <1>3, <1>4, <1>5 DEF Awaiting, FanoutInit
<1>8. Meeting
  BY <1>3 DEF Meeting
<1> QED BY <1>6, <1>7, <1>8 DEF Fanned

\* Whatever was sent or received came from a replica that was asked.
LEMMA Senders ==
    ASSUME Sent
    PROVE  /\ ToSet(values) \subseteq targets /\ ToSet(valueC) \subseteq targets
           /\ ToSet(metas) \subseteq targets /\ ToSet(metaC) \subseteq targets
BY ToSetIn DEF Sent

\* The counts stay right when a call returns (the goroutine of an operation).
LEMMA CalledFanned ==
    ASSUME Fanned, NEW r \in targets, Called(r) \/ CallFails(r)
    PROVE  Fanned'
<1>1. /\ UNCHANGED <<op, targets, valueC, metaC, left, caller, values, metas>>
      /\ go[r] = "call"
      /\ go' = [go EXCEPT ![r] = "value"] \/ go' = [go EXCEPT ![r] = "end"]
  BY DEF Called, CallFails
<1>2. Sent'
  BY <1>1, Senders DEF Fanned, Sent
<1>3. Awaiting' /\ Meeting'
  BY <1>1 DEF Fanned, Sent, Awaiting, Meeting, Awaited, Started, Pairs
<1> QED BY <1>2, <1>3 DEF Fanned

\* A goroutine fills a buffer, after its call or with its headers.
LEMMA PutFanned ==
    ASSUME Fanned, NEW r \in targets, PutValue(r) \/ PutMeta(r)
    PROVE  Fanned'
<1>1. UNCHANGED <<op, targets, left, caller, values, metas>>
  BY DEF PutValue, PutMeta
<1>2. CASE PutValue(r)
  <2>1. /\ valueC' = Append(valueC, r) /\ metaC' = metaC /\ go[r] = "value"
        /\ go' = [go EXCEPT ![r] = IF Pairs(op) THEN "meta" ELSE "end"]
        /\ Len(valueC) < Capacity(op)
    BY <1>2 DEF PutValue, SentValue
  <2>2. r \notin ToSet(values) /\ r \notin ToSet(valueC)
    BY <2>1 DEF Fanned, Sent
  <2>3. /\ valueC' \in Seq(targets) /\ Distinct(valueC')
        /\ ToSet(valueC') = ToSet(valueC) \cup {r}
    BY <2>1, <2>2, AppendToSet DEF Fanned, Sent
  <2>4. Sent'
    BY <1>1, <2>1, <2>2, <2>3, Senders DEF Fanned, Sent
  <2>5. Awaiting'
    BY <1>1, <2>1 DEF Fanned, Sent, Awaiting, Awaited, Started, Pairs
  <2>6. Meeting'
    BY <1>1, <2>1 DEF Fanned, Meeting, Pairs, Capacity, Sent
  <2> QED BY <2>4, <2>5, <2>6 DEF Fanned
<1>3. CASE PutMeta(r)
  <2>1. /\ metaC' = Append(metaC, r) /\ valueC' = valueC /\ go[r] = "meta"
        /\ go' = [go EXCEPT ![r] = "end"] /\ Len(metaC) < Capacity(op)
    BY <1>3 DEF PutMeta
  <2>2. r \notin ToSet(metas) /\ r \notin ToSet(metaC)
    BY <2>1 DEF Fanned, Sent
  <2>3. /\ metaC' \in Seq(targets) /\ Distinct(metaC')
        /\ ToSet(metaC') = ToSet(metaC) \cup {r}
    BY <2>1, <2>2, AppendToSet DEF Fanned, Sent
  <2>4. Sent'
    BY <1>1, <2>1, <2>2, <2>3, Senders DEF Fanned, Sent
  <2>5. Awaiting'
    BY <1>1, <2>1 DEF Fanned, Sent, Awaiting, Awaited, Started, Pairs
  <2>6. Meeting'
    BY <1>1, <2>1 DEF Fanned, Meeting, Pairs, Capacity, Sent
  <2> QED BY <2>4, <2>5, <2>6 DEF Fanned
<1> QED BY <1>2, <1>3

\* The caller gets a value: one step nearer to the end without headers.
LEMMA GotValueAwaits ==
    ASSUME Fanned, NEW r \in targets, GotValue(r), UNCHANGED <<op, targets, metas>>,
           Pairs(op) \/ metaC' = metaC,
           ~Pairs(op) => \A q \in targets : go'[q] # "meta"
    PROVE  Awaiting'
<1>1. /\ caller = "value" /\ values' = Append(values, r) /\ caller' = AfterValue
      /\ left' = IF Pairs(op) THEN left ELSE left - 1
  BY DEF GotValue
<1>2. /\ Len(values') = Len(values) + 1 /\ Len(values) \in Nat /\ Len(metas) \in Nat
  BY <1>1 DEF Fanned, Sent
<1>3. left \in Nat /\ left # 0
  BY <1>1 DEF Fanned, Awaiting
<1>4. Pairs(op)' = Pairs(op) /\ Awaited(op)' = Awaited(op) /\ Started(op)' = Started(op)
  BY DEF Pairs, Awaited, Started
<1>5. CASE Pairs(op)
  BY <1>1, <1>2, <1>3, <1>4, <1>5 DEF Fanned, Awaiting, AfterValue
<1>6. CASE ~Pairs(op)
  BY <1>1, <1>2, <1>3, <1>4, <1>6 DEF Fanned, Awaiting, AfterValue
<1> QED BY <1>5, <1>6

\* The caller gets headers, one step nearer to the end.
LEMMA GotMetaAwaits ==
    ASSUME Fanned, NEW r \in targets, GotMeta(r), UNCHANGED <<op, targets, values>>
    PROVE  Awaiting'
<1>1. /\ caller = "meta" /\ metas' = Append(metas, r) /\ caller' = AfterMeta
      /\ left' = left - 1
  BY DEF GotMeta
<1>2. /\ Len(metas') = Len(metas) + 1 /\ Len(values) \in Nat /\ Len(metas) \in Nat
  BY <1>1 DEF Fanned, Sent
<1>3. left \in Nat /\ left # 0 /\ Pairs(op)
  BY <1>1 DEF Fanned, Awaiting
<1>4. Pairs(op)' = Pairs(op) /\ Awaited(op)' = Awaited(op) /\ Started(op)' = Started(op)
  BY DEF Pairs, Awaited, Started
<1> QED BY <1>1, <1>2, <1>3, <1>4 DEF Fanned, Awaiting, AfterMeta

\* The caller empties a buffer.
LEMMA TakeFanned ==
    ASSUME Fanned, TakeValue \/ TakeMeta
    PROVE  Fanned'
<1>1. CASE TakeValue
  <2> DEFINE r == Head(valueC)
  <2>1. /\ valueC # <<>> /\ GotValue(r) /\ valueC' = Tail(valueC)
        /\ UNCHANGED <<op, targets, go, metaC, metas>> /\ values' = Append(values, r)
    BY <1>1 DEF TakeValue, GotValue
  <2>2. /\ valueC' \in Seq(targets) /\ Distinct(valueC') /\ r \in targets
        /\ ToSet(valueC') = ToSet(valueC) \ {r} /\ r \in ToSet(valueC)
    BY <2>1, TailToSet DEF Fanned, Sent
  <2>3. r \notin ToSet(values) /\ go[r] \in {"meta", "end"}
    BY <2>2 DEF Fanned, Sent
  <2>4. /\ values' \in Seq(targets) /\ Distinct(values')
        /\ ToSet(values') = ToSet(values) \cup {r}
    BY <2>1, <2>2, <2>3, AppendToSet DEF Fanned, Sent
  <2>5. Sent'
    BY <2>1, <2>2, <2>3, <2>4 DEF Fanned, Sent
  <2>6. Awaiting'
    BY <2>1, <2>2, GotValueAwaits DEF Fanned, Awaiting
  <2>7. Meeting'
    BY <2>1 DEF Fanned, Meeting, Pairs
  <2> QED BY <2>5, <2>6, <2>7 DEF Fanned
<1>2. CASE TakeMeta
  <2> DEFINE r == Head(metaC)
  <2>1. /\ metaC # <<>> /\ GotMeta(r) /\ metaC' = Tail(metaC)
        /\ UNCHANGED <<op, targets, go, valueC, values>> /\ metas' = Append(metas, r)
    BY <1>2 DEF TakeMeta, GotMeta
  <2>2. /\ metaC' \in Seq(targets) /\ Distinct(metaC') /\ r \in targets
        /\ ToSet(metaC') = ToSet(metaC) \ {r} /\ r \in ToSet(metaC)
    BY <2>1, TailToSet DEF Fanned, Sent
  <2>3. r \notin ToSet(metas) /\ go[r] = "end"
    BY <2>2 DEF Fanned, Sent
  <2>4. /\ metas' \in Seq(targets) /\ Distinct(metas')
        /\ ToSet(metas') = ToSet(metas) \cup {r}
    BY <2>1, <2>2, <2>3, AppendToSet DEF Fanned, Sent
  <2>5. Sent'
    BY <2>1, <2>2, <2>3, <2>4 DEF Fanned, Sent
  <2>6. Awaiting'
    BY <2>1, <2>2, GotMetaAwaits
  <2>7. Meeting'
    BY <2>1 DEF Fanned, Meeting, Pairs, Awaiting
  <2> QED BY <2>5, <2>6, <2>7 DEF Fanned
<1> QED BY <1>1, <1>2

\* The caller meets a goroutine at a channel without a buffer.
LEMMA MeetValueFanned ==
    ASSUME Fanned, NEW r \in targets, MeetValue(r)
    PROVE  Fanned'
<1>1. /\ go[r] = "value" /\ GotValue(r) /\ values' = Append(values, r)
      /\ go' = [go EXCEPT ![r] = IF Pairs(op) THEN "meta" ELSE "end"]
      /\ caller = "value" /\ caller' = AfterValue
      /\ UNCHANGED <<op, targets, valueC, metaC, metas>>
  BY DEF MeetValue, GotValue, SentValue
<1>2. r \notin ToSet(values) /\ r \notin ToSet(valueC) /\ r \notin ToSet(metas)
      /\ r \notin ToSet(metaC)
  BY <1>1 DEF Fanned, Sent
<1>3. /\ values' \in Seq(targets) /\ Distinct(values')
      /\ ToSet(values') = ToSet(values) \cup {r}
  BY <1>1, <1>2, AppendToSet DEF Fanned, Sent
<1>4. Sent'
  BY <1>1, <1>2, <1>3, Senders DEF Fanned, Sent
<1>5. ~Pairs(op) => \A q \in targets : go'[q] # "meta"
  BY <1>1 DEF Fanned, Sent, Awaiting
<1>6. Awaiting'
  BY <1>1, <1>5, GotValueAwaits
<1>7. ASSUME Pairs(op), op # "GetMUL" PROVE Meeting'
  <2>1. caller' = "meta"
    BY <1>1, <1>7 DEF AfterValue
  <2>2. \A q \in targets : go'[q] = "meta" => q = r
    BY <1>1, <1>7 DEF Fanned, Meeting, Sent
  <2>3. /\ Len(values') = Len(values) + 1 /\ values'[Len(values')] = r
        /\ \A i \in 1..Len(values) : values'[i] = values[i]
    BY <1>1 DEF Fanned, Sent
  <2>4. Len(values) = Len(metas) /\ DOMAIN metas = 1..Len(metas)
    BY <1>1, <1>7 DEF Fanned, Awaiting, Sent
  <2> QED BY <1>1, <1>7, <2>1, <2>2, <2>3, <2>4 DEF Fanned, Meeting
<1>8. ~(Pairs(op) /\ op # "GetMUL") => Meeting'
  BY <1>1 DEF Meeting, Pairs
<1> QED BY <1>4, <1>6, <1>7, <1>8 DEF Fanned

\* The counts stay right when a header is handed over.
LEMMA MeetMetaFanned ==
    ASSUME Fanned, NEW r \in targets, MeetMeta(r)
    PROVE  Fanned'
<1>1. /\ go[r] = "meta" /\ GotMeta(r) /\ metas' = Append(metas, r)
      /\ go' = [go EXCEPT ![r] = "end"]
      /\ caller = "meta" /\ caller' = AfterMeta
      /\ UNCHANGED <<op, targets, valueC, metaC, values>>
  BY DEF MeetMeta, GotMeta
<1>2. r \notin ToSet(metas) /\ r \notin ToSet(metaC)
  BY <1>1 DEF Fanned, Sent
<1>3. /\ metas' \in Seq(targets) /\ Distinct(metas')
      /\ ToSet(metas') = ToSet(metas) \cup {r}
  BY <1>1, <1>2, AppendToSet DEF Fanned, Sent
<1>4. Sent'
  BY <1>1, <1>2, <1>3, Senders DEF Fanned, Sent
<1>5. Awaiting'
  BY <1>1, GotMetaAwaits
<1>6. ASSUME Pairs(op), op # "GetMUL" PROVE Meeting'
  <2>1. caller' # "meta"
    BY <1>1 DEF AfterMeta
  <2>2. r = values[Len(values)] /\ \A q \in targets : go'[q] # "meta"
    BY <1>1, <1>6 DEF Fanned, Meeting, Sent
  <2>3. /\ DOMAIN metas' = 1..(Len(metas) + 1) /\ metas'[Len(metas) + 1] = r
        /\ \A i \in 1..Len(metas) : metas'[i] = metas[i]
        /\ DOMAIN metas = 1..Len(metas) /\ Len(metas) \in Nat
    BY <1>1 DEF Fanned, Sent
  <2>4. Len(values) = Len(metas) + 1
    BY <1>1, <1>6 DEF Fanned, Awaiting
  <2>5. \A i \in DOMAIN metas' : values[i] = metas'[i]
    BY <1>6, <2>2, <2>3, <2>4 DEF Fanned, Meeting
  <2> QED BY <1>1, <1>6, <2>1, <2>2, <2>5 DEF Fanned, Meeting
<1>7. ~(Pairs(op) /\ op # "GetMUL") => Meeting'
  BY <1>1 DEF Meeting, Pairs
<1> QED BY <1>4, <1>5, <1>6, <1>7 DEF Fanned

\* Every step of an operation keeps the counts.
LEMMA NextFanned == Fanned /\ [FanoutNext]_fanoutVars => Fanned'
<1> SUFFICES ASSUME Fanned, [FanoutNext]_fanoutVars PROVE Fanned'
  OBVIOUS
<1>1. CASE UNCHANGED fanoutVars
  BY <1>1 DEF fanoutVars, Fanned, Sent, Awaiting, Meeting, Pairs, Awaited, Started
<1> QED BY <1>1, CalledFanned, PutFanned, TakeFanned, MeetValueFanned, MeetMetaFanned
        DEF FanoutNext, Passing

\* The headers a MultiGet returns belong to its values, for any replicas and
\* whatever calls fail: its channels have no buffers, so that no goroutine comes
\* between a value and its headers.
THEOREM HeadersPaired == FanoutSpec => []Paired
<1>1. Fanned => Paired
  <2> SUFFICES ASSUME Fanned, op # "GetMUL" PROVE \A i \in DOMAIN metas : values[i] = metas[i]
    BY DEF Paired
  <2>1. CASE Pairs(op)
    BY <2>1 DEF Fanned, Meeting
  <2>2. CASE ~Pairs(op)
    BY <2>2 DEF Fanned, Awaiting
  <2> QED BY <2>1, <2>2
<1> QED BY <1>1, InitFanned, NextFanned, PTL DEF FanoutSpec

\* Except for QuorumPut, a goroutine that passes a value on has got it: whose value
\* is on its way or has come has answered.
Heard ==
    /\ answered \subseteq targets
    /\ op # "QuorumPut" =>
          /\ \A r \in targets : go[r] \in {"value", "meta"} => r \in answered
          /\ ToSet(values) \cup ToSet(valueC) \subseteq answered

\* Nobody has answered when an operation has not begun.
LEMMA InitHeard == FanoutInit => Heard
<1> SUFFICES ASSUME FanoutInit PROVE Heard
  OBVIOUS
<1>1. /\ go = [r \in targets |-> "call"] /\ answered = {}
      /\ values = <<>> /\ valueC = <<>>
  BY DEF FanoutInit
<1>2. ToSet(<<>>) = {}
  BY DEF ToSet
<1> QED BY <1>1, <1>2 DEF Heard

\* A value that moves on is that of a replica that has answered.
LEMMA NextHeard == Fanned /\ Heard /\ [FanoutNext]_fanoutVars => Heard'
<1> SUFFICES ASSUME Fanned, Heard, [FanoutNext]_fanoutVars PROVE Heard'
  OBVIOUS
<1>1. ASSUME NEW r \in targets, Called(r) \/ CallFails(r) PROVE Heard'
  <2>1. UNCHANGED <<op, targets, valueC, values>> /\ go \in [targets -> {"call", "value", "meta", "end"}]
    BY <1>1 DEF Called, CallFails, Fanned, Sent
  <2>2. CASE Called(r)
    <3>1. go' = [go EXCEPT ![r] = "value"] /\ answered' = answered \cup {r}
      BY <2>2 DEF Called
    <3> QED BY <2>1, <3>1 DEF Heard
  <2>3. CASE CallFails(r)
    <3>1. answered' = answered
          /\ go' = [go EXCEPT ![r] = IF op = "QuorumPut" THEN "value" ELSE "end"]
      BY <2>3 DEF CallFails
    <3> QED BY <2>1, <3>1 DEF Heard
  <2> QED BY <1>1, <2>2, <2>3
<1>2. ASSUME NEW r \in targets, PutValue(r) PROVE Heard'
  <2>1. /\ UNCHANGED <<op, targets, values, answered>> /\ go[r] = "value"
        /\ valueC' = Append(valueC, r)
        /\ go' = [go EXCEPT ![r] = IF Pairs(op) THEN "meta" ELSE "end"]
    BY <1>2 DEF PutValue, SentValue
  <2>2. r \notin ToSet(valueC) /\ valueC \in Seq(targets) /\ Distinct(valueC)
        /\ go \in [targets -> {"call", "value", "meta", "end"}]
    BY <2>1 DEF Fanned, Sent
  <2>3. ToSet(valueC') = ToSet(valueC) \cup {r}
    BY <2>1, <2>2, AppendToSet
  <2> QED BY <2>1, <2>2, <2>3 DEF Heard
<1>3. ASSUME NEW r \in targets, PutMeta(r) \/ MeetMeta(r) PROVE Heard'
  <2>1. /\ UNCHANGED <<op, targets, valueC, values, answered>>
        /\ go' = [go EXCEPT ![r] = "end"]
        /\ go \in [targets -> {"call", "value", "meta", "end"}]
    BY <1>3 DEF PutMeta, MeetMeta, GotMeta, Fanned, Sent
  <2> QED BY <2>1 DEF Heard
<1>4. ASSUME NEW r \in targets, MeetValue(r) PROVE Heard'
  <2>1. /\ UNCHANGED <<op, targets, valueC, answered>> /\ go[r] = "value"
        /\ values' = Append(values, r)
        /\ go' = [go EXCEPT ![r] = IF Pairs(op) THEN "meta" ELSE "end"]
    BY <1>4 DEF MeetValue, GotValue, SentValue
  <2>2. r \notin ToSet(values) /\ values \in Seq(targets) /\ Distinct(values)
        /\ go \in [targets -> {"call", "value", "meta", "end"}]
    BY <2>1 DEF Fanned, Sent
  <2>3. ToSet(values') = ToSet(values) \cup {r}
    BY <2>1, <2>2, AppendToSet
  <2> QED BY <2>1, <2>2, <2>3 DEF Heard
<1>5. CASE TakeValue
  <2> DEFINE r == Head(valueC)
  <2>1. /\ valueC # <<>> /\ valueC' = Tail(valueC) /\ values' = Append(values, r)
        /\ UNCHANGED <<op, targets, go, answered>>
    BY <1>5 DEF TakeValue, GotValue
  <2>2. /\ r \in targets /\ ToSet(valueC') = ToSet(valueC) \ {r} /\ r \in ToSet(valueC)
    BY <2>1, TailToSet DEF Fanned, Sent
  <2>3. r \notin ToSet(values) /\ values \in Seq(targets) /\ Distinct(values)
    BY <2>2 DEF Fanned, Sent
  <2>4. ToSet(values') = ToSet(values) \cup {r}
    BY <2>1, <2>2, <2>3, AppendToSet
  <2> QED BY <2>1, <2>2, <2>4 DEF Heard
<1>6. CASE TakeMeta
  BY <1>6 DEF TakeMeta, GotMeta, Heard
<1>7. CASE UNCHANGED fanoutVars
  BY <1>7 DEF fanoutVars, Heard
<1> QED BY <1>1, <1>2, <1>3, <1>4, <1>5, <1>6, <1>7 DEF FanoutNext, Passing

\* An operation that returns has counted each call once and, unless it is a
\* QuorumPut, has the answer of every replica it called, a QuorumGet of a majority,
\* for any number of replicas (GetMUL, PutMUL, MultiGet, QuorumGet, QuorumPut).
THEOREM ReturnsHeard == FanoutSpec => []AllHeard
<1>1. Fanned /\ Heard => AllHeard
  <2> SUFFICES ASSUME Fanned, Heard, caller = "done"
               PROVE  /\ ToSet(values) = targets /\ Len(values) = Cardinality(targets)
                      /\ op # "QuorumPut" => answered = targets
                      /\ Pairs(op) => ToSet(metas) = targets
                      /\ op = "QuorumGet" => 2 * Cardinality(answered) > PeerN
    BY DEF AllHeard
  <2>1. /\ left = 0 /\ Len(values) = Awaited(op)
        /\ Pairs(op) => Len(metas) = Awaited(op)
    BY DEF Fanned, Awaiting, Sent
  <2>2. /\ ToSet(values) \in SUBSET targets /\ ToSet(metas) \in SUBSET targets
        /\ Cardinality(ToSet(values)) = Len(values) /\ Cardinality(ToSet(metas)) = Len(metas)
    BY Senders, SizeOfDistinct DEF Fanned, Sent
  <2>3. /\ Len(values) <= Started(op) /\ IsFiniteSet(targets) /\ Cardinality(targets) = Started(op)
    BY <2>2, FS_Subset DEF Fanned, Awaiting
  <2>4. Awaited(op) = Started(op)
    <3>1. LocalN \div 2 \in Nat
      BY PeerNumbers
    <3>2. op = "LocalQuorumGet" =>
            Started(op) = LocalN \div 2 /\ Awaited(op) = LocalN \div 2 + 2
      BY DEF Awaited, Started
    <3>3. op # "LocalQuorumGet" => Awaited(op) = Started(op)
      BY DEF Awaited
    <3>4. op # "LocalQuorumGet"
      BY <2>1, <2>3, <3>1, <3>2
    <3> QED BY <3>3, <3>4
  <2>5. ToSet(values) = targets /\ (Pairs(op) => ToSet(metas) = targets)
    BY <2>1, <2>2, <2>3, <2>4, FS_Subset
  <2>6. op # "QuorumPut" => answered = targets
    BY <2>5 DEF Heard
  <2>7. op = "QuorumGet" => 2 * Started(op) > PeerN
    BY PeerNumbers DEF Started, Quorum
  <2> QED BY <2>1, <2>2, <2>3, <2>4, <2>5, <2>6, <2>7
<1> QED BY <1>1, InitFanned, NextFanned, InitHeard, NextHeard, PTL DEF FanoutSpec

-----------------------------------------------------------------------------
(* Requests forwarded *)

Forwarded == {r \in Req : way[r] # "here"}

\* The requests with command c that recv has seen the answer to.
Over(c) == {r \in Req : CommandOf[r] = c /\ way[r] = "over"}

\* The answers that went to q: what its HTTP goroutine took, what is in its
\* channel and what recv holds for it.
Answers(q) == (IF q \in served THEN 1 ELSE 0) + box[q] + (IF q \in hand THEN 1 ELSE 0)

\* A request that waits and was not replaced is the one its command names.
Findable == \A r \in Forwarded : r \notin served \cup replaced => forwards[CommandOf[r]] = r

\* forwards has one of the requests for each command forwarded; and no request
\* got more answers than requests with its command are over.
Counted ==
    /\ way \in [Req -> {"here", "sent", "there", "back", "over"}]
    /\ box \in [Req -> Nat] /\ served \subseteq Req /\ hand \subseteq Req
    /\ IsFiniteSet(Forwarded)
    /\ \A r \in Forwarded : CommandOf[r] \in DOMAIN forwards
    /\ \A c \in DOMAIN forwards : forwards[c] \in Forwarded /\ CommandOf[forwards[c]] = c
    /\ \A q \in Req : Answers(q) <= Cardinality(Over(CommandOf[q]))
    /\ Findable

\* Those that are over are finitely many.
LEMMA OverFinite ==
    ASSUME Counted, NEW c
    PROVE  IsFiniteSet(Over(c)) /\ Cardinality(Over(c)) \in Nat
<1>1. Over(c) \subseteq Forwarded
  BY DEF Over, Forwarded
<1> QED BY <1>1, FS_Subset, FS_CardinalityType DEF Counted

\* A step that moves a request on, but not over, and leaves the answers alone.
LEMMA CountedWay ==
    ASSUME Counted, NEW r \in Req, way[r] # "here", way[r] # "over", NEW w \in {"sent", "there", "back"},
           way' = [way EXCEPT ![r] = w],
           UNCHANGED <<forwards, hand, box, served, replaced>>
    PROVE  Counted'
<1>1. /\ way' \in [Req -> {"here", "sent", "there", "back", "over"}]
      /\ \A q \in Req : (way'[q] # "here" <=> way[q] # "here") /\ (way'[q] = "over" <=> way[q] = "over")
  BY DEF Counted
<1>2. Forwarded' = Forwarded /\ \A c : Over(c)' = Over(c)
  BY <1>1 DEF Forwarded, Over
<1>3. \A q \in Req : Answers(q)' = Answers(q)
  BY DEF Answers
<1>4. Findable'
  BY <1>2 DEF Findable, Counted
<1>5. \A q \in Req : Answers(q)' <= Cardinality(Over(CommandOf[q]))'
  BY <1>2, <1>3 DEF Counted
<1> QED BY <1>1, <1>2, <1>4, <1>5 DEF Counted

\* A request is forwarded.
LEMMA CountedForward ==
    ASSUME Counted, NEW r \in Req, ForwardReq(r)
    PROVE  Counted'
<1> DEFINE c == CommandOf[r]
<1>1. /\ way[r] = "here" /\ way' = [way EXCEPT ![r] = "sent"] /\ UNCHANGED <<hand, box, served>>
      /\ forwards' = [x \in DOMAIN forwards \cup {c} |-> IF x = c THEN r ELSE forwards[x]]
      /\ replaced' = replaced \cup {q \in Req \ served : way[q] # "here" /\ CommandOf[q] = c}
  BY DEF ForwardReq, Entered
<1>2. /\ way' \in [Req -> {"here", "sent", "there", "back", "over"}] /\ way'[r] = "sent"
      /\ \A q \in Req : q # r => way'[q] = way[q]
  BY <1>1 DEF Counted
<1>3. Forwarded' = Forwarded \cup {r} /\ r \notin Forwarded
  BY <1>1, <1>2 DEF Forwarded
<1>4. IsFiniteSet(Forwarded')
  BY <1>3, FS_AddElement DEF Counted
<1>5. \A x : Over(x)' = Over(x)
  BY <1>1, <1>2 DEF Over
<1>6. \A q \in Req : Answers(q)' = Answers(q)
  BY <1>1 DEF Answers
<1>7. \A q \in Forwarded' : CommandOf[q] \in DOMAIN forwards'
  BY <1>1, <1>3 DEF Counted
<1>8. \A x \in DOMAIN forwards' : forwards'[x] \in Forwarded' /\ CommandOf[forwards'[x]] = x
  BY <1>1, <1>3 DEF Counted
<1>9. ASSUME NEW q \in Forwarded', q \notin served' \cup replaced'
      PROVE  forwards'[CommandOf[q]] = q
  <2>1. CASE q = r
    BY <1>1, <2>1
  <2>2. CASE q # r
    <3>1. q \in Forwarded /\ q \in Req /\ q \notin served \cup replaced
      BY <1>1, <1>3, <1>9, <2>2 DEF Forwarded
    <3>2. CommandOf[q] # c
      BY <1>1, <1>9, <3>1 DEF Forwarded
    <3>3. CommandOf[q] \in DOMAIN forwards /\ forwards[CommandOf[q]] = q
      BY <3>1 DEF Counted, Findable
    <3> QED BY <1>1, <3>2, <3>3
  <2> QED BY <2>1, <2>2
<1>10. \A q \in Req : Answers(q)' <= Cardinality(Over(CommandOf[q]))'
  BY <1>5, <1>6 DEF Counted
<1> QED BY <1>1, <1>2, <1>4, <1>7, <1>8, <1>9, <1>10 DEF Counted, Findable

\* recv takes an answer: one more request is over, and one more answer goes to
\* the request that forwards names.
LEMMA CountedReply ==
    ASSUME Counted, NEW r \in Req, RecvReply(r)
    PROVE  Counted'
<1> DEFINE c == CommandOf[r]
           t == forwards[c]
<1>1. /\ way[r] = "back" /\ way' = [way EXCEPT ![r] = "over"] /\ hand = {} /\ hand' = {t}
      /\ UNCHANGED <<forwards, box, served, replaced>>
  BY DEF RecvReply
<1>2. /\ way' \in [Req -> {"here", "sent", "there", "back", "over"}] /\ way'[r] = "over"
      /\ \A q \in Req : q # r => way'[q] = way[q]
  BY <1>1 DEF Counted
<1>3. Forwarded' = Forwarded /\ r \in Forwarded
  BY <1>1, <1>2 DEF Forwarded
<1>4. t \in Forwarded /\ CommandOf[t] = c /\ t \in Req
  BY <1>3 DEF Counted, Forwarded
<1>5. \A x : x # c => Over(x)' = Over(x)
  BY <1>1, <1>2 DEF Over
<1>6. Over(c)' = Over(c) \cup {r} /\ r \notin Over(c)
  BY <1>1, <1>2 DEF Over
<1>7. /\ Cardinality(Over(c)') = Cardinality(Over(c)) + 1
      /\ Cardinality(Over(c)) \in Nat
  BY <1>6, OverFinite, FS_AddElement
<1>8. ASSUME NEW q \in Req PROVE Answers(q)' <= Cardinality(Over(CommandOf[q]))'
  <2>1. Answers(q) <= Cardinality(Over(CommandOf[q])) /\ Answers(q) \in Nat
    BY DEF Counted, Answers
  <2>2. Answers(q)' = Answers(q) + (IF q = t THEN 1 ELSE 0)
    <3> DEFINE a == IF q \in served THEN 1 ELSE 0
    <3>1. Answers(q) = a + box[q] + 0
      BY <1>1 DEF Answers
    <3>2. Answers(q)' = a + box[q] + (IF q = t THEN 1 ELSE 0)
      BY <1>1 DEF Answers
    <3>3. a \in Nat /\ box[q] \in Nat
      BY DEF Counted
    <3> HIDE DEF a, t
    <3> QED BY <3>1, <3>2, <3>3
  <2>3. CASE CommandOf[q] = c
    <3>1. Cardinality(Over(CommandOf[q]))' = Cardinality(Over(CommandOf[q])) + 1
      BY <1>7, <2>3
    <3>2. Cardinality(Over(CommandOf[q])) \in Nat
      BY <1>7, <2>3
    <3> QED BY <2>1, <2>2, <3>1, <3>2
  <2>4. CASE CommandOf[q] # c
    <3>1. q # t
      BY <1>4, <2>4
    <3>2. Cardinality(Over(CommandOf[q]))' = Cardinality(Over(CommandOf[q]))
      BY <1>5, <2>4
    <3> QED BY <2>1, <2>2, <3>1, <3>2
  <2> QED BY <2>3, <2>4
<1>9. Findable'
  BY <1>1, <1>3 DEF Counted, Findable
<1> QED BY <1>1, <1>2, <1>3, <1>4, <1>8, <1>9 DEF Counted

\* A step that moves an answer on.
LEMMA CountedAnswer ==
    ASSUME Counted, NEW r \in Req, ReplyTo(r) \/ Serve(r)
    PROVE  Counted'
<1>1. UNCHANGED <<forwards, way, replaced>> /\ served \subseteq served'
  BY DEF ReplyTo, Serve
<1>2. box' \in [Req -> Nat] /\ served' \subseteq Req /\ hand' \subseteq Req
  <2>1. CASE ReplyTo(r)
    BY <2>1 DEF ReplyTo, Counted
  <2>2. CASE Serve(r)
    <3>1. box[r] \in Nat /\ box[r] > 0 /\ box[r] - 1 \in Nat
      BY <2>2 DEF Serve, Counted
    <3> QED BY <2>2, <3>1 DEF Serve, Counted
  <2> QED BY <2>1, <2>2
<1>3. Forwarded' = Forwarded /\ \A c : Over(c)' = Over(c)
  BY <1>1 DEF Forwarded, Over
<1>4. ASSUME NEW q \in Req PROVE Answers(q)' <= Answers(q) /\ Answers(q) \in Nat /\ Answers(q)' \in Nat
  <2>1. box[q] \in Nat /\ box \in [Req -> Nat]
    BY DEF Counted
  <2>2. CASE ReplyTo(r)
    <3>1. served' = served /\ r \in hand /\ hand' = {} /\ box[r] = 0 /\ box' = [box EXCEPT ![r] = 1]
      BY <2>2 DEF ReplyTo
    <3> QED BY <2>1, <3>1 DEF Answers
  <2>3. CASE Serve(r)
    <3>1. /\ hand' = hand /\ r \notin served /\ served' = served \cup {r}
          /\ box[r] > 0 /\ box' = [box EXCEPT ![r] = @ - 1]
      BY <2>3 DEF Serve
    <3> QED BY <2>1, <3>1 DEF Answers
  <2> QED BY <2>2, <2>3
<1>5. ASSUME NEW q \in Req PROVE Answers(q)' <= Cardinality(Over(CommandOf[q]))'
  <2>1. Answers(q) <= Cardinality(Over(CommandOf[q])) /\ Cardinality(Over(CommandOf[q])) \in Nat
    BY OverFinite DEF Counted
  <2>2. Cardinality(Over(CommandOf[q]))' = Cardinality(Over(CommandOf[q]))
    BY <1>3
  <2> QED BY <1>4, <2>1, <2>2
<1>6. Findable'
  BY <1>1, <1>3 DEF Counted, Findable
<1> QED BY <1>1, <1>2, <1>3, <1>5, <1>6 DEF Counted

\* Nothing is forwarded at first.
LEMMA InitCounted == ForwardInit => Counted
<1> SUFFICES ASSUME ForwardInit PROVE Counted
  OBVIOUS
<1>1. Forwarded = {} /\ \A c : Over(c) = {}
  BY DEF ForwardInit, Forwarded, Over
<1>2. IsFiniteSet({}) /\ Cardinality({}) = 0
  BY FS_EmptySet
<1>3. \A q \in Req : Answers(q) = 0
  BY DEF ForwardInit, Answers
<1>4. DOMAIN forwards = {}
  BY DEF ForwardInit
<1>5. way \in [Req -> {"here", "sent", "there", "back", "over"}] /\ box \in [Req -> Nat]
  BY DEF ForwardInit
<1>6. served = {} /\ hand = {}
  BY DEF ForwardInit
<1>7. \A q \in Req : Answers(q) <= Cardinality(Over(CommandOf[q]))
  BY <1>1, <1>2, <1>3
<1> QED BY <1>1, <1>2, <1>4, <1>5, <1>6, <1>7 DEF Counted, Findable

\* Every step keeps the counts.
LEMMA NextCounted == Counted /\ [ForwardNext]_forwardVars => Counted'
<1> SUFFICES ASSUME Counted, [ForwardNext]_forwardVars PROVE Counted'
  OBVIOUS
<1>1. CASE UNCHANGED forwardVars
  BY <1>1 DEF forwardVars, Counted, Findable, Forwarded, Over, Answers
<1>2. ASSUME NEW r \in Req, RecvRequest(r) \/ ReplyBack(r) PROVE Counted'
  BY <1>2, CountedWay DEF RecvRequest, ReplyBack
<1> QED BY <1>1, <1>2, CountedForward, CountedReply, CountedAnswer DEF ForwardNext, Answering

\* recv stops for good at the channel of a request only when three requests with
\* its command have been forwarded, for any requests and commands: one answer
\* was taken, one is in the channel, and recv holds a third (recv, handleRoot).
THEOREM RecvStopsAtThird == ForwardSpec => [](Stuck => Thrice)
<1>1. Counted => (Stuck => Thrice)
  <2> SUFFICES ASSUME Counted, Stuck PROVE Thrice
    OBVIOUS
  <2>1. PICK q \in hand : box[q] > 0 /\ q \in served
    BY DEF Stuck
  <2> DEFINE c == CommandOf[q]
             S == {r \in Req : CommandOf[r] = c /\ way[r] # "here"}
  <2>2. q \in Req /\ box[q] \in Nat /\ Answers(q) <= Cardinality(Over(c)) /\ Answers(q) = 1 + box[q] + 1
    BY <2>1 DEF Counted, Answers
  <2>3. IsFiniteSet(Over(c)) /\ Cardinality(Over(c)) \in Nat
    BY OverFinite
  <2>4. Cardinality(Over(c)) > 2
    BY <2>1, <2>2, <2>3
  <2>5. S \subseteq Forwarded /\ Over(c) \subseteq S
    BY DEF Over, Forwarded
  <2>6. IsFiniteSet(S) /\ Cardinality(Over(c)) <= Cardinality(S) /\ Cardinality(S) \in Nat
    BY <2>5, FS_Subset, FS_CardinalityType DEF Counted
  <2>7. c \in DOMAIN forwards
    <3>1. Over(c) # {}
      BY <2>4, FS_EmptySet
    <3> QED BY <2>5, <3>1 DEF Counted
  <2>8. Cardinality(S) > 2
    BY <2>3, <2>4, <2>6
  <2> QED BY <2>7, <2>8 DEF Thrice
<1> QED BY <1>1, InitCounted, NextCounted, PTL DEF ForwardSpec

\* Until it has its answer, a forwarded request is the one that recv finds under
\* its command, unless a request with the same command was forwarded after it,
\* for any requests and commands (Forward, recv).
THEOREM UnreplacedIsFound == ForwardSpec => []Findable
<1>1. Counted => Findable
  BY DEF Counted
<1> QED BY <1>1, InitCounted, NextCounted, PTL DEF ForwardSpec
=============================================================================
