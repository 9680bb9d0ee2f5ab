------------------------------- MODULE Client -------------------------------
(***************************************************************************)
(* Put and Get of the HTTP client (src/client.go).  The workers of a       *)
(* benchmark share one client: its field ID, and the package variable rr   *)
(* that Next uses to go round the replicas in List.  No lock protects      *)
(* them, so every access to one is a step of its own.                      *)
(*                                                                         *)
(* The replicas are seen from outside: they execute the requests in the    *)
(* order of their numbers, each number once, when they have as many as     *)
(* they vote for at a time, and answer then, if at all.                    *)
(***************************************************************************)
EXTENDS Integers, FiniteSets

CONSTANTS
    Caller,    \* goroutines that call the client
    N,         \* len(config.Addrs): List holds replicas 0 .. N-1
    MaxPuts,   \* bound: writes
    MaxGets    \* bound: reads

ASSUME ClientWorkers    == IsFiniteSet(Caller)
ASSUME ClientAssumption == N \in Nat \ {0} /\ MaxPuts \in Nat /\ MaxGets \in Nat

Replica     == 0..(N - 1)
BatchSize   == Cardinality(Caller)
Place   == {"idle", "pick", "inc", "incd", "mod", "modd", "ret", "set", "send",
            "wait", "panic"}

VARIABLES
    rr,         \* index of the next replica in List
    id,         \* c.ID
    pc, tmp,    \* where each worker is; the value it read last
    no,         \* the number of each worker's request
    puts, gets, \* requests begun; the benchmark numbers writes 0, 1, 2, ...
    load,       \* load[r]: requests sent to replica r
    submitted,  \* numbers the replicas have got
    execute,    \* the number the replicas execute next
    raced       \* history: TRUE when a Put began during another's Next

shared  == <<rr, id>>
service == <<load, submitted, execute>>
vars    == <<shared, pc, tmp, no, puts, gets, service, raced>>

Init == /\ rr = 0 /\ id \in Replica
        /\ pc = [w \in Caller |-> "idle"]
        /\ tmp = [w \in Caller |-> 0] /\ no = [w \in Caller |-> 0]
        /\ puts = 0 /\ gets = 0
        /\ load = [r \in Replica |-> 0]
        /\ submitted = {} /\ execute = 0
        /\ raced = FALSE

\* No worker other than w is between the call of Put or Get and its sending.
Alone(w) == \A v \in Caller \ {w} : pc[v] \in {"idle", "wait"}

Goto(w, p) == pc' = [pc EXCEPT ![w] = p]

\* Put(key, value, number) is called.
BeginPut(w) ==
    /\ pc[w] = "idle" /\ puts < MaxPuts
    /\ Goto(w, "pick")
    /\ no' = [no EXCEPT ![w] = puts]
    /\ puts' = puts + 1
    /\ raced' = (raced \/ ~Alone(w))
    /\ UNCHANGED <<shared, tmp, gets, service>>

\* RESTGet sends every read with the number 0.
GetNumber == 0

\* Get(key) is called: it goes to the replica c.ID names.
BeginGet(w) ==
    /\ pc[w] = "idle" /\ gets < MaxGets
    /\ Goto(w, "send")
    /\ no' = [no EXCEPT ![w] = GetNumber]
    /\ gets' = gets + 1
    /\ UNCHANGED <<shared, tmp, puts, service, raced>>

-----------------------------------------------------------------------------
(* Next, called by Put *)

\* c.ID = lst[rr]: an index out of range ends the process.
Pick(w) ==
    /\ pc[w] = "pick"
    /\ \/ rr \in Replica /\ id' = rr /\ Goto(w, "inc")
       \/ rr \notin Replica /\ Goto(w, "panic") /\ UNCHANGED id
    /\ UNCHANGED <<rr, tmp, no, puts, gets, service, raced>>

Load(w, from, to) ==
    /\ pc[w] = from
    /\ tmp' = [tmp EXCEPT ![w] = rr]
    /\ Goto(w, to)
    /\ UNCHANGED <<shared, no, puts, gets, service, raced>>

Store(w, from, to, v) ==
    /\ pc[w] = from
    /\ rr' = v
    /\ Goto(w, to)
    /\ UNCHANGED <<id, tmp, no, puts, gets, service, raced>>

WrapLate(v)  == IF v > N THEN 0 ELSE v   \* mutant: off by one
WrapEarly(v) == v % (N - 1)              \* mutant: off by one

\* rr % len(config.Addrs)
Wrap(v) == v % N

\* rr++ and rr = rr % len(config.Addrs), each a read and a write.
LoadInc(w)  == Load(w, "inc", "incd")
StoreIncOnly(w) == Store(w, "incd", "ret", tmp[w] + 1)   \* mutant: no modulo
StoreInc(w) == Store(w, "incd", "mod", tmp[w] + 1)
LoadMod(w)  == Load(w, "mod", "modd")
StoreMod(w) == Store(w, "modd", "ret", Wrap(tmp[w]))

\* return c.ID
Return(w) ==
    /\ pc[w] = "ret"
    /\ tmp' = [tmp EXCEPT ![w] = id]
    /\ Goto(w, "set")
    /\ UNCHANGED <<shared, no, puts, gets, service, raced>>

-----------------------------------------------------------------------------
(* The rest of Put and Get *)

\* c.ID = c.Next(List)
SetID(w) ==
    /\ pc[w] = "set"
    /\ id' = tmp[w]
    /\ Goto(w, "send")
    /\ UNCHANGED <<rr, tmp, no, puts, gets, service, raced>>

\* RESTPut and RESTGet send the request to the replica c.ID names now.
Send(w) ==
    /\ pc[w] = "send"
    /\ load' = [load EXCEPT ![id] = @ + 1]
    /\ submitted' = submitted \cup {no[w]}
    /\ Goto(w, "wait")
    /\ UNCHANGED <<shared, tmp, no, puts, gets, execute, raced>>

\* The workers that wait for the answer to number s.
Waiting(s) == {w \in Caller : pc[w] = "wait" /\ no[w] = s}

\* The replicas execute number s, not before they can fill a batch of BatchSize
\* commands to vote for, and answer some of those who wait for it.
Execute(s) ==
    /\ s = execute /\ s \in submitted /\ Cardinality(submitted) >= BatchSize
    /\ execute' = execute + 1
    /\ \E A \in SUBSET Waiting(s) :
          pc' = [w \in Caller |-> IF w \in A THEN "idle" ELSE pc[w]]
    /\ UNCHANGED <<shared, tmp, no, puts, gets, load, submitted, raced>>

Step(w) == \/ Pick(w) \/ LoadInc(w) \/ StoreInc(w) \/ LoadMod(w) \/ StoreMod(w)
           \/ Return(w) \/ SetID(w) \/ Send(w)

Calls == /\ \A w \in Caller : pc[w] # "panic"
         /\ \E w \in Caller : BeginPut(w) \/ BeginGet(w) \/ Step(w)

Next == Calls \/ \E s \in submitted : Execute(s)

Spec == Init /\ [][Next]_vars

\* The process goes on while it can; a call takes finitely many steps, so that
\* every goroutine gets its turn.  The replicas need not execute or answer.
FairSpec == Spec /\ WF_vars(Calls)

-----------------------------------------------------------------------------
(* Properties *)

TypeOK == /\ rr \in Nat /\ id \in Replica
          /\ pc \in [Caller -> Place]
          /\ tmp \in [Caller -> Nat] /\ no \in [Caller -> Nat]
          /\ puts \in Nat /\ gets \in Nat
          /\ load \in [Replica -> Nat]
          /\ submitted \subseteq Nat /\ execute \in Nat
          /\ raced \in BOOLEAN
          /\ \A w \in Caller : pc[w] = "set" => tmp[w] \in Replica

\* However the workers' accesses to rr mix, it is an index of List again as soon
\* as none of them is between rr++ and the end of the modulo (Next).
Settles == rr \notin Replica => \E w \in Caller : pc[w] \in {"mod", "modd"}

\* Going round the replicas spreads the writes evenly as long as the calls of
\* Put do not overlap before they send: when no request is on its way to a
\* replica their loads differ by at most one (Next, Put).
RoundRobin ==
    (\A w \in Caller : pc[w] \in {"idle", "wait"}) /\ gets = 0 /\ ~raced =>
        \A r, s \in Replica : load[r] - load[s] <= 1

\* Every request gets to a replica, where it waits for its answer, unless calls
\* that overlapped in Next ended the process with an index out of range: nobody
\* waits for another call, and one call at a time never panics (Put, Get, Next).
RequestsSent ==
    \A w \in Caller :
        pc[w] # "idle"
          ~> (pc[w] \in {"wait", "idle"}
                \/ (raced /\ \E v \in Caller : pc[v] = "panic"))
=============================================================================
