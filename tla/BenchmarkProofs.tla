-------------------------- MODULE BenchmarkProofs ---------------------------
(***************************************************************************)
(* Proofs about Benchmark: the numbers of the writes of a Run are gap-free *)
(* for any number of workers and requests, with reads and failures, the    *)
(* WaitGroup counts the requests that have no recorded result, so that a   *)
(* Run or a Load that returns is complete, and keys and numbers stay in    *)
(* step.                                                                   *)
(***************************************************************************)
EXTENDS Benchmark, FiniteSetTheorems, TLAPS

\* What Numbered needs to be inductive: the numbers are integers.
NumberTypes == written \in Seq(Int) /\ couner \in Int

\* Every write of a Run gets a number of its own and none is skipped (Run,
\* worker).
THEOREM WritesAreNumbered == BenchmarkSpec => []Numbered
<1> DEFINE Inv == NumberTypes /\ Numbered
<1>1. BenchmarkInit => Inv
  BY DEF BenchmarkInit, NumberTypes, Numbered
<1>2. Inv /\ [BenchmarkNext]_benchmarkVars => Inv'
  <2> SUFFICES ASSUME Inv, [BenchmarkNext]_benchmarkVars PROVE Inv'
    OBVIOUS
  <2> USE DEF NumberTypes, Numbered
  <2>1. CASE SendKey
    BY <2>1 DEF SendKey, NextNumber
  <2>2. ASSUME NEW w \in Worker, SendNumber(w) PROVE Inv'
    <3>1. written' = Append(written, couner) /\ couner' = couner
      BY <2>2 DEF SendNumber
    <3>2. written' \in Seq(Int) /\ Len(written') = Len(written) + 1
      BY <3>1
    <3>3. mode # "Load" => couner = Len(written)
      BY <2>2 DEF SendNumber
    <3>4. mode # "Load" => \A i \in DOMAIN written' : written'[i] = i - 1
      <4> SUFFICES ASSUME mode # "Load", NEW i \in 1..(Len(written) + 1)
                   PROVE  written'[i] = i - 1
        BY <3>2
      <4>1. CASE i = Len(written) + 1
        BY <3>1, <3>3, <4>1
      <4>2. CASE i \in 1..Len(written)
        BY <3>1, <4>2
      <4> QED BY <4>1, <4>2
    <3> QED BY <2>2, <3>1, <3>2, <3>3, <3>4 DEF SendNumber
  <2>3. CASE EndLoop
    BY <2>3 DEF EndLoop
  <2>4. CASE EndRun
    BY <2>4 DEF EndRun
  <2>5. CASE Collect
    BY <2>5 DEF Collect
  <2>6. ASSUME NEW w \in Worker, TakeKey(w) PROVE Inv'
    BY <2>6 DEF TakeKey
  <2>7. ASSUME NEW w \in Worker, ExitWorker(w) PROVE Inv'
    BY <2>7 DEF ExitWorker
  <2>8. ASSUME NEW w \in Worker, WriteReturns(w) \/ WriteFails(w) PROVE Inv'
    BY <2>8 DEF WriteReturns, WriteFails
  <2>9. ASSUME NEW w \in Worker, Result(w) PROVE Inv'
    BY <2>9 DEF Result, AfterError
  <2>10. CASE UNCHANGED benchmarkVars
    BY <2>10 DEF benchmarkVars
  <2> QED BY <2>1, <2>2, <2>3, <2>4, <2>5, <2>6, <2>7, <2>8, <2>9, <2>10
          DEF BenchmarkNext, Progress
<1>3. Inv => Numbered
  OBVIOUS
<1> QED BY <1>1, <1>2, <1>3, PTL DEF BenchmarkSpec

\* What WaitCounts needs to be inductive: places of the workers, counters.
Places == {"take", "number", "write", "result", "exit", "panic"}
WaitTypes == /\ worker \in [Worker -> Places]
             /\ keys \in Nat /\ latencies \in Nat /\ wait \in Int /\ failed \in Nat

\* The workers with a request are finitely many (worker).
LEMMA BusyFinite == IsFiniteSet(Busy) /\ Cardinality(Busy) \in Nat
<1>1. Busy \subseteq Worker
  BY DEF Busy
<1>2. IsFiniteSet(Busy)
  BY <1>1, WorkerAssumption, FS_Subset
<1> QED BY <1>2, FS_CardinalityType

\* A worker that goes to a place p with a request and had none adds one to
\* those that have; one that goes from such a place to another adds none; one
\* that goes back to take a key takes one away (worker).
LEMMA BusyMoves ==
    ASSUME WaitTypes, NEW w \in Worker, NEW p \in Places,
           worker' = [worker EXCEPT ![w] = p]
    PROVE  LET held == {"number", "write", "result", "panic"}
           IN /\ p \in held /\ worker[w] \notin held =>
                    Cardinality(Busy') = Cardinality(Busy) + 1
              /\ p \notin held /\ worker[w] \in held =>
                    Cardinality(Busy') = Cardinality(Busy) - 1
              /\ (p \in held <=> worker[w] \in held) => Busy' = Busy
<1> DEFINE held == {"number", "write", "result", "panic"}
<1>1. CASE p \in held /\ worker[w] \notin held
  <2>1. Busy' = Busy \cup {w} /\ w \notin Busy
    BY <1>1 DEF Busy, WaitTypes
  <2> QED BY <1>1, <2>1, BusyFinite, FS_AddElement
<1>2. CASE p \notin held /\ worker[w] \in held
  <2>1. Busy' = Busy \ {w} /\ w \in Busy
    BY <1>2 DEF Busy, WaitTypes
  <2> QED BY <1>2, <2>1, BusyFinite, FS_RemoveElement
<1>3. CASE p \in held <=> worker[w] \in held
  <2>1. Busy' = Busy
    BY <1>3 DEF Busy, WaitTypes
  <2> QED BY <1>3, <2>1
<1> QED BY <1>1, <1>2, <1>3

\* WaitCounts is inductive.
LEMMA WaitInvariant == BenchmarkSpec => [](WaitTypes /\ WaitCounts)
<1> DEFINE Inv == WaitTypes /\ WaitCounts
<1>1. BenchmarkInit => Inv
  <2> SUFFICES ASSUME BenchmarkInit PROVE Inv
    OBVIOUS
  <2>1. WaitTypes
    BY DEF BenchmarkInit, WaitTypes, Places
  <2>2. Busy = {}
    BY DEF BenchmarkInit, Busy
  <2>3. Cardinality(Busy) = 0
    BY <2>2, FS_EmptySet
  <2> QED BY <2>1, <2>3 DEF BenchmarkInit, WaitCounts
<1>2. Inv /\ [BenchmarkNext]_benchmarkVars => Inv'
  <2> SUFFICES ASSUME Inv, [BenchmarkNext]_benchmarkVars PROVE Inv'
    OBVIOUS
  <2>0. Cardinality(Busy) \in Nat
    BY BusyFinite
  <2>1. CASE SendKey
    <3>1. WaitTypes' /\ Busy' = Busy
      BY <2>1 DEF SendKey, WaitTypes, Busy
    <3> QED BY <2>0, <2>1, <3>1 DEF SendKey, WaitCounts, WaitTypes
  <2>2. ASSUME NEW w \in Worker, SendNumber(w) PROVE Inv'
    <3>1. WaitTypes'
      BY <2>2 DEF SendNumber, WaitTypes, Places
    <3>2. Busy' = Busy
      BY <2>2, BusyMoves DEF SendNumber, Places
    <3> QED BY <2>2, <3>1, <3>2 DEF SendNumber, WaitCounts
  <2>3. CASE EndLoop
    BY <2>3 DEF EndLoop, WaitTypes, WaitCounts, Busy
  <2>4. CASE EndRun
    BY <2>4 DEF EndRun, WaitTypes, WaitCounts, Busy
  <2>5. CASE Collect
    <3>1. WaitTypes' /\ Busy' = Busy
      BY <2>5 DEF Collect, WaitTypes, Busy
    <3> QED BY <2>0, <2>5, <3>1 DEF Collect, WaitCounts, WaitTypes
  <2>6. ASSUME NEW w \in Worker, TakeKey(w) PROVE Inv'
    <3>1. WaitTypes'
      BY <2>6 DEF TakeKey, WaitTypes, Places
    <3>2. PICK p \in {"number", "result"} : worker' = [worker EXCEPT ![w] = p]
      BY <2>6 DEF TakeKey
    <3>3. Cardinality(Busy') = Cardinality(Busy) + 1
      BY <2>6, <3>2, BusyMoves DEF TakeKey, Places
    <3> QED BY <2>0, <2>6, <3>1, <3>3 DEF TakeKey, WaitCounts, WaitTypes
  <2>7. ASSUME NEW w \in Worker, ExitWorker(w) PROVE Inv'
    <3>1. WaitTypes'
      BY <2>7 DEF ExitWorker, WaitTypes, Places
    <3>2. Busy' = Busy
      BY <2>7, BusyMoves DEF ExitWorker, Places
    <3> QED BY <2>7, <3>1, <3>2 DEF ExitWorker, WaitCounts
  <2>8. ASSUME NEW w \in Worker, WriteReturns(w) \/ WriteFails(w) PROVE Inv'
    <3>1. WaitTypes'
      BY <2>8 DEF WriteReturns, WriteFails, WaitTypes, Places
    <3>2. Busy' = Busy
      BY <2>8, BusyMoves DEF WriteReturns, WriteFails, Places
    <3> QED BY <2>8, <3>1, <3>2 DEF WriteReturns, WriteFails, WaitCounts
  <2>9. ASSUME NEW w \in Worker, Result(w) PROVE Inv'
    <3>1. WaitTypes'
      BY <2>9 DEF Result, AfterError, WaitTypes, Places
    <3>2. CASE worker' = [worker EXCEPT ![w] = "take"]
      <4>1. Cardinality(Busy') = Cardinality(Busy) - 1
        BY <2>9, <3>2, BusyMoves DEF Result, AfterError, Places
      <4>2. worker' # [worker EXCEPT ![w] = "panic"]
        BY <3>2 DEF WaitTypes
      <4>3. \/ failed' = failed + 1 /\ latencies' = latencies
            \/ failed' = failed /\ latencies' = latencies + 1
        BY <2>9, <4>2 DEF Result, AfterError
      <4> QED BY <2>0, <2>9, <3>1, <4>1, <4>3 DEF Result, AfterError, WaitCounts, WaitTypes
    <3>3. CASE worker' = [worker EXCEPT ![w] = "panic"]
      <4>1. Busy' = Busy
        BY <2>9, <3>3, BusyMoves DEF Result, AfterError, Places
      <4>2. worker' # [worker EXCEPT ![w] = "take"]
        BY <3>3 DEF WaitTypes
      <4> QED BY <2>9, <3>1, <4>1, <4>2 DEF Result, AfterError, WaitCounts
    <3> QED BY <2>9, <3>2, <3>3 DEF Result, AfterError
  <2>10. CASE UNCHANGED benchmarkVars
    BY <2>10 DEF benchmarkVars, WaitTypes, WaitCounts, Busy
  <2> QED BY <2>1, <2>2, <2>3, <2>4, <2>5, <2>6, <2>7, <2>8, <2>9, <2>10
          DEF BenchmarkNext, Progress
<1> QED BY <1>1, <1>2, PTL DEF BenchmarkSpec

\* The WaitGroup counts exactly the requests that have no recorded result
\* (Run, worker, collect).
THEOREM WaitGroupCounts == BenchmarkSpec => []WaitCounts
BY WaitInvariant, PTL

-----------------------------------------------------------------------------
(* What is complete when Run or Load returns *)

\* Every request is generated before the end and counted off when recorded, and
\* once Run or Load has returned none is left.
Ended ==
    /\ generated \in Nat /\ latency \in Nat
    /\ wait = generated - latency
    /\ mode # "T" /\ main \in {"wait", "done"} => generated = NumRequests
    /\ mode # "T" /\ main = "done" => wait = 0

\* Nothing is generated or recorded at first.
LEMMA InitEnded == BenchmarkInit => Ended
BY DEF BenchmarkInit, Ended

\* Every step of the main goroutine, a worker and the collector keeps Ended.
LEMMA NextEnded == WaitTypes /\ WaitCounts /\ Ended /\ [BenchmarkNext]_benchmarkVars => Ended'
<1> SUFFICES ASSUME WaitTypes, WaitCounts, Ended, [BenchmarkNext]_benchmarkVars PROVE Ended'
  OBVIOUS
<1>1. CASE SendKey
  BY <1>1 DEF SendKey, Ended
<1>2. ASSUME NEW w \in Worker,
             \/ SendNumber(w) \/ TakeKey(w) \/ ExitWorker(w) \/ WriteReturns(w)
             \/ WriteFails(w) \/ Result(w)
      PROVE  Ended'
  BY <1>2 DEF SendNumber, TakeKey, ExitWorker, WriteReturns, WriteFails, Result, AfterError, Ended
<1>3. CASE EndLoop
  BY <1>3 DEF EndLoop, Ended
<1>4. CASE EndRun
  BY <1>4 DEF EndRun, WaitOver, Ended
<1>5. CASE Collect
  <2>1. wait > 0 /\ wait' = wait - 1 /\ latency' = latency + 1
    BY <1>5, BusyFinite DEF Collect, WaitCounts, WaitTypes
  <2> QED BY <1>5, <2>1 DEF Collect, Ended
<1>6. CASE UNCHANGED benchmarkVars
  BY <1>6 DEF benchmarkVars, Ended
<1> QED BY <1>1, <1>2, <1>3, <1>4, <1>5, <1>6 DEF BenchmarkNext, Progress

\* When Run without a time limit or Load returns, every request has its latency
\* recorded and no worker is left that could meet a closed channel, for any
\* number of workers and requests and whatever writes fail (Run, Load, collect).
THEOREM ReturnIsComplete == BenchmarkSpec => []Complete
<1>1. WaitTypes /\ WaitCounts /\ Ended => Complete
  <2> SUFFICES ASSUME WaitTypes, WaitCounts, Ended, main = "done", mode # "T"
               PROVE  latency = NumRequests /\ Busy = {}
    BY DEF Complete
  <2>1. wait = 0 /\ generated = NumRequests
    BY DEF Ended
  <2>2. Cardinality(Busy) = 0
    BY <2>1, BusyFinite DEF WaitCounts, WaitTypes
  <2> QED BY <2>1, <2>2, BusyFinite, FS_EmptySet DEF Ended
<1> QED BY <1>1, InitEnded, NextEnded, WaitInvariant, PTL DEF BenchmarkSpec

-----------------------------------------------------------------------------
(* Keys and numbers *)

\* The workers that have a key and wait for its number.
Numbering == {w \in Worker : worker[w] = "number"}

\* The writes that were given a number are finitely many.
LEMMA NumberingFinite == IsFiniteSet(Numbering) /\ Cardinality(Numbering) \in Nat
<1>1. Numbering \in SUBSET Worker
  BY DEF Numbering
<1> QED BY <1>1, WorkerAssumption, FS_Subset, FS_CardinalityType

\* The main goroutine waits for a worker to take the number of the one key that
\* is ahead, before it sends another: the buffer of keys is never filled (Run).
THEOREM KeysInStep == BenchmarkSpec => []InStep
<1>1. BenchmarkInit => InStep
  <2> SUFFICES ASSUME BenchmarkInit PROVE InStep
    OBVIOUS
  <2>1. Numbering = {} /\ keys = 0
    BY DEF BenchmarkInit, Numbering
  <2> QED BY <2>1, FS_EmptySet DEF InStep, Numbering
<1>2. WaitTypes /\ InStep /\ [BenchmarkNext]_benchmarkVars => InStep'
  <2> SUFFICES ASSUME WaitTypes, InStep, [BenchmarkNext]_benchmarkVars PROVE InStep'
    OBVIOUS
  <2>0. Cardinality(Numbering) \in Nat /\ keys \in Nat
    BY NumberingFinite DEF WaitTypes
  <2>1. keys + Cardinality(Numbering) <= IF main = "number" THEN 1 ELSE 0
    BY DEF InStep, Numbering
  <2> SUFFICES keys' + Cardinality(Numbering') <= IF main' = "number" THEN 1 ELSE 0
    BY DEF InStep, Numbering
  <2>2. CASE SendKey \/ EndLoop \/ EndRun \/ Collect \/ UNCHANGED benchmarkVars
    <3>1. Numbering' = Numbering
      BY <2>2 DEF SendKey, EndLoop, EndRun, Collect, benchmarkVars, Numbering
    <3>2. CASE SendKey
      BY <2>0, <2>1, <3>1, <3>2 DEF SendKey
    <3>3. CASE EndLoop \/ EndRun \/ Collect \/ UNCHANGED benchmarkVars
      BY <2>0, <2>1, <3>1, <3>3 DEF EndLoop, EndRun, Collect, benchmarkVars
    <3> QED BY <2>2, <3>2, <3>3
  <2>3. ASSUME NEW w \in Worker, SendNumber(w)
        PROVE  keys' + Cardinality(Numbering') <= IF main' = "number" THEN 1 ELSE 0
    <3>1. Numbering' = Numbering \ {w} /\ w \in Numbering /\ keys' = keys
      BY <2>3 DEF SendNumber, WaitTypes, Numbering
    <3>2. Cardinality(Numbering') = Cardinality(Numbering) - 1
      BY <3>1, NumberingFinite, FS_RemoveElement
    <3> QED BY <2>0, <2>1, <2>3, <3>1, <3>2 DEF SendNumber
  <2>4. ASSUME NEW w \in Worker, TakeKey(w)
        PROVE  keys' + Cardinality(Numbering') <= IF main' = "number" THEN 1 ELSE 0
    <3>1. Numbering' = Numbering \/ Numbering' = Numbering \cup {w}
      BY <2>4 DEF TakeKey, WaitTypes, Numbering
    <3>2. Cardinality(Numbering') <= Cardinality(Numbering) + 1
          /\ Cardinality(Numbering') \in Nat
      BY <2>0, <3>1, NumberingFinite, FS_AddElement
    <3>3. main' = main /\ keys' = keys - 1
      BY <2>4 DEF TakeKey
    <3> QED BY <2>0, <2>1, <3>2, <3>3
  <2>5. ASSUME NEW w \in Worker,
               ExitWorker(w) \/ WriteReturns(w) \/ WriteFails(w) \/ Result(w)
        PROVE  keys' + Cardinality(Numbering') <= IF main' = "number" THEN 1 ELSE 0
    <3>1. Numbering' = Numbering /\ UNCHANGED <<keys, main>>
      BY <2>5 DEF ExitWorker, WriteReturns, WriteFails, Result, AfterError, WaitTypes, Numbering
    <3> QED BY <2>1, <3>1
  <2> QED BY <2>2, <2>3, <2>4, <2>5 DEF BenchmarkNext, Progress
<1> QED BY <1>1, <1>2, WaitInvariant, PTL DEF BenchmarkSpec
=============================================================================
