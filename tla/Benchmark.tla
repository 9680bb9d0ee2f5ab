----------------------------- MODULE Benchmark ------------------------------
(***************************************************************************)
(* The benchmark process (src/benchmark.go): the main goroutine in Run or  *)
(* Load generates keys and numbers, Concurrency workers write, and collect *)
(* records the latencies.  They share three channels, keys (buffered),     *)
(* globalCouner (unbuffered) and latencies (buffered), and a WaitGroup.    *)
(*                                                                         *)
(* The number that goes with a write is its slot in the replicas' log: the *)
(* replicas do not answer it before they have got all lower numbers and    *)
(* have voted, which they do for Concurrency writes at a time.  Nothing    *)
(* makes them answer it then.                                              *)
(***************************************************************************)
EXTENDS Integers, FiniteSets, Sequences, SequencesExt

CONSTANTS
    Worker,       \* the Concurrency worker goroutines
    Modes,        \* what is called: "N", Run with T = 0; "T", with T > 0; "Load"
    NumRequests,  \* b.N, b.K for Load; bound: requests before time is up
    LatencyCap,   \* capacity of latencies (1000)
    Reads,        \* TRUE: b.W < 1, a worker may take the read branch
    WriteErrors   \* TRUE: a write may fail

ASSUME WorkerAssumption == IsFiniteSet(Worker) /\ Worker # {}
ASSUME ModeAssumption   == Modes \subseteq {"N", "T", "Load"}
ASSUME SizeAssumption   == NumRequests \in Nat /\ LatencyCap \in Nat \ {0}
ASSUME FlagAssumption   == Reads \in BOOLEAN /\ WriteErrors \in BOOLEAN

Concurrency == Cardinality(Worker)

VARIABLES
    mode,       \* the operation called, of Modes
    main,       \* where the main goroutine is
    generated,  \* requests generated: the loop's i
    couner,     \* b.globalCouner
    keys,       \* keys waiting in the channel
    closed,     \* closed channels
    worker,     \* where each worker is
    number,     \* the number each worker writes
    err,        \* err of each worker, which outlives the iteration
    latencies,  \* results waiting in the channel
    wait,       \* the WaitGroup's counter
    latency,    \* results recorded by collect
    written,    \* history: numbers written to the replicas, in order
    failed,     \* history: requests without a result
    reads       \* history: TRUE when a worker took the read branch

benchmarkVars == <<mode, main, generated, couner, keys, closed, worker, number,
                   err, latencies, wait, latency, written, failed, reads>>

BenchmarkInit ==
    /\ mode \in Modes
    /\ main = "loop" /\ generated = 0 /\ couner = -1
    /\ keys = 0 /\ closed = {}
    /\ worker = [w \in Worker |-> "take"]
    /\ number = [w \in Worker |-> -1]
    /\ err = [w \in Worker |-> FALSE]
    /\ latencies = 0 /\ wait = 0 /\ latency = 0
    /\ written = <<>> /\ failed = 0 /\ reads = FALSE

NextNumberStuck == couner   \* mutant: Run does not count, like Load

\* Run counts the requests; in Load the increment is commented out.
NextNumber == IF mode = "Load" THEN couner ELSE couner + 1

WaitOverEarly == TRUE   \* mutant: Run does not wait for the results

\* b.wait.Wait() returns; Run with T > 0 does not call it.
WaitOver == mode = "T" \/ wait = 0

-----------------------------------------------------------------------------
(* The main goroutine *)

\* mutant: fills the buffer of keys before it sends a number
SendKeyAhead ==
    /\ main = "loop"
    /\ generated < NumRequests
    /\ keys < Concurrency
    /\ main' = IF keys + 1 < Concurrency THEN "loop" ELSE "number"
    /\ generated' = generated + 1
    /\ wait' = wait + 1
    /\ keys' = keys + 1
    /\ couner' = NextNumber
    /\ UNCHANGED <<mode, closed, worker, number, err, latencies, latency,
                   written, failed, reads>>

\* b.wait.Add(1), b.next() and keys <- key: blocks while the buffer is full.
SendKey ==
    /\ main = "loop"
    /\ generated < NumRequests
    /\ keys < Concurrency
    /\ main' = "number"
    /\ generated' = generated + 1
    /\ wait' = wait + 1
    /\ keys' = keys + 1
    /\ couner' = NextNumber
    /\ UNCHANGED <<mode, closed, worker, number, err, latencies, latency,
                   written, failed, reads>>

\* globalCouner <- b.globalCouner meets the <-globalCouner of worker w, which
\* calls Write with it.
SendNumber(w) ==
    /\ main = "number"
    /\ worker[w] = "number"
    /\ main' = "loop"
    /\ worker' = [worker EXCEPT ![w] = "write"]
    /\ number' = [number EXCEPT ![w] = couner]
    /\ written' = Append(written, couner)
    /\ UNCHANGED <<mode, generated, couner, keys, closed, err, latencies,
                   wait, latency, failed, reads>>

\* The loop ends: after N (K) requests, or at any time when T > 0.
EndLoop ==
    /\ main = "loop"
    /\ mode = "T" \/ generated = NumRequests
    /\ main' = "wait"
    /\ closed' = IF mode = "Load" THEN {"keys"} ELSE {}
    /\ UNCHANGED <<mode, generated, couner, keys, worker, number, err,
                   latencies, wait, latency, written, failed, reads>>

\* Run (Load) closes the channels and returns.
EndRun ==
    /\ main = "wait"
    /\ WaitOver
    /\ main' = "done"
    /\ closed' = {"keys", "latencies"}
    /\ UNCHANGED <<mode, generated, couner, keys, worker, number, err,
                   latencies, wait, latency, written, failed, reads>>

-----------------------------------------------------------------------------
(* The workers *)

\* for k := range keys: a write waits for its number, a read is over at once.
TakeKey(w) ==
    /\ worker[w] = "take"
    /\ keys > 0
    /\ keys' = keys - 1
    /\ \/ /\ worker' = [worker EXCEPT ![w] = "number"]
          /\ UNCHANGED reads
       \/ /\ Reads /\ mode # "Load"   \* Load sets b.W = 1.0
          /\ worker' = [worker EXCEPT ![w] = "result"]
          /\ reads' = TRUE
    /\ UNCHANGED <<mode, main, generated, couner, closed, number, err,
                   latencies, wait, latency, written, failed>>

ExitWorker(w) ==
    /\ worker[w] = "take"
    /\ keys = 0 /\ "keys" \in closed
    /\ worker' = [worker EXCEPT ![w] = "exit"]
    /\ UNCHANGED <<mode, main, generated, couner, keys, closed, number, err,
                   latencies, wait, latency, written, failed, reads>>

\* What the replicas need to answer number no: it and all lower ones, and as many
\* as they vote for at a time.
Answerable(no) ==
    /\ no >= 0 /\ 0..no \subseteq ToSet(written)
    /\ Len(written) >= Concurrency

\* Write returns without an error, if the replicas answer it.
WriteReturns(w) ==
    /\ worker[w] = "write"
    /\ Answerable(number[w])
    /\ err' = [err EXCEPT ![w] = FALSE]
    /\ worker' = [worker EXCEPT ![w] = "result"]
    /\ UNCHANGED <<mode, main, generated, couner, keys, closed, number,
                   latencies, wait, latency, written, failed, reads>>

\* Write returns an error, answerable or not.
WriteFails(w) ==
    /\ WriteErrors
    /\ worker[w] = "write"
    /\ err' = [err EXCEPT ![w] = TRUE]
    /\ worker' = [worker EXCEPT ![w] = "result"]
    /\ UNCHANGED <<mode, main, generated, couner, keys, closed, number,
                   latencies, wait, latency, written, failed, reads>>

AfterErrorReturn == "exit"   \* mutant: a worker gives up when a write fails

\* log.Error(err), and the next key.
AfterError == "take"

\* if err == nil { result <- ... }, which panics when the channel is closed.
Result(w) ==
    /\ worker[w] = "result"
    /\ \/ /\ err[w]
          /\ failed' = failed + 1
          /\ worker' = [worker EXCEPT ![w] = AfterError]
          /\ UNCHANGED latencies
       \/ /\ ~err[w] /\ "latencies" \notin closed
          /\ latencies < LatencyCap
          /\ latencies' = latencies + 1
          /\ worker' = [worker EXCEPT ![w] = "take"]
          /\ UNCHANGED failed
       \/ /\ ~err[w] /\ "latencies" \in closed
          /\ worker' = [worker EXCEPT ![w] = "panic"]
          /\ UNCHANGED <<latencies, failed>>
    /\ UNCHANGED <<mode, main, generated, couner, keys, closed, number, err,
                   wait, latency, written, reads>>

\* mutant: Done is called twice for a result
CollectTwice ==
    /\ latencies > 0
    /\ latencies' = latencies - 1
    /\ latency' = latency + 1
    /\ wait' = wait - 2
    /\ UNCHANGED <<mode, main, generated, couner, keys, closed, worker,
                   number, err, written, failed, reads>>

\* collect records a result and calls b.wait.Done().
Collect ==
    /\ latencies > 0
    /\ latencies' = latencies - 1
    /\ latency' = latency + 1
    /\ wait' = wait - 1
    /\ UNCHANGED <<mode, main, generated, couner, keys, closed, worker,
                   number, err, written, failed, reads>>

\* What the process does by itself; Next adds the answers and the failures of
\* writes.
Progress ==
    \/ SendKey \/ EndLoop \/ EndRun \/ Collect
    \/ \E w \in Worker : \/ SendNumber(w) \/ TakeKey(w) \/ ExitWorker(w)
                         \/ Result(w)

BenchmarkNext == Progress \/ \E w \in Worker : WriteReturns(w) \/ WriteFails(w)

BenchmarkSpec == BenchmarkInit /\ [][BenchmarkNext]_benchmarkVars

\* The process goes on while one of its goroutines can: a request takes finitely
\* many steps, so that the Go scheduler brings each of them about.  No write has
\* to be answered or to fail.
FairBenchmark == BenchmarkSpec /\ WF_benchmarkVars(Progress)

-----------------------------------------------------------------------------
(* Properties *)

Busy == {w \in Worker : worker[w] \in {"number", "write", "result", "panic"}}

BenchmarkTypes ==
    /\ mode \in Modes
    /\ main \in {"loop", "number", "wait", "done"}
    /\ generated \in 0..NumRequests
    /\ couner \in Int
    /\ keys \in 0..Concurrency
    /\ closed \subseteq {"keys", "latencies"}
    /\ worker \in [Worker -> {"take", "number", "write", "result", "exit",
                              "panic"}]
    /\ number \in [Worker -> Int]
    /\ err \in [Worker -> BOOLEAN]
    /\ latencies \in 0..LatencyCap
    /\ wait \in Nat /\ latency \in Nat /\ failed \in Nat /\ reads \in BOOLEAN

\* The WaitGroup counts exactly the requests without a recorded result: those
\* in a channel, with a worker or failed.  A failed one is never counted off
\* (Run, worker, collect).
WaitCounts == wait = keys + Cardinality(Busy) + latencies + failed

\* Every write gets a number of its own and none is skipped, though the workers
\* race for them: a gap or a repetition would stop the replicas' log (Run,
\* worker).
Numbered ==
    mode # "Load" =>
        /\ \A i \in DOMAIN written : written[i] = i - 1
        /\ couner = IF main = "number" THEN Len(written) ELSE Len(written) - 1

\* At most one key is ahead of its number, so that the buffer of keys is never
\* filled and the main goroutine stays in step with the workers (Run).
InStep == keys + Cardinality({w \in Worker : worker[w] = "number"})
             <= IF main = "number" THEN 1 ELSE 0

\* When Run or Load returns without a time limit every request has its latency
\* recorded and no worker can meet a closed channel (Run, collect).
Complete == main = "done" /\ mode # "T" =>
              /\ latency = NumRequests
              /\ Busy = {}

\* Nothing is left to do but to wait for answers: a worker is done with all it
\* has taken, or waits for one, and a key waits only while all workers do.
Awaiting ==
    /\ latencies = 0
    /\ \A w \in Worker : worker[w] \in {"take", "write", "exit"}
    /\ \E w \in Worker : worker[w] = "write"
    /\ keys > 0 => \A w \in Worker : worker[w] = "write"

\* The main goroutine, the workers and collect never hold one another up for
\* good: Run and Load return unless writes wait for answers of the replicas that do
\* not come, the number of a key that a read took finds no taker, or a write failed
\* of one that waits for all results (Run, Load, worker, collect).
Returns ==
    <>[](\/ main = "done"
         \/ Awaiting
         \/ main = "number" /\ reads
         \/ mode # "T" /\ failed > 0)
=============================================================================
