----------------------------- MODULE MCProcesses ----------------------------
(***************************************************************************)
(* The programs and goroutines round the replicas' log, for TLC: the       *)
(* benchmark process, the ways a request leaves a client (the round robin  *)
(* of Put and Get, and the operations on several replicas), a replica that *)
(* forwards a request, and the master.  They share nothing: a behaviour    *)
(* uses one of them and leaves the others as they began.                   *)
(***************************************************************************)
EXTENDS Client, Fanout, Forward, Benchmark, Master, TLC

CONSTANTS s1, s2, s3, c1, c2, c3, c4, c5

VARIABLE used

\* Requests with these commands are forwarded.
MCCommandOf == <<1, 1, 1, 2>>

\* Which connection to the master is whose: three replicas, one of them started
\* twice, and a client.
OneAgain == c1 :> s1 @@ c2 :> s2 @@ c3 :> s3 @@ c4 :> None @@ c5 :> s1

processVars ==
    <<used, vars, fanoutVars, forwardVars, benchmarkVars, masterVars>>

\* A part that a behaviour does not use is in a state of its own that never
\* changes and that the properties say nothing of.
FanoutUnused ==
    /\ op = "none" /\ targets = {} /\ go = <<>>
    /\ valueC = <<>> /\ metaC = <<>> /\ values = <<>> /\ metas = <<>>
    /\ left = 0 /\ caller = "done" /\ answered = {}

BenchmarkUnused ==
    /\ mode = "T" /\ main = "done" /\ generated = 0 /\ couner = -1
    /\ keys = 0 /\ closed = {}
    /\ worker = [w \in Worker |-> "take"] /\ number = [w \in Worker |-> -1]
    /\ err = [w \in Worker |-> FALSE]
    /\ latencies = 0 /\ wait = 0 /\ latency = 0
    /\ written = <<>> /\ failed = 0 /\ reads = FALSE

MasterUnused ==
    /\ at = [c \in Conn |-> "unused"] /\ addrs = <<>> /\ taken = 0
    /\ config = Empty /\ handed = 0 /\ got = [c \in Conn |-> Empty]
    /\ broken = {} /\ dead = TRUE

ProcessesInit ==
    /\ used \in {"client", "fanout", "forward", "benchmark", "master"}
    /\ Init /\ (used # "client" => id = 0)
    /\ IF used = "fanout"    THEN FanoutInit    ELSE FanoutUnused
    /\ ForwardInit
    /\ IF used = "benchmark" THEN BenchmarkInit ELSE BenchmarkUnused
    /\ IF used = "master"    THEN MasterInit    ELSE MasterUnused

ProcessesNext ==
    /\ UNCHANGED used
    /\ \/ /\ used = "client" /\ Next
          /\ UNCHANGED <<fanoutVars, forwardVars, benchmarkVars, masterVars>>
       \/ /\ used = "fanout" /\ FanoutNext
          /\ UNCHANGED <<vars, forwardVars, benchmarkVars, masterVars>>
       \/ /\ used = "forward" /\ ForwardNext
          /\ UNCHANGED <<vars, fanoutVars, benchmarkVars, masterVars>>
       \/ /\ used = "benchmark" /\ BenchmarkNext
          /\ UNCHANGED <<vars, fanoutVars, forwardVars, masterVars>>
       \/ /\ used = "master" /\ MasterNext
          /\ UNCHANGED <<vars, fanoutVars, forwardVars, benchmarkVars>>

\* The fairness of the part in use, as its module has it.
ProcessesSpec ==
    /\ ProcessesInit /\ [][ProcessesNext]_processVars
    /\ WF_vars(used = "client" /\ Calls)
    /\ WF_fanoutVars(used = "fanout" /\ Passing)
    /\ WF_forwardVars(used = "forward" /\ Answering)
    /\ WF_benchmarkVars(used = "benchmark" /\ Progress)
    /\ \A c \in Conn : WF_masterVars(used = "master" /\ ~dead /\ ServeConn(c))
    /\ WF_masterVars(used = "master" /\ ~dead /\ (SetAddrs \/ SetHTTP))
=============================================================================
