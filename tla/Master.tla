------------------------------- MODULE Master -------------------------------
(***************************************************************************)
(* The master (src/master/master.go), which waits for n replicas to        *)
(* register and then hands the configuration out, and what replicas and    *)
(* clients get of it (ConnectToMaster in src/util.go).  A goroutine serves *)
(* each connection; another one collects registrations and hands out.      *)
(* Addresses are numbers: the ports differ, the hosts do not matter.       *)
(***************************************************************************)
EXTENDS Integers, FiniteSets, Functions

CONSTANTS
    Server,
    Conn,          \* connections to the master
    Id,            \* Id[c]: the replica at the other end of c, or None for a
                   \* client; a replica that is started again connects again
    None,          \* no replica; a map that is nil
    n,             \* the flag n
    MaxBroken      \* bound: connections that break

ASSUME MasterConstants ==
    /\ None \notin Server /\ Id \in [Conn -> Server \union {None}]
    /\ n \in Nat \ {0} /\ MaxBroken \in Nat

VARIABLES
    at,       \* where the goroutine of a connection is
    addrs,    \* the addresses collected
    taken,    \* registrations taken from the channel in
    config,   \* the shared configuration, written without a lock
    handed,   \* configurations put in the channel out
    got,      \* what a connection has read of the configuration
    broken,   \* connections that are gone
    dead      \* the master has panicked

masterVars == <<at, addrs, taken, config, handed, got, broken, dead>>

Empty == [addrs |-> None, http |-> None]

MasterInit ==
    /\ at = [c \in Conn |-> "accept"]
    /\ addrs = <<>> /\ taken = 0
    /\ config = Empty /\ handed = 0
    /\ got = [c \in Conn |-> Empty]
    /\ broken = {} /\ dead = FALSE

\* Accept and Decode: a Register message of a replica, or of a client; a
\* connection that is gone before makes the master panic.
Accept(c) ==
    /\ at[c] = "accept"
    /\ at' = [at EXCEPT ![c] = IF Id[c] = None THEN "copy" ELSE "in"]
    /\ dead' = (c \in broken)
    /\ UNCHANGED <<addrs, taken, config, handed, got, broken>>

\* The other end disappears; the master finds out when it reads or writes.
Break(c) ==
    /\ at[c] # "end" /\ Cardinality(broken) < MaxBroken
    /\ broken' = broken \union {c}
    /\ UNCHANGED <<at, addrs, taken, config, handed, got, dead>>

\* *port + i + 1
Address == taken + 1

\* in <- msg meets the collector, which waits for n messages.
Register(c) ==
    /\ at[c] = "in" /\ taken < n
    /\ addrs' = [r \in DOMAIN addrs \union {Id[c]} |->
                    IF r = Id[c] THEN Address ELSE addrs[r]]
    /\ taken' = taken + 1
    /\ at' = [at EXCEPT ![c] = "out"]
    /\ UNCHANGED <<config, handed, got, broken, dead>>

SetAddrs ==
    /\ taken = n /\ config.addrs = None
    /\ config' = [config EXCEPT !.addrs = addrs]
    /\ UNCHANGED <<at, addrs, taken, handed, got, broken, dead>>

SetHTTP ==
    /\ config.addrs # None /\ config.http = None
    /\ config' = [config EXCEPT !.http = addrs]
    /\ UNCHANGED <<at, addrs, taken, handed, got, broken, dead>>

\* mutants: what must be set before the first configuration is handed out, and
\* how many are handed out
ReadyEarly == config.addrs # None /\ handed < n
ReadyShort == config.http # None /\ handed < n - 1

Ready == config.http # None /\ handed < n

\* out <- config meets c = <-out.
HandOut(c) ==
    /\ at[c] = "out" /\ Ready
    /\ got' = [got EXCEPT ![c] = config]
    /\ handed' = handed + 1
    /\ at' = [at EXCEPT ![c] = "encode"]
    /\ UNCHANGED <<addrs, taken, config, broken, dead>>

\* c = config, read while the collector may be writing it.
CopyAddrs(c) ==
    /\ at[c] = "copy"
    /\ got' = [got EXCEPT ![c].addrs = config.addrs]
    /\ at' = [at EXCEPT ![c] = "copyHTTP"]
    /\ UNCHANGED <<addrs, taken, config, handed, broken, dead>>

CopyHTTP(c) ==
    /\ at[c] = "copyHTTP"
    /\ got' = [got EXCEPT ![c].http = config.http]
    /\ at' = [at EXCEPT ![c] = "encode"]
    /\ UNCHANGED <<addrs, taken, config, handed, broken, dead>>

\* encoder.Encode(c), which fails on a connection that is gone.
Encode(c) ==
    /\ at[c] = "encode"
    /\ at' = [at EXCEPT ![c] = "end"]
    /\ dead' = (c \in broken)
    /\ UNCHANGED <<addrs, taken, config, handed, got, broken>>

ServeConn(c) == Accept(c) \/ Register(c) \/ HandOut(c) \/ CopyAddrs(c) \/ CopyHTTP(c)
              \/ Encode(c)

MasterNext ==
    /\ ~dead
    /\ \/ \E c \in Conn : ServeConn(c) \/ Break(c)
       \/ SetAddrs \/ SetHTTP

MasterSpec == MasterInit /\ [][MasterNext]_masterVars

\* The goroutines run on, and those that do not end otherwise meet at channels.
FairMaster ==
    /\ MasterSpec
    /\ \A c \in Conn : WF_masterVars(~dead /\ ServeConn(c))
    /\ WF_masterVars(~dead /\ (SetAddrs \/ SetHTTP))

-----------------------------------------------------------------------------
(* Properties *)

Configured(c) == at[c] = "end" /\ c \notin broken

\* The registrations the master has counted, and whether one replica, which was
\* started again, is behind two of those in S.
Counted  == {c \in Conn : Id[c] # None /\ at[c] \in {"out", "encode", "end"}}
Twice(S) == \E c, d \in S : c # d /\ Id[c] = Id[d]

\* A configuration of n replicas with different addresses, the same in both maps;
\* of fewer only if some registered twice.
CompleteConfig(cf) ==
    /\ cf.addrs # None /\ cf.http = cf.addrs /\ IsInjective(cf.addrs)
    /\ DOMAIN cf.addrs = {Id[c] : c \in Counted}
    /\ Cardinality(DOMAIN cf.addrs) = n \/ Twice(Counted)

\* "N number of replicas" (src/master/master.go:17): a replica that has its
\* configuration knows n replicas, itself among them, at different addresses, and
\* all have the same configuration.  Only a replica that registered twice makes
\* the others fewer (in, out).
ReplicasConfigured ==
    \A c \in Conn : Configured(c) /\ Id[c] # None =>
        got[c] = config /\ CompleteConfig(config) /\ Id[c] \in DOMAIN config.addrs

\* Every connection is answered unless the master panics, or a replica that
\* registered twice is among those counted and the one left over: then that one
\* waits forever (in, out).
AllAnswered ==
    \A c \in Conn :
        <>(at[c] = "end" \/ dead \/ (at[c] = "in" /\ Twice(Counted \union {c})))
=============================================================================
