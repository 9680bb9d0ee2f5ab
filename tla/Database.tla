------------------------------ MODULE Database ------------------------------
(***************************************************************************)
(* The multi-version key-value store of a replica (src/db.go), the         *)
(* /history resource (src/http.go) and the audit that compares the         *)
(* histories of all replicas, HTTPClient.Consensus (src/client.go).        *)
(*                                                                         *)
(* The methods of a store hold its lock: each is one step.  The audit reads *)
(* one replica after the other while the replicas go on executing.  What   *)
(* the replicas execute is not restricted here: they may disagree, which   *)
(* is what the audit is for.                                               *)
(***************************************************************************)
EXTENDS Integers, FiniteSets, Sequences, FiniteSetsExt

CONSTANTS
    Replica, Key,
    Value,          \* values other than nil
    NilValue,       \* a nil slice: the value of a read
    MultiVersion,   \* config.MultiVersion
    MaxWrites,      \* bound: writes a replica executes
    MaxAudits       \* bound: calls of Consensus

ASSUME DatabaseConstants ==
    /\ IsFiniteSet(Replica) /\ NilValue \notin Value /\ MultiVersion \in BOOLEAN
    /\ MaxWrites \in Nat /\ MaxAudits \in Nat

VARIABLES
    data,      \* the current value of each key
    version,   \* writes executed
    history,   \* the values of each key
    written,   \* what was written to each key, kept by the model only
    audits,    \* calls of Consensus so far
    k,         \* the key of the last one
    h,         \* the histories it has read
    unread,    \* the replicas it has not asked yet
    failed,    \* the replicas that did not answer it
    apart      \* had the replicas parted when it began?  (the model only)

store == <<data, version, history, written>>
audit == <<audits, k, h, unread, failed, apart>>
databaseVars == <<store, audit>>

-----------------------------------------------------------------------------
(* The store *)

\* mutant: every write makes a new history
PutAnew(r, key, v) ==
    IF v = NilValue THEN UNCHANGED <<data, version, history>>
    ELSE /\ data' = [data EXCEPT ![r][key] = v]
         /\ version' = [version EXCEPT ![r] = @ + 1]
         /\ history' = IF MultiVersion
                       THEN [history EXCEPT ![r][key] = <<v>>] ELSE history

put(r, key, v) ==
    IF v = NilValue THEN UNCHANGED <<data, version, history>>
    ELSE /\ data' = [data EXCEPT ![r][key] = v]
         /\ version' = [version EXCEPT ![r] = @ + 1]
         /\ history' = IF MultiVersion
                       THEN [history EXCEPT ![r][key] = Append(@, v)] ELSE history

\* Execute writes the value and returns the previous one (see Replied).
Execute(r, key, v) ==
    /\ v # NilValue => version[r] < MaxWrites
    /\ put(r, key, v)
    /\ written' = IF v = NilValue THEN written
                  ELSE [written EXCEPT ![r][key] = Append(@, v)]
    /\ UNCHANGED audit

\* What Execute returns, and Get.
Replied(r, key) == data[r][key]

History(r, key) == history[r][key]

-----------------------------------------------------------------------------
(* The audit *)

\* The number of values of the longest history.
Longest(hs) == Max({Len(hs[r]) : r \in Replica})
Shortest(hs) == Min({Len(hs[r]) : r \in Replica})

\* mutant: the values that all have are compared
AgreeOnAll(hs) ==
    \A i \in 1..Shortest(hs) : \A r, s \in Replica : hs[r][i] = hs[s][i]
\* mutant: a missing value differs from any other
AgreeInLength(hs) ==
    \A i \in 1..Longest(hs) : \A r, s \in Replica :
        i <= Len(hs[r]) => i <= Len(hs[s]) /\ hs[r][i] = hs[s][i]

\* The answer of Consensus: at each place, the replicas that have a value
\* have the same.
Agree(hs) ==
    \A i \in 1..Longest(hs) : \A r, s \in Replica :
        i <= Len(hs[r]) /\ i <= Len(hs[s]) => hs[r][i] = hs[s][i]

\* Two replicas have written different values at the same place.
Parted(key) ==
    \E r, s \in Replica : \E i \in (DOMAIN written[r][key]) \cap (DOMAIN written[s][key]) :
        written[r][key][i] # written[s][key][i]

Begin(key) ==
    /\ unread = {} /\ audits < MaxAudits
    /\ audits' = audits + 1
    /\ k' = key /\ unread' = Replica /\ failed' = {} /\ apart' = Parted(key)
    /\ h' = [r \in Replica |-> <<>>]
    /\ UNCHANGED store

\* One GET /history, in the order of a map: any order.
Read(r) ==
    /\ r \in unread
    /\ unread' = unread \ {r}
    /\ h' = [h EXCEPT ![r] = History(r, k)]
    /\ UNCHANGED <<store, audits, k, failed, apart>>

\* A replica that does not answer counts as one without values.
Fail(r) ==
    /\ r \in unread
    /\ unread' = unread \ {r} /\ failed' = failed \union {r}
    /\ UNCHANGED <<store, audits, k, h, apart>>

NewDatabase ==
    /\ data = [r \in Replica |-> [key \in Key |-> NilValue]]
    /\ version = [r \in Replica |-> 0]
    /\ history = [r \in Replica |-> [key \in Key |-> <<>>]]
    /\ written = history
    /\ audits = 0 /\ k \in Key /\ h = [r \in Replica |-> <<>>]
    /\ unread = {} /\ failed = {} /\ apart = FALSE

DatabaseNext ==
    \/ \E r \in Replica, key \in Key, v \in Value \union {NilValue} :
           Execute(r, key, v)
    \/ \E key \in Key : Begin(key)
    \/ \E r \in Replica : Read(r) \/ Fail(r)

DatabaseSpec == NewDatabase /\ [][DatabaseNext]_databaseVars

-----------------------------------------------------------------------------
(* Properties *)

DatabaseTypeOK ==
    /\ data \in [Replica -> [Key -> Value \union {NilValue}]]
    /\ version \in [Replica -> Nat]
    /\ history \in [Replica -> [Key -> Seq(Value)]]
    /\ written \in [Replica -> [Key -> Seq(Value)]]
    /\ audits \in Nat /\ k \in Key /\ h \in [Replica -> Seq(Value)]
    /\ unread \subseteq Replica /\ failed \subseteq Replica /\ apart \in BOOLEAN

\* Execute and Get answer with the last value written to the key, however many
\* reads came in between, and a store with versions keeps them all in order
\* (Execute, put, History).
Current ==
    \A r \in Replica, key \in Key :
        /\ Replied(r, key) = IF written[r][key] = <<>> THEN NilValue
                             ELSE written[r][key][Len(written[r][key])]
        /\ MultiVersion => History(r, key) = written[r][key]

\* Consensus raises no false alarm: when it answers false, two replicas really
\* have written different values at the same place, although it has read the
\* histories at different times and some replicas may not have answered.
NoFalseAlarm == audits > 0 /\ unread = {} /\ ~Agree(h) => Parted(k)

\* Consensus misses nothing that it could see: replicas that had parted when it
\* began, and that all answered it, make it answer false.  "Consensus collects
\* /history/key from every node and compare their values" (src/client.go:364).
DivergenceFound == apart /\ unread = {} /\ failed = {} => ~Agree(h)
=============================================================================
