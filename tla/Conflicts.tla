------------------------------ MODULE Conflicts -----------------------------
(***************************************************************************)
(* When may two commands, or two batches of commands, change places?       *)
(* Conflict and ConflictBatch of src/db.go answer without looking at the   *)
(* store; the store of a replica (Execute and put) says what a change of   *)
(* places really does.                                                     *)
(***************************************************************************)
EXTENDS Integers, Sequences, SequencesExt

CONSTANTS
    StoreKey, StoreValue,
    NoValue,    \* a nil slice: the value of a read
    MaxStored,  \* bound: writes before the batches
    MaxBatch    \* bound: commands in a batch

Commands == [key : StoreKey, value : StoreValue \union {NoValue}]

VARIABLES
    kv,              \* a store: data, version and history
    batch1, batch2   \* commands to be executed next, in either order

storeVars == <<kv, batch1, batch2>>

\* Execute and put, with config.MultiVersion.
Stored(st, c) ==
    IF c.value = NoValue THEN st
    ELSE [data    |-> [st.data EXCEPT ![c.key] = c.value],
          version |-> st.version + 1,
          history |-> [st.history EXCEPT ![c.key] = Append(@, c.value)]]

\* What Execute returns.
Previous(st, c) == st.data[c.key]

EmptyStore == [data    |-> [x \in StoreKey |-> NoValue], version |-> 0,
               history |-> [x \in StoreKey |-> <<>>]]

StoreInit == kv = EmptyStore /\ batch1 = <<>> /\ batch2 = <<>>

\* Execute, before the batches.
ExecuteBefore(c) ==
    /\ batch1 = <<>> /\ batch2 = <<>> /\ kv.version < MaxStored
    /\ kv' = Stored(kv, c)
    /\ UNCHANGED <<batch1, batch2>>

\* The batches grow by a command.
Propose1(c) == /\ Len(batch1) < MaxBatch
               /\ batch1' = Append(batch1, c) /\ UNCHANGED <<kv, batch2>>
Propose2(c) == /\ Len(batch2) < MaxBatch
               /\ batch2' = Append(batch2, c) /\ UNCHANGED <<kv, batch1>>

StoreNext == \E c \in Commands : ExecuteBefore(c) \/ Propose1(c) \/ Propose2(c)

StoreSpec == StoreInit /\ [][StoreNext]_storeVars

IsRead(c) == c.value = NoValue

\* mutant: only writes conflict
ConflictWrites(gamma, delta) ==
    gamma.key = delta.key /\ ~IsRead(gamma) /\ ~IsRead(delta)

Conflict(gamma, delta) ==
    gamma.key = delta.key /\ (~IsRead(gamma) \/ ~IsRead(delta))

ConflictBatch(b1, b2) ==
    \E i \in DOMAIN b1, j \in DOMAIN b2 : Conflict(b1[i], b2[j])

-----------------------------------------------------------------------------
(* Properties *)

\* The store after a batch, and the answers to it.
Run(st, batch) ==
    LET f[i \in 0..Len(batch)] == IF i = 0 THEN st ELSE Stored(f[i - 1], batch[i])
    IN f[Len(batch)]
Answered(st, batch) ==
    [i \in DOMAIN batch |-> Previous(Run(st, SubSeq(batch, 1, i - 1)), batch[i])]

\* "Conflict checks if two commands are conflicting as reorder them will end in
\* different states" (src/db.go:165): batches that do not conflict may change
\* places in any state of the store, with the same store, versions included, and
\* the same answers in the end (Conflict, ConflictBatch, Execute).
Commute ==
    ~ConflictBatch(batch1, batch2) =>
        /\ Run(Run(kv, batch1), batch2) = Run(Run(kv, batch2), batch1)
        /\ Answered(Run(kv, batch1), batch2) = Answered(kv, batch2)
        /\ Answered(Run(kv, batch2), batch1) = Answered(kv, batch1)
=============================================================================
