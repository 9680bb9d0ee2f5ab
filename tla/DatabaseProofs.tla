--------------------------- MODULE DatabaseProofs ---------------------------
(***************************************************************************)
(* For any replicas, keys and values, with and without versions: a store   *)
(* answers with the last value written, and the audit of the histories     *)
(* raises no false alarm; with versions it finds the replicas apart that   *)
(* were so when it began.                                                  *)
(***************************************************************************)
EXTENDS Database, FiniteSetTheorems, TLAPS

\* What the audit has read is the beginning of what the replica has written:
\* histories only grow, so that a value read stays where it was.
ReadBefore ==
    \A r \in Replica : /\ Len(h[r]) <= Len(written[r][k])
                       /\ \A i \in 1..Len(h[r]) : h[r][i] = written[r][k][i]

\* Histories are complete or, without versions, empty.
HistoryKept ==
    \A r \in Replica, key \in Key :
        history[r][key] = IF MultiVersion THEN written[r][key] ELSE <<>>

DatabaseInv == DatabaseTypeOK /\ Current /\ HistoryKept /\ ReadBefore

\* The invariant holds at first: nothing is written and nothing read.
LEMMA InitDatabase == NewDatabase => DatabaseInv
<1> SUFFICES ASSUME NewDatabase PROVE DatabaseInv
  OBVIOUS
<1>1. DatabaseTypeOK
  <2>1. <<>> \in Seq(Value)
    OBVIOUS
  <2>2. history \in [Replica -> [Key -> Seq(Value)]] /\ h \in [Replica -> Seq(Value)]
    BY <2>1 DEF NewDatabase
  <2>3. written \in [Replica -> [Key -> Seq(Value)]]
    BY <2>2 DEF NewDatabase
  <2>4. /\ data \in [Replica -> [Key -> Value \union {NilValue}]]
        /\ version \in [Replica -> Nat] /\ audits \in Nat /\ k \in Key
    BY DEF NewDatabase
  <2>5. unread \subseteq Replica /\ failed \subseteq Replica /\ apart \in BOOLEAN
    BY DEF NewDatabase
  <2> QED  BY <2>2, <2>3, <2>4, <2>5 DEF DatabaseTypeOK
<1>2. Current /\ HistoryKept
  BY DEF NewDatabase, Current, HistoryKept, Replied, History
<1>3. ReadBefore
  BY DEF NewDatabase, ReadBefore
<1> QED  BY <1>1, <1>2, <1>3 DEF DatabaseInv

\* A store answers with the last value written after another command (Execute).
LEMMA ExecuteKeeps ==
    ASSUME DatabaseInv, NEW r \in Replica, NEW key \in Key,
           NEW v \in Value \union {NilValue}, Execute(r, key, v)
    PROVE  DatabaseInv'
<1> USE DEF DatabaseInv
<1>0. UNCHANGED audit
  BY DEF Execute
<1>1. CASE v = NilValue
  <2>1. UNCHANGED databaseVars
    BY <1>0, <1>1 DEF Execute, put, databaseVars, store
  <2> QED  BY <2>1 DEF databaseVars, store, audit, DatabaseTypeOK, Current, HistoryKept,
                       ReadBefore, Replied, History
<1>2. CASE v # NilValue
  <2> DEFINE W == Append(written[r][key], v)
  <2>1. v \in Value /\ W \in Seq(Value) /\ W # <<>> /\ W[Len(W)] = v
    <3>1. v \in Value /\ written[r][key] \in Seq(Value)
      BY <1>2 DEF DatabaseTypeOK
    <3> QED  BY <3>1
  <2>2. /\ data' = [data EXCEPT ![r][key] = v]
        /\ version' = [version EXCEPT ![r] = @ + 1]
        /\ history' = IF MultiVersion
                      THEN [history EXCEPT ![r][key] = Append(@, v)] ELSE history
        /\ written' = [written EXCEPT ![r][key] = W]
    BY <1>2 DEF Execute, put
  <2>3. \A s \in Replica, c \in Key :
           /\ data'[s][c] = IF s = r /\ c = key THEN v ELSE data[s][c]
           /\ written'[s][c] = IF s = r /\ c = key THEN W ELSE written[s][c]
           /\ MultiVersion => history'[s][c] = IF s = r /\ c = key
                                THEN Append(history[s][c], v) ELSE history[s][c]
    BY <2>2 DEF DatabaseTypeOK
  <2>4. HistoryKept'
    <3>1. CASE MultiVersion
      BY <2>3, <3>1 DEF HistoryKept
    <3>2. CASE ~MultiVersion
      BY <2>2, <3>2 DEF HistoryKept
    <3> QED  BY <3>1, <3>2
  <2>5. DatabaseTypeOK'
    <3>1. data' \in [Replica -> [Key -> Value \union {NilValue}]]
          /\ version' \in [Replica -> Nat]
      BY <2>1, <2>2 DEF DatabaseTypeOK
    <3>2. written' \in [Replica -> [Key -> Seq(Value)]]
      BY <2>1, <2>2 DEF DatabaseTypeOK
    <3>3. history' \in [Replica -> [Key -> Seq(Value)]]
      <4>1. Append(history[r][key], v) \in Seq(Value)
        BY <2>1 DEF DatabaseTypeOK
      <4> QED  BY <2>2, <4>1 DEF DatabaseTypeOK
    <3> QED  BY <1>0, <3>1, <3>2, <3>3 DEF DatabaseTypeOK, audit
  <2>6. Current'
    <3> SUFFICES ASSUME NEW s \in Replica, NEW c \in Key
                 PROVE  /\ data'[s][c] = IF written'[s][c] = <<>> THEN NilValue
                              ELSE written'[s][c][Len(written'[s][c])]
                        /\ MultiVersion => history'[s][c] = written'[s][c]
      BY DEF Current, Replied, History
    <3>1. MultiVersion => history'[s][c] = written'[s][c]
      BY <2>4 DEF HistoryKept
    <3>2. data[s][c] = IF written[s][c] = <<>> THEN NilValue
                       ELSE written[s][c][Len(written[s][c])]
      BY DEF Current, Replied
    <3> QED  BY <2>1, <2>3, <3>1, <3>2
  <2>7. ReadBefore'
    <3>1. h' = h /\ k' = k /\ k \in Key
      BY <1>0 DEF audit, DatabaseTypeOK
    <3> SUFFICES ASSUME NEW s \in Replica
                 PROVE  /\ Len(h[s]) <= Len(written'[s][k])
                        /\ \A i \in 1..Len(h[s]) : h[s][i] = written'[s][k][i]
      BY <3>1 DEF ReadBefore
    <3>2. /\ Len(h[s]) <= Len(written[s][k])
          /\ \A i \in 1..Len(h[s]) : h[s][i] = written[s][k][i]
      BY DEF ReadBefore
    <3>3. h[s] \in Seq(Value) /\ written[s][k] \in Seq(Value)
      BY <3>1 DEF DatabaseTypeOK
    <3>4. CASE s = r /\ k = key
      <4>1. written'[s][k] = Append(written[s][k], v)
        BY <2>3, <3>1, <3>4
      <4>2. /\ Len(written'[s][k]) = Len(written[s][k]) + 1
            /\ \A i \in 1..Len(written[s][k]) : written'[s][k][i] = written[s][k][i]
        BY <2>1, <3>3, <4>1
      <4> QED  BY <3>2, <3>3, <4>2
    <3>5. CASE ~(s = r /\ k = key)
      BY <2>3, <3>1, <3>2, <3>5
    <3> QED  BY <3>4, <3>5
  <2> QED  BY <2>4, <2>5, <2>6, <2>7
<1> QED  BY <1>1, <1>2

\* The audit reads beginnings of what is written (Consensus).
LEMMA AuditKeeps ==
    ASSUME DatabaseInv,
           \/ \E key \in Key : Begin(key)
           \/ \E r \in Replica : Read(r) \/ Fail(r)
    PROVE  DatabaseInv'
<1> USE DEF DatabaseInv
<1>0. UNCHANGED store
  BY DEF Begin, Read, Fail
<1>1. Current' /\ HistoryKept'
  BY <1>0 DEF store, Current, HistoryKept, Replied, History
<1>2. ASSUME NEW key \in Key, Begin(key) PROVE DatabaseTypeOK' /\ ReadBefore'
  <2>1. DatabaseTypeOK'
    BY <1>0, <1>2 DEF Begin, store, DatabaseTypeOK, Parted
  <2>2. ReadBefore'
    BY <1>0, <1>2, <2>1 DEF Begin, store, ReadBefore, DatabaseTypeOK
  <2> QED  BY <2>1, <2>2
<1>3. ASSUME NEW r \in Replica, Read(r) PROVE DatabaseTypeOK' /\ ReadBefore'
  <2>1. history[r][k] \in Seq(Value) /\ written[r][k] \in Seq(Value) /\ k \in Key
    BY DEF DatabaseTypeOK
  <2>2. h' = [h EXCEPT ![r] = history[r][k]] /\ k' = k
    BY <1>3 DEF Read, History
  <2>3. DatabaseTypeOK'
    BY <1>0, <1>3, <2>1, <2>2 DEF Read, store, DatabaseTypeOK
  <2>4. ReadBefore'
    <3> SUFFICES ASSUME NEW s \in Replica
                 PROVE  /\ Len(h'[s]) <= Len(written[s][k])
                        /\ \A i \in 1..Len(h'[s]) : h'[s][i] = written[s][k][i]
      BY <1>0, <2>2 DEF store, ReadBefore
    <3>1. CASE s = r
      <4>1. h'[s] = IF MultiVersion THEN written[s][k] ELSE <<>>
        BY <2>1, <2>2, <3>1 DEF HistoryKept, DatabaseTypeOK
      <4> QED  BY <2>1, <3>1, <4>1
    <3>2. CASE s # r
      BY <2>2, <3>2 DEF ReadBefore, DatabaseTypeOK
    <3> QED  BY <3>1, <3>2
  <2> QED  BY <2>3, <2>4
<1>4. ASSUME NEW r \in Replica, Fail(r) PROVE DatabaseTypeOK' /\ ReadBefore'
  BY <1>0, <1>4 DEF Fail, store, DatabaseTypeOK, ReadBefore
<1> QED  BY <1>1, <1>2, <1>3, <1>4

\* The invariant is kept by every step.
LEMMA StepDatabase == DatabaseInv /\ [DatabaseNext]_databaseVars => DatabaseInv'
<1> SUFFICES ASSUME DatabaseInv, [DatabaseNext]_databaseVars PROVE DatabaseInv'
  OBVIOUS
<1>1. CASE UNCHANGED databaseVars
  BY <1>1 DEF databaseVars, store, audit, DatabaseInv, DatabaseTypeOK, Current, HistoryKept,
              ReadBefore, Replied, History
<1>2. CASE DatabaseNext
  BY <1>2, ExecuteKeeps, AuditKeeps DEF DatabaseNext
<1> QED  BY <1>1, <1>2

\* Execute and Get answer with the last value written, and versions are kept in
\* order (Execute, put, History).
THEOREM StoreIsCurrent == DatabaseSpec => []Current
<1>1. DatabaseInv => Current
  BY DEF DatabaseInv
<1> QED  BY <1>1, InitDatabase, StepDatabase, PTL DEF DatabaseSpec

\* An alarm of the audit is real, whenever it read which history and whichever
\* replicas did not answer (HTTPClient.Consensus).
THEOREM AlarmIsReal == DatabaseSpec => []NoFalseAlarm
<1>1. DatabaseInv => NoFalseAlarm
  <2> SUFFICES ASSUME DatabaseInv, ~Agree(h) PROVE Parted(k)
    BY DEF NoFalseAlarm
  <2>1. PICK i \in 1..Longest(h), r \in Replica, s \in Replica :
           i <= Len(h[r]) /\ i <= Len(h[s]) /\ h[r][i] # h[s][i]
    BY DEF Agree
  <2>2. i \in 1..Len(h[r]) /\ i \in 1..Len(h[s])
    BY <2>1 DEF DatabaseInv, DatabaseTypeOK
  <2>3. /\ i \in 1..Len(written[r][k]) /\ i \in 1..Len(written[s][k])
        /\ written[r][k][i] # written[s][k][i]
    BY <2>1, <2>2 DEF DatabaseInv, ReadBefore, DatabaseTypeOK
  <2>4. i \in (DOMAIN written[r][k]) \cap (DOMAIN written[s][k])
    BY <2>3 DEF DatabaseInv, DatabaseTypeOK
  <2> QED  BY <2>3, <2>4 DEF Parted
<1> QED  BY <1>1, InitDatabase, StepDatabase, PTL DEF DatabaseSpec

-----------------------------------------------------------------------------
(* The audit misses nothing it could see *)

\* Where replicas had parted when the audit began, they still differ, and a
\* replica that has answered since has answered with its value there.
ApartSeen ==
    apart => \E r, s \in Replica :
        \E i \in (DOMAIN written[r][k]) \cap (DOMAIN written[s][k]) :
            /\ written[r][k][i] # written[s][k][i]
            /\ \A q \in {r, s} \ (unread \union failed) : i <= Len(h[q])

\* What is written stays written (Execute).
LEMMA WrittenGrows ==
    ASSUME DatabaseInv, NEW r \in Replica, NEW key \in Key,
           NEW v \in Value \union {NilValue}, Execute(r, key, v),
           NEW s \in Replica, NEW c \in Key, NEW i \in DOMAIN written[s][c]
    PROVE  i \in DOMAIN written'[s][c] /\ written'[s][c][i] = written[s][c][i]
<1>1. written[s][c] \in Seq(Value)
  BY DEF DatabaseInv, DatabaseTypeOK
<1>2. CASE v = NilValue
  BY <1>2 DEF Execute
<1>3. CASE v # NilValue
  <2>1. /\ v \in Value
        /\ written'[s][c] = IF s = r /\ c = key THEN Append(written[s][c], v)
                            ELSE written[s][c]
    BY <1>3 DEF Execute, DatabaseInv, DatabaseTypeOK
  <2>2. /\ i \in DOMAIN Append(written[s][c], v)
        /\ Append(written[s][c], v)[i] = written[s][c][i]
    BY <1>1, <2>1
  <2> QED BY <2>1, <2>2
<1> QED BY <1>2, <1>3

\* Every step keeps what parted visible to the audit (Execute, Consensus).
LEMMA StepApart == MultiVersion /\ DatabaseInv /\ ApartSeen /\ [DatabaseNext]_databaseVars => ApartSeen'
<1> SUFFICES ASSUME MultiVersion, DatabaseInv, ApartSeen, [DatabaseNext]_databaseVars, apart'
             PROVE  \E r, s \in Replica :
                      \E i \in (DOMAIN written'[r][k']) \cap (DOMAIN written'[s][k']) :
                         /\ written'[r][k'][i] # written'[s][k'][i]
                         /\ \A q \in {r, s} \ (unread' \union failed') : i <= Len(h'[q])
  BY DEF ApartSeen
<1>1. CASE \E key \in Key : Begin(key)
  <2>1. PICK key \in Key : Begin(key)
    BY <1>1
  <2>2. Parted(key) /\ k' = key /\ unread' = Replica /\ written' = written
    BY <2>1 DEF Begin, store
  <2> QED BY <2>2 DEF Parted
<1>2. CASE ~\E key \in Key : Begin(key)
  <2>1. apart' = apart /\ k' = k /\ k \in Key
    BY <1>2 DEF DatabaseNext, Execute, Read, Fail, audit, databaseVars, DatabaseInv, DatabaseTypeOK
  <2>9. PICK r \in Replica, s \in Replica :
           \E i \in (DOMAIN written[r][k]) \cap (DOMAIN written[s][k]) :
               /\ written[r][k][i] # written[s][k][i]
               /\ \A q \in {r, s} \ (unread \union failed) : i <= Len(h[q])
    BY <2>1 DEF ApartSeen
  <2>2. PICK i \in (DOMAIN written[r][k]) \cap (DOMAIN written[s][k]) :
               /\ written[r][k][i] # written[s][k][i]
               /\ \A q \in {r, s} \ (unread \union failed) : i <= Len(h[q])
    BY <2>9
  <2>3. ASSUME NEW p \in Replica, NEW key \in Key, NEW v \in Value \union {NilValue},
               Execute(p, key, v)
        PROVE  /\ i \in (DOMAIN written'[r][k]) \cap (DOMAIN written'[s][k])
               /\ written'[r][k][i] # written'[s][k][i]
               /\ \A q \in {r, s} \ (unread' \union failed') : i <= Len(h'[q])
    BY <2>1, <2>2, <2>3, WrittenGrows DEF Execute, audit
  <2>4. ASSUME NEW p \in Replica, Read(p)
        PROVE  /\ written' = written
               /\ \A q \in {r, s} \ (unread' \union failed') : i <= Len(h'[q])
    <3>1. h' = [h EXCEPT ![p] = written[p][k]] /\ written' = written
      BY <2>1, <2>4 DEF Read, History, store, HistoryKept, DatabaseInv
    <3>2. i <= Len(written[r][k]) /\ i <= Len(written[s][k])
      BY <2>1, <2>2 DEF DatabaseInv, DatabaseTypeOK
    <3> QED BY <2>2, <2>4, <3>1, <3>2 DEF Read, DatabaseInv, DatabaseTypeOK
  <2>5. CASE (\E p \in Replica : Fail(p)) \/ UNCHANGED databaseVars
    BY <2>1, <2>2, <2>5 DEF Fail, databaseVars, store, audit
  <2> QED BY <1>2, <2>1, <2>2, <2>3, <2>4, <2>5 DEF DatabaseNext
<1> QED BY <1>1, <1>2

\* A finite set of numbers has a greatest one: the one with the fewest above.
LEMMA MaxIsGreatest ==
    ASSUME NEW S \in SUBSET Nat, IsFiniteSet(S), S # {}
    PROVE  Max(S) \in S /\ \A x \in S : x <= Max(S)
<1> DEFINE above(x) == {y \in S : y > x}
           U == {above(x) : x \in S}
<1>1. U \subseteq FiniteSubsetsOf(S) /\ U # {}
  <2>1. \A x \in S : above(x) \in SUBSET S /\ IsFiniteSet(above(x))
    BY FS_Subset
  <2> QED BY <2>1 DEF FiniteSubsetsOf
<1>2. PICK A \in U : \A B \in U : <<B, A>> \notin StrictSubsetOrdering(S)
  BY <1>1, FS_StrictSubsetOrderingWellFounded, WFMin
<1>3. PICK x \in S : A = above(x)
  BY <1>2
<1>4. above(x) = {}
  <2> SUFFICES ASSUME NEW y \in S, y > x PROVE FALSE
    OBVIOUS
  <2>1. above(y) \subseteq above(x) /\ y \in above(x) /\ y \notin above(y)
    <3>1. \A z \in S : z \in Nat
      OBVIOUS
    <3>2. \A z \in S : z > y => z > x
      BY <3>1
    <3>3. ~(y > y)
      BY <3>1
    <3> QED BY <3>2, <3>3
  <2>2. <<above(y), above(x)>> \in StrictSubsetOrdering(S)
    BY <2>1 DEF StrictSubsetOrdering
  <2> QED BY <1>2, <1>3, <2>2
<1>5. \A y \in S : x >= y
  BY <1>4
<1> QED BY <1>5 DEF Max

\* With versions, for any replicas, keys and values and whatever is executed
\* meanwhile: replicas that had parted when the audit began and that all answer
\* make it answer false (HTTPClient.Consensus).
THEOREM DivergenceIsFound ==
    ASSUME MultiVersion
    PROVE  DatabaseSpec => []DivergenceFound
<1>1. NewDatabase => ApartSeen
  BY DEF NewDatabase, ApartSeen
<1>2. DatabaseInv /\ ApartSeen => DivergenceFound
  <2> SUFFICES ASSUME DatabaseInv, ApartSeen, apart, unread = {}, failed = {}
               PROVE  ~Agree(h)
    BY DEF DivergenceFound
  <2>0. PICK r \in Replica, s \in Replica :
           \E i \in (DOMAIN written[r][k]) \cap (DOMAIN written[s][k]) :
               /\ written[r][k][i] # written[s][k][i]
               /\ i <= Len(h[r]) /\ i <= Len(h[s])
    BY DEF ApartSeen
  <2>1. PICK i \in (DOMAIN written[r][k]) \cap (DOMAIN written[s][k]) :
               /\ written[r][k][i] # written[s][k][i]
               /\ i <= Len(h[r]) /\ i <= Len(h[s])
    BY <2>0
  <2>2. i \in Nat /\ i >= 1 /\ Len(h[r]) \in Nat
    BY <2>1 DEF DatabaseInv, DatabaseTypeOK
  <2>3. h[r][i] # h[s][i]
    BY <2>1, <2>2 DEF DatabaseInv, ReadBefore, DatabaseTypeOK
  <2>4. i \in 1..Longest(h)
    <3> DEFINE L == {Len(h[q]) : q \in Replica}
               f == [q \in Replica |-> Len(h[q])]
    <3>1. L \in SUBSET Nat /\ Len(h[r]) \in L
      BY DEF DatabaseInv, DatabaseTypeOK
    <3>2. f \in Surjection(Replica, L)
      BY DEF Surjection
    <3>3. IsFiniteSet(L)
      BY <3>2, FS_Surjection, DatabaseConstants
    <3>4. Max(L) \in Nat /\ Len(h[r]) <= Max(L)
      BY <3>1, <3>3, MaxIsGreatest
    <3> QED BY <2>1, <2>2, <3>4 DEF Longest
  <2> QED BY <2>1, <2>3, <2>4 DEF Agree
<1>3. DatabaseInv /\ ApartSeen /\ [DatabaseNext]_databaseVars => ApartSeen'
  BY StepApart
<1> QED BY <1>1, <1>2, <1>3, InitDatabase, StepDatabase, PTL DEF DatabaseSpec
=============================================================================
