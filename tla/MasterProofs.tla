---------------------------- MODULE MasterProofs ----------------------------
(***************************************************************************)
(* The master hands out one complete configuration, for any number of      *)
(* replicas and connections, replicas that register twice and connections  *)
(* that break.                                                             *)
(***************************************************************************)
EXTENDS Master, FiniteSetTheorems, TLAPS

-----------------------------------------------------------------------------
(* The invariant *)

\* The connections of replicas.
Replicas == {c \in Conn : Id[c] # None}

Typed ==
    /\ at \in [Conn -> {"accept", "in", "copy", "copyHTTP", "out", "encode", "end"}]
    /\ taken \in Nat
    /\ DOMAIN got = Conn
    /\ config = [addrs |-> config.addrs, http |-> config.http]

\* The addresses collected are those of the registrations counted, numbered by
\* their order.
Collected ==
    /\ IsFiniteSet(Counted) /\ Cardinality(Counted) = taken
    /\ DOMAIN addrs = {Id[c] : c \in Counted}
    /\ \A r \in DOMAIN addrs : addrs[r] \in 1..taken
    /\ IsInjective(addrs)

\* What is set of the configuration is final: nothing is collected any more.
Final ==
    /\ config.addrs # None => config.addrs = addrs /\ taken = n
    /\ config.http # None => config.addrs # None /\ config.http = config.addrs

\* Clients copy the configuration and replicas do not: a replica is handed it,
\* once it is final.
Handed ==
    \A c \in Conn :
        /\ at[c] \in {"in", "out"} => c \in Replicas
        /\ at[c] \in {"copy", "copyHTTP"} => c \notin Replicas
        /\ c \in Replicas /\ at[c] \in {"encode", "end"} =>
               config.http # None /\ got[c] = config

MasterInv == Typed /\ Collected /\ Final /\ Handed

-----------------------------------------------------------------------------
(* It is inductive *)

\* No registration is there at first.
LEMMA InitMaster == MasterInit => MasterInv
<1> SUFFICES ASSUME MasterInit PROVE MasterInv
  OBVIOUS
<1>1. Counted = {}
  BY DEF Counted, MasterInit
<1>2. Typed /\ Final /\ Handed
  BY DEF MasterInit, Empty, Typed, Final, Handed, Replicas
<1>3. Collected
  BY <1>1, FS_EmptySet DEF Collected, MasterInit, IsInjective
<1> QED BY <1>2, <1>3 DEF MasterInv

\* The collector takes a registration: one more is counted, and its address
\* differs from those before it (msg := <-in).
LEMMA CollectAddresses ==
  ASSUME MasterInv, NEW c \in Conn, Register(c)
  PROVE  Collected' /\ taken' \in Nat
<1> DEFINE r == Id[c]
<1>1. /\ Counted' = Counted \cup {c} /\ c \notin Counted
      /\ taken \in Nat /\ taken' = taken + 1 /\ taken' \in Nat
  BY DEF MasterInv, Typed, Handed, Replicas, Register, Counted
<1>2. IsFiniteSet(Counted') /\ Cardinality(Counted') = taken'
  BY <1>1, FS_AddElement DEF MasterInv, Collected
<1>3. /\ DOMAIN addrs' = DOMAIN addrs \cup {r}
      /\ \A q \in DOMAIN addrs' : addrs'[q] = IF q = r THEN taken + 1 ELSE addrs[q]
  BY DEF Register, Address
<1>4. DOMAIN addrs' = {Id[d] : d \in Counted'}
  BY <1>1, <1>3 DEF MasterInv, Collected
<1>5. \A q \in DOMAIN addrs : addrs[q] \in 1..taken
  BY DEF MasterInv, Collected
<1>6. \A q \in DOMAIN addrs' : addrs'[q] \in 1..taken'
  BY <1>1, <1>3, <1>5
<1>7. \A q, p \in DOMAIN addrs' : addrs'[q] = addrs'[p] => q = p
  <2> SUFFICES ASSUME NEW q \in DOMAIN addrs', NEW p \in DOMAIN addrs',
                      addrs'[q] = addrs'[p]
               PROVE  q = p
    OBVIOUS
  <2>1. \A o \in DOMAIN addrs : addrs[o] # taken + 1
    BY <1>1, <1>5
  <2>2. CASE q = r \/ p = r
    BY <1>3, <2>1, <2>2
  <2>3. CASE q # r /\ p # r
    BY <1>3, <2>3 DEF MasterInv, Collected, IsInjective
  <2> QED BY <2>2, <2>3
<1> QED BY <1>1, <1>2, <1>4, <1>6, <1>7 DEF Collected, IsInjective

\* The collector counts a registration once (the goroutine of ListenAndServe).
LEMMA CollectMaster ==
  ASSUME MasterInv, NEW c \in Conn, Register(c)
  PROVE  MasterInv'
<1>1. Typed'
  BY CollectAddresses DEF Register, MasterInv, Typed
<1>2. Final'
  BY DEF Register, MasterInv, Typed, Final
<1>3. Handed'
  BY DEF Register, MasterInv, Typed, Handed, Replicas
<1> QED BY <1>1, <1>2, <1>3, CollectAddresses DEF MasterInv

\* The two assignments to the configuration.
LEMMA SetMaster ==
  ASSUME MasterInv, SetAddrs \/ SetHTTP
  PROVE  MasterInv'
<1>1. Counted' = Counted /\ UNCHANGED <<at, addrs, taken, got>>
  BY DEF SetAddrs, SetHTTP, Counted
<1>2. Collected'
  BY <1>1 DEF MasterInv, Collected
<1>3. CASE SetAddrs
  <2>1. config' = [addrs |-> addrs, http |-> config.http] /\ config.http = None
    BY <1>3 DEF SetAddrs, MasterInv, Typed, Final
  <2>2. Typed' /\ Final' /\ Handed'
    BY <1>1, <1>3, <2>1 DEF SetAddrs, MasterInv, Typed, Final, Handed
  <2> QED BY <1>2, <2>2 DEF MasterInv
<1>4. CASE SetHTTP
  <2>1. config' = [addrs |-> config.addrs, http |-> addrs] /\ config.http = None
        /\ config.addrs = addrs
    BY <1>4 DEF SetHTTP, MasterInv, Typed, Final
  <2>2. Typed' /\ Final' /\ Handed'
    BY <1>1, <1>4, <2>1 DEF SetHTTP, MasterInv, Typed, Final, Handed
  <2> QED BY <1>2, <2>2 DEF MasterInv
<1> QED BY <1>3, <1>4

\* The goroutine of a connection, all but the registration.
LEMMA ServeMaster ==
  ASSUME MasterInv, NEW c \in Conn,
         Accept(c) \/ HandOut(c) \/ CopyAddrs(c) \/ CopyHTTP(c) \/ Encode(c)
  PROVE  MasterInv'
<1>1. UNCHANGED <<addrs, taken, config>>
  BY DEF Accept, HandOut, CopyAddrs, CopyHTTP, Encode
<1>2. Counted' = Counted
  BY DEF MasterInv, Typed, Handed, Replicas, Counted, Accept, HandOut, CopyAddrs,
         CopyHTTP, Encode
<1>3. Collected' /\ Final'
  BY <1>1, <1>2 DEF MasterInv, Collected, Final
<1>4. Typed'
  BY <1>1 DEF MasterInv, Typed, Accept, HandOut, CopyAddrs, CopyHTTP, Encode
<1>5. Handed'
  BY <1>1 DEF MasterInv, Typed, Handed, Replicas, Accept, HandOut, Ready, CopyAddrs,
              CopyHTTP, Encode
<1> QED BY <1>3, <1>4, <1>5 DEF MasterInv

\* Every step of the master keeps its invariant.
LEMMA NextMaster == MasterInv /\ [MasterNext]_masterVars => MasterInv'
<1> SUFFICES ASSUME MasterInv, [MasterNext]_masterVars PROVE MasterInv'
  OBVIOUS
<1>1. ASSUME NEW c \in Conn, Register(c) PROVE MasterInv'
  BY <1>1, CollectMaster
<1>2. ASSUME NEW c \in Conn, Break(c) PROVE MasterInv'
  BY <1>2 DEF Break, masterVars, MasterInv, Typed, Collected, Counted, Final, Handed
<1>3. CASE UNCHANGED masterVars
  BY <1>3 DEF masterVars, MasterInv, Typed, Collected, Counted, Final, Handed
<1> QED BY <1>1, <1>2, <1>3, SetMaster, ServeMaster DEF MasterNext, ServeConn

-----------------------------------------------------------------------------
(* What replicas get *)

\* Without a replica that registered twice, as many replicas as registrations.
LEMMA OneEach ==
  ASSUME Collected, ~Twice(Counted)
  PROVE  Cardinality(DOMAIN addrs) = taken
<1> DEFINE f == [c \in Counted |-> Id[c]]
<1>1. f \in Bijection(Counted, DOMAIN addrs)
  BY DEF Collected, Twice, Bijection, Injection, Surjection, IsInjective
<1>2. ExistsBijection(Counted, DOMAIN addrs)
  BY <1>1 DEF ExistsBijection
<1> QED BY <1>2, FS_Bijection DEF Collected

\* ReplicasConfigured of Master: for any n, any number of replicas and connections,
\* replicas started again and connections that break, a replica that has its
\* configuration has the one all others have (ConnectToMaster), itself in it, with
\* different addresses, and n replicas unless one registered twice.
THEOREM ConfigurationComplete == MasterSpec => []ReplicasConfigured
<1>1. MasterInv => ReplicasConfigured
  <2> SUFFICES ASSUME MasterInv, NEW c \in Conn, at[c] = "end", Id[c] # None
               PROVE  got[c] = config /\ CompleteConfig(config) /\ Id[c] \in DOMAIN config.addrs
    BY DEF ReplicasConfigured, Configured
  <2>1. config.http # None /\ got[c] = config
    BY DEF MasterInv, Handed, Replicas
  <2>2. config.addrs # None /\ config.http = config.addrs /\ config.addrs = addrs /\ taken = n
    BY <2>1 DEF MasterInv, Final
  <2>3. c \in Counted
    BY DEF Counted
  <2>4. Cardinality(DOMAIN addrs) = n \/ Twice(Counted)
    BY <2>2, OneEach DEF MasterInv
  <2> QED BY <2>1, <2>2, <2>3, <2>4 DEF MasterInv, Collected, CompleteConfig
<1> QED BY <1>1, InitMaster, NextMaster, PTL DEF MasterSpec
=============================================================================
