--------------------------- MODULE TransportProofs --------------------------
(***************************************************************************)
(* The chain of channels between two replicas is a queue, for any number   *)
(* of replicas, any capacities, both schemes and whatever the replicas     *)
(* send: the refinement of Links, step by step.                            *)
(***************************************************************************)
EXTENDS Transport, FiniteSetTheorems, SequenceTheorems, TLAPS

-----------------------------------------------------------------------------
(* Recursion over the places of a channel *)

\* Facts about all numbers are proved by the least that would be an exception.
LEMMA LeastNatural ==
    ASSUME NEW T \in SUBSET Nat, T # {}
    PROVE  \E m \in T : \A k \in T : m <= k
<1> DEFINE U == {1..m : m \in T}
<1>1. U \subseteq FiniteSubsetsOf(Nat) /\ U # {}
  <2>1. \A m \in T : 1..m \in SUBSET Nat /\ IsFiniteSet(1..m)
    BY FS_Interval
  <2> QED BY <2>1 DEF FiniteSubsetsOf
<1>2. PICK A \in U : \A B \in U : <<B, A>> \notin StrictSubsetOrdering(Nat)
  BY <1>1, FS_StrictSubsetOrderingWellFounded, WFMin
<1>3. PICK m \in T : A = 1..m
  BY <1>2
<1>4. ASSUME NEW k \in T, k < m PROVE FALSE
  <2>1. m \in Nat /\ k \in Nat
    OBVIOUS
  <2>2. 1..k \subseteq 1..m /\ m \in 1..m /\ m \notin 1..k
    BY <1>4, <2>1
  <2>3. <<1..k, 1..m>> \in StrictSubsetOrdering(Nat)
    BY <2>2 DEF StrictSubsetOrdering
  <2> QED BY <1>2, <1>3, <2>3
<1> QED BY <1>4

\* The recursion of From up to place n.
Filter(p, ch, n, f) ==
    f = [i \in 0..n |-> IF i = 0 THEN <<>>
                        ELSE IF ch[i].from = p THEN Append(f[i - 1], ch[i])
                        ELSE f[i - 1]]

\* The messages of a sender can be taken out of a channel one by one.
LEMMA FilterExists ==
    ASSUME NEW p, NEW ch, NEW n \in Nat
    PROVE  \E f : Filter(p, ch, n, f)
<1> DEFINE Bad == {k \in Nat : ~\E f : Filter(p, ch, k, f)}
<1> SUFFICES ASSUME Bad # {} PROVE FALSE
  OBVIOUS
<1>1. PICK m \in Bad : \A k \in Bad : m <= k
  BY LeastNatural
<1>2. m # 0
  <2>1. Filter(p, ch, 0, [i \in 0..0 |-> <<>>])
    BY DEF Filter
  <2> QED BY <2>1
<1>3. m - 1 \in Nat /\ m - 1 \notin Bad
  BY <1>1, <1>2
<1>4. PICK g : Filter(p, ch, m - 1, g)
  BY <1>3
<1> DEFINE f == [i \in 0..m |-> IF i < m THEN g[i]
                               ELSE IF ch[m].from = p THEN Append(g[m - 1], ch[m])
                               ELSE g[m - 1]]
<1>5. ASSUME NEW i \in 0..m
      PROVE  f[i] = IF i = 0 THEN <<>>
                    ELSE IF ch[i].from = p THEN Append(f[i - 1], ch[i])
                    ELSE f[i - 1]
  <2>1. CASE i = m
    BY <1>2, <1>3, <2>1
  <2>2. CASE i # m
    <3>1. i \in 0..(m - 1)
      BY <2>2
    <3>2. g[i] = IF i = 0 THEN <<>>
                 ELSE IF ch[i].from = p THEN Append(g[i - 1], ch[i])
                 ELSE g[i - 1]
      BY <1>4, <3>1 DEF Filter
    <3>3. f[i] = g[i] /\ (i # 0 => f[i - 1] = g[i - 1])
      BY <3>1
    <3> QED BY <3>2, <3>3
  <2> QED BY <2>1, <2>2
<1>6. Filter(p, ch, m, f)
  BY <1>5 DEF Filter
<1> QED BY <1>6

\* Two channels that agree up to place m are filtered alike up to there.
LEMMA FilterAgrees ==
    ASSUME NEW p, NEW ch, NEW dh, NEW n \in Nat, NEW m \in 0..n, NEW f, NEW g,
           Filter(p, ch, n, f), Filter(p, dh, m, g), \A i \in 1..m : ch[i] = dh[i]
    PROVE  f[m] = g[m]
<1> DEFINE Bad == {i \in 0..m : f[i] # g[i]}
<1> SUFFICES ASSUME Bad # {} PROVE FALSE
  OBVIOUS
<1>1. PICK j \in Bad : \A k \in Bad : j <= k
  <2>1. Bad \in SUBSET Nat
    OBVIOUS
  <2> HIDE DEF Bad
  <2> QED BY <2>1, LeastNatural
<1>2. /\ f[j] = IF j = 0 THEN <<>> ELSE IF ch[j].from = p
                THEN Append(f[j - 1], ch[j]) ELSE f[j - 1]
      /\ g[j] = IF j = 0 THEN <<>> ELSE IF dh[j].from = p
                THEN Append(g[j - 1], dh[j]) ELSE g[j - 1]
  <2> j \in 0..n /\ j \in 0..m
    OBVIOUS
  <2> HIDE DEF Bad
  <2> QED BY DEF Filter
<1>3. j # 0
  BY <1>2
<1>4. j - 1 \in 0..m /\ j - 1 \notin Bad
  BY <1>1, <1>3
<1>5. f[j - 1] = g[j - 1] /\ ch[j] = dh[j]
  BY <1>3, <1>4
<1> QED BY <1>2, <1>5

\* From is what was taken after the last of them.
LEMMA FromFilter ==
    ASSUME NEW p, NEW S, NEW ch \in Seq(S)
    PROVE  \E f : Filter(p, ch, Len(ch), f) /\ From(p, ch) = f[Len(ch)]
<1> DEFINE F == CHOOSE f : Filter(p, ch, Len(ch), f)
<1>1. Filter(p, ch, Len(ch), F)
  <2>1. Len(ch) \in Nat
    OBVIOUS
  <2> QED BY <2>1, FilterExists
<1>2. From(p, ch) = F[Len(ch)]
  BY DEF From, Filter
<1> QED BY <1>1, <1>2

\* There is nothing in an empty channel.
LEMMA FromEmpty ==
    ASSUME NEW p
    PROVE  From(p, <<>>) = <<>>
<1>1. <<>> \in Seq(Nat) /\ Len(<<>>) = 0
  OBVIOUS
<1>2. PICK f : Filter(p, <<>>, 0, f) /\ From(p, <<>>) = f[0]
  BY <1>1, FromFilter
<1> QED BY <1>2 DEF Filter

\* A message at the end of a channel is the last of its sender's.
LEMMA FromAppend ==
    ASSUME NEW p, NEW S, NEW ch \in Seq(S), NEW e \in S
    PROVE  From(p, Append(ch, e)) = IF e.from = p THEN Append(From(p, ch), e)
                                                  ELSE From(p, ch)
<1> DEFINE n == Len(ch)
           long == Append(ch, e)
<1>1. n \in Nat /\ long \in Seq(S) /\ Len(long) = n + 1 /\ long[n + 1] = e
      /\ \A i \in 1..n : long[i] = ch[i]
  BY AppendProperties
<1>2. PICK f : Filter(p, ch, n, f) /\ From(p, ch) = f[n]
  BY FromFilter
<1>3. PICK g : Filter(p, long, n + 1, g) /\ From(p, long) = g[n + 1]
  BY <1>1, FromFilter
<1> HIDE DEF n, long
<1>4. g[n] = f[n]
  BY <1>1, <1>2, <1>3, FilterAgrees, n \in 0..(n + 1)
<1>5. g[n + 1] = IF e.from = p THEN Append(g[n], e) ELSE g[n]
  <2>1. n + 1 \in 0..(n + 1) /\ n + 1 # 0 /\ (n + 1) - 1 = n
    BY <1>1
  <2>2. g[n + 1] = IF long[n + 1].from = p THEN Append(g[(n + 1) - 1], long[n + 1])
                                           ELSE g[(n + 1) - 1]
    BY <1>3, <2>1 DEF Filter
  <2> QED BY <1>1, <2>1, <2>2
<1> QED BY <1>2, <1>3, <1>4, <1>5 DEF long

\* Induction over sequences, for a set of them.
LEMMA AllSequences ==
    ASSUME NEW S, NEW T \in SUBSET Seq(S), <<>> \in T,
           \A s \in T, e \in S : Append(s, e) \in T
    PROVE  T = Seq(S)
<1> DEFINE Bad == {Len(s) : s \in Seq(S) \ T}
<1> SUFFICES ASSUME Bad # {} PROVE FALSE
  OBVIOUS
<1>1. PICK m \in Bad : \A k \in Bad : m <= k
  <2>1. Bad \in SUBSET Nat
    BY LenProperties
  <2> HIDE DEF Bad
  <2> QED BY <2>1, LeastNatural
<1>2. PICK c \in Seq(S) \ T : Len(c) = m
  BY <1>1
<1>3. PICK s \in Seq(S), e \in S : c = Append(s, e)
  BY <1>2, SequenceEmptyOrAppend
<1>4. Len(s) \in Nat /\ m = Len(s) + 1
  BY <1>2, <1>3, AppendProperties
<1>5. Len(s) \notin Bad
  <2> HIDE DEF Bad
  <2> QED BY <1>1, <1>4
<1> QED BY <1>2, <1>3, <1>5

\* What is taken out of a channel is messages.
LEMMA FromType ==
    ASSUME NEW p, NEW S
    PROVE  \A ch \in Seq(S) : From(p, ch) \in Seq(S)
<1> DEFINE T == {ch \in Seq(S) : From(p, ch) \in Seq(S)}
<1>1. <<>> \in T
  <2>1. <<>> \in Seq(S) /\ From(p, <<>>) = <<>>
    BY FromEmpty
  <2> QED BY <2>1
<1>2. ASSUME NEW ch \in T, NEW e \in S PROVE Append(ch, e) \in T
  <2>1. ch \in Seq(S) /\ From(p, ch) \in Seq(S)
    BY <1>2
  <2>2. From(p, Append(ch, e)) \in {From(p, ch), Append(From(p, ch), e)}
    BY <2>1, FromAppend
  <2>3. Append(ch, e) \in Seq(S) /\ From(p, Append(ch, e)) \in Seq(S)
    BY <2>1, <2>2, AppendProperties
  <2> QED BY <2>3
<1>3. T \in SUBSET Seq(S)
  OBVIOUS
<1> HIDE DEF T
<1>4. T = Seq(S)
  BY <1>1, <1>2, <1>3, AllSequences
<1> QED BY <1>4 DEF T

\* Appending to the second of two parts appends to the whole.
LEMMA ConcatAppend ==
    ASSUME NEW S, NEW s \in Seq(S), NEW t \in Seq(S), NEW e \in S
    PROVE  s \o Append(t, e) = Append(s \o t, e)
<1>1. Append(t, e) = t \o <<e>> /\ Append(s \o t, e) = (s \o t) \o <<e>>
  BY AppendIsConcat, ConcatProperties
<1>2. <<e>> \in Seq(S)
  OBVIOUS
<1> QED BY <1>1, <1>2, ConcatAssociative

\* The messages of one sender in two channels are those in the one after the other.
LEMMA FromConcat ==
    ASSUME NEW p, NEW S, NEW s \in Seq(S)
    PROVE  \A t \in Seq(S) : From(p, s \o t) = From(p, s) \o From(p, t)
<1> DEFINE T == {t \in Seq(S) : From(p, s \o t) = From(p, s) \o From(p, t)}
<1>1. <<>> \in T
  BY FromEmpty, FromType, ConcatEmptySeq
<1>2. ASSUME NEW t \in T, NEW e \in S PROVE Append(t, e) \in T
  <2> DEFINE st == s \o t
             te == Append(t, e)
  <2>1. t \in Seq(S) /\ From(p, st) = From(p, s) \o From(p, t)
    BY <1>2
  <2>2. st \in Seq(S) /\ te \in Seq(S) /\ s \o te = Append(st, e)
    BY <2>1, ConcatAppend, ConcatProperties, AppendProperties
  <2>3. From(p, s) \in Seq(S) /\ From(p, t) \in Seq(S)
    BY <2>1, FromType
  <2> HIDE DEF T, st
  <2>4. From(p, Append(st, e)) = IF e.from = p THEN Append(From(p, st), e)
                                               ELSE From(p, st)
    BY <2>2, FromAppend
  <2>5. From(p, te) = IF e.from = p THEN Append(From(p, t), e) ELSE From(p, t)
    BY <2>1, FromAppend
  <2>6. From(p, s) \o Append(From(p, t), e) = Append(From(p, s) \o From(p, t), e)
    BY <2>3, ConcatAppend
  <2> HIDE DEF te
  <2>7. From(p, s \o te) = From(p, s) \o From(p, te)
    BY <2>1, <2>2, <2>4, <2>5, <2>6
  <2> QED BY <2>2, <2>7 DEF T, te
<1>3. T \in SUBSET Seq(S)
  OBVIOUS
<1> HIDE DEF T
<1>4. T = Seq(S)
  BY <1>1, <1>2, <1>3, AllSequences
<1> QED BY <1>4 DEF T

-----------------------------------------------------------------------------
(* A message that goes from the head of a channel to the end of the next *)

\* A sequence is its head and the rest.
LEMMA HeadAndTail ==
    ASSUME NEW S, NEW b \in Seq(S), b # <<>>
    PROVE  /\ Head(b) \in S /\ Tail(b) \in Seq(S)
           /\ b = <<Head(b)>> \o Tail(b)
<1>1. Head(b) \in S /\ Tail(b) \in Seq(S)
  BY HeadTailProperties
<1>2. Len(b) \in 1..Len(b) /\ 1 \in 1..Len(b)
  BY EmptySeq
<1>3. b = SubSeq(b, 1, Len(b)) /\ Tail(b) = SubSeq(b, 2, Len(b)) /\ Head(b) = b[1]
  BY SubSeqFull, TailIsSubSeq
<1>4. SubSeq(b, 1, Len(b)) = <<b[1]>> \o SubSeq(b, 1 + 1, Len(b))
  BY <1>2, SubSeqRecursiveFirst
<1> QED BY <1>1, <1>3, <1>4

\* Moving the head of a part to the end of the part before leaves the whole.
LEMMA Shift ==
    ASSUME NEW S, NEW a \in Seq(S), NEW b \in Seq(S), b # <<>>
    PROVE  Append(a, Head(b)) \o Tail(b) = a \o b
<1>1. Head(b) \in S /\ Tail(b) \in Seq(S) /\ b = <<Head(b)>> \o Tail(b)
  BY HeadAndTail
<1>2. Append(a, Head(b)) = a \o <<Head(b)>> /\ <<Head(b)>> \in Seq(S)
  BY <1>1, AppendIsConcat
<1> QED BY <1>1, <1>2, ConcatAssociative

\* So it does for the messages of one sender.
LEMMA FromShift ==
    ASSUME NEW p, NEW S, NEW a \in Seq(S), NEW b \in Seq(S), b # <<>>
    PROVE  From(p, Append(a, Head(b))) \o From(p, Tail(b)) = From(p, a) \o From(p, b)
<1> DEFINE c == Append(a, Head(b))
           d == Tail(b)
<1>1. c \in Seq(S) /\ d \in Seq(S)
  BY HeadAndTail, AppendProperties
<1>2. c \o d = a \o b
  BY Shift
<1> HIDE DEF c, d
<1>3. From(p, c \o d) = From(p, c) \o From(p, d)
  BY <1>1, FromConcat
<1>4. From(p, a \o b) = From(p, a) \o From(p, b)
  BY FromConcat
<1> QED BY <1>2, <1>3, <1>4 DEF c, d

\* The rest of a channel whose head is, or is not, of the sender.
LEMMA FromTail ==
    ASSUME NEW p, NEW S, NEW b \in Seq(S), b # <<>>
    PROVE  From(p, b) = IF Head(b).from = p THEN <<Head(b)>> \o From(p, Tail(b))
                                            ELSE From(p, Tail(b))
<1> DEFINE h == Head(b)
           d == Tail(b)
           one == Append(<<>>, h)
<1>1. h \in S /\ d \in Seq(S) /\ b = <<h>> \o d
  BY HeadAndTail
<1>2. <<>> \in Seq(S) /\ one \in Seq(S) /\ one = <<h>>
  BY <1>1
<1> HIDE DEF h, d
<1>3. From(p, one) = IF h.from = p THEN Append(From(p, <<>>), h) ELSE From(p, <<>>)
  BY <1>1, <1>2, FromAppend
<1> HIDE DEF one
<1>4. From(p, one \o d) = From(p, one) \o From(p, d)
  BY <1>1, <1>2, FromConcat
<1>5. From(p, <<>>) = <<>>
  BY FromEmpty
<1>6. From(p, one) = IF h.from = p THEN <<h>> ELSE <<>>
  BY <1>2, <1>3, <1>5 DEF one
<1>7. <<>> \o From(p, d) = From(p, d)
  BY <1>1, FromType, ConcatEmptySeq
<1> QED BY <1>1, <1>2, <1>4, <1>6, <1>7 DEF h, d

-----------------------------------------------------------------------------
(* The inductive invariant: whose messages are where *)

Message == [from : Node, no : Nat]

\* What p itself has sent.
Own(p) == [from : {p}, no : Nat]

ChannelTypes ==
    /\ scheme \in Schemes
    /\ box \in [Node -> Seq(Message)] /\ hand \in [Node -> Seq(Message)]
    /\ recv \in [Node -> Seq(Message)] /\ shared \in [Node -> Seq(Message)]
    /\ conn \in [Node -> [Node -> Seq(Message)]]
    /\ send \in [Node -> [Node -> Seq(Message)]]
    /\ sent \in [Node -> [Node -> Nat]]
    /\ todo \in [Node -> Seq(Node)]

\* No replica sends to itself; its connections carry its messages only; with TCP
\* nothing goes through the channel that all senders share.
Separate ==
    /\ \A p \in Node : todo[p] \in Seq(Node \ {p})
    /\ \A p, q \in Node : conn[p][q] \in Seq(Own(p)) /\ send[p][q] \in Seq(Own(p))
    /\ scheme = "tcp" => \A q \in Node : shared[q] = <<>>

LinkInv == ChannelTypes /\ Separate

\* What a replica sends are messages.
LEMMA OwnMessages == \A p \in Node : Own(p) \subseteq Message
BY DEF Own, Message

\* Parts of a way may be joined in any order.
LEMMA Associative ==
    \A x, u, v \in Seq(Message) : (x \o u) \o v = x \o (u \o v)
BY ConcatAssociative

\* The head of a connection of p arrives in a channel that others fill as well.
LEMMA Arrival ==
    ASSUME NEW p \in Node, NEW c \in Seq(Own(p)), NEW ch \in Seq(Message), c # <<>>
    PROVE  /\ From(p, Append(ch, Head(c))) \o Tail(c) = From(p, ch) \o c
           /\ \A x \in Node \ {p} : From(x, Append(ch, Head(c))) = From(x, ch)
<1>1. c \in Seq(Message)
  BY OwnMessages, SeqMonotonic
<1>2. Head(c) \in Own(p) /\ Head(c) \in Message
  BY OwnMessages, HeadTailProperties
<1>3. Head(c).from = p
  BY <1>2 DEF Own
<1>4. From(p, Append(ch, Head(c))) = Append(From(p, ch), Head(c))
  BY <1>2, <1>3, FromAppend
<1>5. Append(From(p, ch), Head(c)) \o Tail(c) = From(p, ch) \o c
  BY <1>1, FromType, Shift
<1>6. \A x \in Node \ {p} : From(x, Append(ch, Head(c))) = From(x, ch)
  BY <1>2, <1>3, FromAppend
<1> QED BY <1>4, <1>5, <1>6

\* The channels are empty at first.
LEMMA LinkInit == Init => LinkInv
<1> SUFFICES ASSUME Init PROVE LinkInv
  OBVIOUS
<1>1. \A S : <<>> \in Seq(S)
  OBVIOUS
<1> QED BY <1>1 DEF Init, LinkInv, ChannelTypes, Separate

\* A handler broadcasts to the other replicas, in some order.
LEMMA OrderType ==
    ASSUME NEW n \in Node, NEW order \in SetToSeqs(Node \ {n})
    PROVE  order \in Seq(Node \ {n}) /\ order \in Seq(Node)
<1> DEFINE k == Cardinality(Node \ {n})
<1>1. k \in Nat
  BY TransportSizes, FS_Subset, FS_CardinalityType
<1>2. order \in [1..k -> Node \ {n}]
  BY DEF SetToSeqs
<1>3. order \in [1..k -> Node]
  BY <1>2
<1> HIDE DEF k
<1> QED BY <1>1, <1>2, <1>3

\* Taking a message from MessageChan keeps the channels apart.
LEMMA LinkHandle ==
    ASSUME LinkInv, NEW n \in Node, Handle(n)
    PROVE  LinkInv'
<1>1. Tail(box[n]) \in Seq(Message)
  BY HeadTailProperties DEF LinkInv, ChannelTypes, Handle
<1>2. /\ todo' \in [Node -> Seq(Node)]
      /\ \A p \in Node : todo'[p] \in Seq(Node \ {p})
  <2>1. CASE todo' = todo
    BY <2>1 DEF LinkInv, ChannelTypes, Separate
  <2>2. CASE BroadcastTo(n)
    <3>1. PICK order \in SetToSeqs(Node \ {n}) : todo' = [todo EXCEPT ![n] = order]
      BY <2>2 DEF BroadcastTo
    <3> QED BY <3>1, OrderType DEF LinkInv, ChannelTypes, Separate
  <2> QED BY <2>1, <2>2 DEF Handle
<1>3. ChannelTypes'
  BY <1>1, <1>2 DEF LinkInv, ChannelTypes, Handle, dialling
<1>4. Separate'
  BY <1>2 DEF LinkInv, Separate, Handle, dialling
<1> QED BY <1>3, <1>4 DEF LinkInv

\* Sending puts a message of p on the way of p only (Send).
LEMMA LinkSend ==
    ASSUME LinkInv, NEW p \in Node, NEW q \in Node, Send(p, q)
    PROVE  LinkInv'
<1> DEFINE m == [from |-> p, no |-> sent[p][q] + 1]
<1>1. sent' = [sent EXCEPT ![p][q] = sent[p][q] + 1] /\ sent[p][q] + 1 \in Nat
  <2>1. sent' = [sent EXCEPT ![p][q] = sent[p][q] + 1]
    BY DEF Send
  <2>2. sent[p][q] \in Nat
    BY DEF LinkInv, ChannelTypes
  <2> QED BY <2>1, <2>2
<1>2. sent' \in [Node -> [Node -> Nat]] /\ sent'[p][q] = sent[p][q] + 1
  BY <1>1 DEF LinkInv, ChannelTypes
<1>3. m \in Message /\ m \in Own(p) /\ send' = [send EXCEPT ![p][q] = Append(@, m)]
  BY <1>1, <1>2 DEF Send, Message, Own
<1>4. todo[p] # <<>> /\ Tail(todo[p]) \in Seq(Node) /\ Tail(todo[p]) \in Seq(Node \ {p})
  BY HeadTailProperties DEF Send, SendsTo, LinkInv, ChannelTypes, Separate
<1> HIDE DEF m
<1>5. /\ send[p][q] \in Seq(Message) /\ Append(send[p][q], m) \in Seq(Message)
      /\ send[p][q] \in Seq(Own(p)) /\ Append(send[p][q], m) \in Seq(Own(p))
  BY <1>3, AppendProperties DEF LinkInv, ChannelTypes, Separate
<1>6. send' \in [Node -> [Node -> Seq(Message)]] /\ todo' \in [Node -> Seq(Node)]
  <2>1. send' \in [Node -> [Node -> Seq(Message)]]
    BY <1>3, <1>5 DEF LinkInv, ChannelTypes
  <2>2. todo' = [todo EXCEPT ![p] = Tail(todo[p])]
    BY DEF Send
  <2>3. todo' \in [Node -> Seq(Node)]
    BY <1>4, <2>2 DEF LinkInv, ChannelTypes
  <2> QED BY <2>1, <2>3
<1>7. ChannelTypes'
  BY <1>2, <1>6 DEF LinkInv, ChannelTypes, Send, dialling
<1>8. \A x, y \in Node : send'[x][y] \in Seq(Own(x))
  BY <1>3, <1>5 DEF LinkInv, ChannelTypes, Separate
<1>9. \A x \in Node : todo'[x] \in Seq(Node \ {x})
  BY <1>4 DEF Send, LinkInv, ChannelTypes, Separate
<1>10. Separate'
  BY <1>8, <1>9 DEF LinkInv, Separate, Send, dialling
<1> QED BY <1>7, <1>10 DEF LinkInv

\* Encoding moves it to the connection of p.
LEMMA LinkEncode ==
    ASSUME LinkInv, NEW p \in Node, NEW q \in Node, Encode(p, q)
    PROVE  LinkInv'
<1> DEFINE h == Head(send[p][q])
           t == Tail(send[p][q])
<1>1. send[p][q] # <<>> /\ send[p][q] \in Seq(Message) /\ send[p][q] \in Seq(Own(p))
  BY DEF Encode, LinkInv, ChannelTypes, Separate
<1>2. h \in Message /\ h \in Own(p) /\ t \in Seq(Message) /\ t \in Seq(Own(p))
  BY <1>1, HeadTailProperties
<1>3. conn' = [conn EXCEPT ![p][q] = Append(@, h)] /\ send' = [send EXCEPT ![p][q] = t]
  BY DEF Encode
<1> HIDE DEF h, t
<1>4. Append(conn[p][q], h) \in Seq(Message) /\ Append(conn[p][q], h) \in Seq(Own(p))
  BY <1>2, AppendProperties DEF LinkInv, ChannelTypes, Separate
<1>5. ChannelTypes'
  <2>1. conn' \in [Node -> [Node -> Seq(Message)]]
    BY <1>3, <1>4 DEF LinkInv, ChannelTypes
  <2>2. send' \in [Node -> [Node -> Seq(Message)]]
    BY <1>2, <1>3 DEF LinkInv, ChannelTypes
  <2> QED BY <2>1, <2>2 DEF LinkInv, ChannelTypes, Encode, dialling
<1>6. \A x, y \in Node : conn'[x][y] \in Seq(Own(x)) /\ send'[x][y] \in Seq(Own(x))
  BY <1>2, <1>3, <1>4 DEF LinkInv, ChannelTypes, Separate
<1>7. Separate'
  BY <1>6 DEF LinkInv, Separate, Encode, dialling
<1> QED BY <1>5, <1>7 DEF LinkInv

\* The head of a connection leaves it.
LEMMA LinkReceive ==
    ASSUME LinkInv, NEW p \in Node, NEW q \in Node, conn[p][q] # <<>>,
           conn' = [conn EXCEPT ![p][q] = Tail(@)]
    PROVE  /\ Head(conn[p][q]) \in Message
           /\ conn' \in [Node -> [Node -> Seq(Message)]]
           /\ \A x, y \in Node : conn'[x][y] \in Seq(Own(x))
<1>1. conn[p][q] \in Seq(Message) /\ conn[p][q] \in Seq(Own(p))
  BY DEF LinkInv, ChannelTypes, Separate
<1>2. /\ Head(conn[p][q]) \in Message
      /\ Tail(conn[p][q]) \in Seq(Message) /\ Tail(conn[p][q]) \in Seq(Own(p))
  BY <1>1, HeadTailProperties
<1> QED BY <1>2 DEF LinkInv, ChannelTypes, Separate

\* Decoding moves it to the receive channel.
LEMMA LinkDecode ==
    ASSUME LinkInv, NEW p \in Node, NEW q \in Node, Decode(p, q)
    PROVE  LinkInv'
<1>1. /\ Head(conn[p][q]) \in Message
      /\ conn' \in [Node -> [Node -> Seq(Message)]]
      /\ \A x, y \in Node : conn'[x][y] \in Seq(Own(x))
  BY LinkReceive DEF Decode
<1>2. Append(recv[q], Head(conn[p][q])) \in Seq(Message)
  BY <1>1, AppendProperties DEF LinkInv, ChannelTypes
<1>3. ChannelTypes'
  BY <1>1, <1>2 DEF LinkInv, ChannelTypes, Decode, dialling
<1>4. Separate'
  BY <1>1 DEF LinkInv, Separate, Decode, dialling
<1> QED BY <1>3, <1>4 DEF LinkInv

\* With chan it moves to the channel that all senders share.
LEMMA LinkJoin ==
    ASSUME LinkInv, NEW p \in Node, NEW q \in Node, Join(p, q)
    PROVE  LinkInv'
<1>1. /\ Head(conn[p][q]) \in Message
      /\ conn' \in [Node -> [Node -> Seq(Message)]]
      /\ \A x, y \in Node : conn'[x][y] \in Seq(Own(x))
  BY LinkReceive DEF Join
<1>2. Append(shared[q], Head(conn[p][q])) \in Seq(Message)
  BY <1>1, AppendProperties DEF LinkInv, ChannelTypes
<1>3. ChannelTypes'
  BY <1>1, <1>2 DEF LinkInv, ChannelTypes, Join, dialling
<1>4. Separate'
  BY <1>1 DEF LinkInv, Separate, Join, dialling
<1> QED BY <1>3, <1>4 DEF LinkInv

\* From there it moves to the receive channel.
LEMMA LinkListen ==
    ASSUME LinkInv, NEW q \in Node, Listen(q)
    PROVE  LinkInv'
<1>1. Head(shared[q]) \in Message /\ Tail(shared[q]) \in Seq(Message)
  BY HeadTailProperties DEF LinkInv, ChannelTypes, Listen
<1>2. Append(recv[q], Head(shared[q])) \in Seq(Message)
  BY <1>1, AppendProperties DEF LinkInv, ChannelTypes
<1>3. ChannelTypes'
  BY <1>1, <1>2 DEF LinkInv, ChannelTypes, Listen, dialling
<1>4. scheme # "tcp"
  BY DEF LinkInv, Separate, Listen
<1>5. Separate'
  BY <1>4 DEF LinkInv, Separate, Listen, dialling
<1> QED BY <1>3, <1>5 DEF LinkInv

\* node.recv takes the next message, whoever sent it.
LEMMA LinkTake ==
    ASSUME LinkInv, NEW n \in Node, Take(n)
    PROVE  LinkInv'
<1>1. Head(recv[n]) \in Message /\ Tail(recv[n]) \in Seq(Message)
  BY HeadTailProperties DEF LinkInv, ChannelTypes, Take
<1>2. <<Head(recv[n])>> \in Seq(Message)
  BY <1>1
<1>3. ChannelTypes'
  BY <1>1, <1>2 DEF LinkInv, ChannelTypes, Take, dialling
<1>4. Separate'
  BY DEF LinkInv, Separate, Take, dialling
<1> QED BY <1>3, <1>4 DEF LinkInv

\* It passes the message to MessageChan.
LEMMA LinkPass ==
    ASSUME LinkInv, NEW n \in Node, Pass(n)
    PROVE  LinkInv'
<1>1. box[n] \o hand[n] \in Seq(Message) /\ <<>> \in Seq(Message)
  BY ConcatProperties DEF LinkInv, ChannelTypes
<1>2. ChannelTypes'
  BY <1>1 DEF LinkInv, ChannelTypes, Pass, dialling
<1>3. Separate'
  BY DEF LinkInv, Separate, Pass, dialling
<1> QED BY <1>2, <1>3 DEF LinkInv

\* A request of a client enters MessageChan beside the messages.
LEMMA LinkPost ==
    ASSUME LinkInv, NEW n \in Node, Post(n)
    PROVE  LinkInv'
<1>1. Request(n) \in Message
  BY DEF Request, Message
<1>2. Append(box[n], Request(n)) \in Seq(Message)
  BY <1>1, AppendProperties DEF LinkInv, ChannelTypes
<1>3. ChannelTypes'
  BY <1>2 DEF LinkInv, ChannelTypes, Post, dialling
<1>4. Separate'
  BY DEF LinkInv, Separate, Post, dialling
<1> QED BY <1>3, <1>4 DEF LinkInv

\* Starting and dialling move no message.
LEMMA LinkStill ==
    ASSUME LinkInv,
           UNCHANGED <<scheme, box, todo, send, conn, shared, recv, hand, sent>>
    PROVE  LinkInv'
BY DEF LinkInv, ChannelTypes, Separate

\* Every step keeps the channels apart.
LEMMA LinkStep == LinkInv /\ [Next]_vars => LinkInv'
<1> SUFFICES ASSUME LinkInv, [Next]_vars PROVE LinkInv'
  OBVIOUS
<1>1. CASE UNCHANGED vars
  BY <1>1, LinkStill DEF vars, dialling
<1>2. ASSUME NEW n \in Node, Start(n) PROVE LinkInv'
  BY <1>2, LinkStill DEF Start
<1>3. ASSUME NEW p \in Node, NEW q \in Node, Dial(p, q) PROVE LinkInv'
  BY <1>3, LinkStill DEF Dial
<1> QED BY <1>1, <1>2, <1>3, LinkPost, LinkHandle, LinkListen, LinkTake, LinkPass,
           LinkSend, LinkEncode, LinkDecode, LinkJoin DEF Next

-----------------------------------------------------------------------------
(* Steps inside the chain of channels *)

SameWay == \A x, y \in Node : x # y => Path(x, y)' = Path(x, y)

\* Every part of the way from x to y is a sequence of messages.
LEMMA PathTypes ==
    ASSUME LinkInv, NEW x \in Node, NEW y \in Node
    PROVE  /\ From(x, box[y]) \in Seq(Message) /\ From(x, hand[y]) \in Seq(Message)
           /\ From(x, recv[y]) \in Seq(Message) /\ From(x, shared[y]) \in Seq(Message)
           /\ conn[x][y] \in Seq(Message) /\ send[x][y] \in Seq(Message)
           /\ From(x, box[y]) \o From(x, hand[y]) \in Seq(Message)
           /\ From(x, box[y]) \o From(x, hand[y]) \o From(x, recv[y]) \in Seq(Message)
           /\ From(x, box[y]) \o From(x, hand[y]) \o From(x, recv[y])
                \o From(x, shared[y]) \in Seq(Message)
           /\ Path(x, y) \in Seq(Message)
<1>1. /\ From(x, box[y]) \in Seq(Message) /\ From(x, hand[y]) \in Seq(Message)
      /\ From(x, recv[y]) \in Seq(Message) /\ From(x, shared[y]) \in Seq(Message)
      /\ conn[x][y] \in Seq(Message) /\ send[x][y] \in Seq(Message)
  BY FromType DEF LinkInv, ChannelTypes
<1> QED BY <1>1, ConcatProperties DEF Path

\* With chan or tcp, a message that p has sent waits for the connection.
LEMMA PathEncode ==
    ASSUME LinkInv, NEW p \in Node, NEW q \in Node, Encode(p, q)
    PROVE  SameWay
<1> SUFFICES ASSUME NEW x \in Node, NEW y \in Node PROVE Path(x, y)' = Path(x, y)
  BY DEF SameWay
<1> DEFINE before == From(x, box[y]) \o From(x, hand[y]) \o From(x, recv[y])
                       \o From(x, shared[y])
<1>1. /\ before' = before /\ before \in Seq(Message)
      /\ Path(x, y) = (before \o conn[x][y]) \o send[x][y]
      /\ Path(x, y)' = (before \o conn'[x][y]) \o send'[x][y]
  BY PathTypes DEF Encode, Path
<1> HIDE DEF before
<1>2. /\ conn[x][y] \in Seq(Message) /\ send[x][y] \in Seq(Message)
      /\ conn'[x][y] \in Seq(Message) /\ send'[x][y] \in Seq(Message)
  <2>1. ChannelTypes /\ ChannelTypes'
    BY LinkEncode DEF LinkInv
  <2> QED BY <2>1 DEF ChannelTypes
<1>3. conn'[x][y] \o send'[x][y] = conn[x][y] \o send[x][y]
  <2>1. CASE x = p /\ y = q
    <3>1. /\ conn'[x][y] = Append(conn[x][y], Head(send[x][y]))
          /\ send'[x][y] = Tail(send[x][y]) /\ send[x][y] # <<>>
      BY <2>1 DEF Encode, LinkInv, ChannelTypes
    <3> QED BY <3>1, <1>2, Shift
  <2>2. CASE ~(x = p /\ y = q)
    BY <2>2 DEF Encode, LinkInv, ChannelTypes
  <2> QED BY <2>1, <2>2
<1>4. (before \o conn'[x][y]) \o send'[x][y] = (before \o conn[x][y]) \o send[x][y]
  <2>1. (before \o conn'[x][y]) \o send'[x][y] = before \o (conn'[x][y] \o send'[x][y])
    BY <1>1, <1>2, Associative, Zenon
  <2>2. (before \o conn[x][y]) \o send[x][y] = before \o (conn[x][y] \o send[x][y])
    BY <1>1, <1>2, Associative, Zenon
  <2> QED BY <2>1, <2>2, <1>3, Zenon
<1> QED BY <1>1, <1>4

\* A message goes from the connection into the channel that all senders share.
LEMMA PathJoin ==
    ASSUME LinkInv, NEW p \in Node, NEW q \in Node, Join(p, q)
    PROVE  SameWay
<1> SUFFICES ASSUME NEW x \in Node, NEW y \in Node PROVE Path(x, y)' = Path(x, y)
  BY DEF SameWay
<1> DEFINE before == From(x, box[y]) \o From(x, hand[y]) \o From(x, recv[y])
           s1 == From(x, shared[y])
           s2 == From(x, shared'[y])
<1>1. /\ before \in Seq(Message) /\ s1 \in Seq(Message)
      /\ Path(x, y) = ((before \o s1) \o conn[x][y]) \o send[x][y]
      /\ Path(x, y)' = ((before \o s2) \o conn'[x][y]) \o send[x][y]
  BY PathTypes DEF Join, Path
<1>2. /\ conn[x][y] \in Seq(Message) /\ conn'[x][y] \in Seq(Message)
      /\ s2 \in Seq(Message)
  <2>1. ChannelTypes /\ ChannelTypes'
    BY LinkJoin DEF LinkInv
  <2>2. /\ conn[x][y] \in Seq(Message) /\ conn'[x][y] \in Seq(Message)
        /\ shared'[y] \in Seq(Message)
    BY <2>1 DEF ChannelTypes
  <2> QED BY <2>2, FromType
<1>3. s2 \o conn'[x][y] = s1 \o conn[x][y]
  <2>1. conn[p][q] # <<>> /\ conn[p][q] \in Seq(Own(p)) /\ shared[q] \in Seq(Message)
    BY DEF Join, LinkInv, ChannelTypes, Separate
  <2>2. CASE y # q
    BY <2>2 DEF Join, LinkInv, ChannelTypes
  <2> DEFINE more == Append(shared[q], Head(conn[p][q]))
  <2>3. /\ From(p, more) \o Tail(conn[p][q]) = From(p, shared[q]) \o conn[p][q]
        /\ \A z \in Node \ {p} : From(z, more) = From(z, shared[q])
    BY <2>1, Arrival
  <2>4. shared'[q] = more /\ conn'[p][q] = Tail(conn[p][q])
    BY DEF Join, LinkInv, ChannelTypes
  <2> HIDE DEF more
  <2>5. CASE y = q /\ x = p
    BY <2>3, <2>4, <2>5
  <2>6. CASE y = q /\ x # p
    <3>1. conn'[x][y] = conn[x][y]
      BY <2>6 DEF Join, LinkInv, ChannelTypes
    <3> QED BY <2>3, <2>4, <2>6, <3>1
  <2> QED BY <2>2, <2>5, <2>6
<1> HIDE DEF before, s1, s2
<1>4. (before \o s2) \o conn'[x][y] = (before \o s1) \o conn[x][y]
  <2>1. (before \o s2) \o conn'[x][y] = before \o (s2 \o conn'[x][y])
    BY <1>1, <1>2, Associative, Zenon
  <2>2. (before \o s1) \o conn[x][y] = before \o (s1 \o conn[x][y])
    BY <1>1, <1>2, Associative, Zenon
  <2> QED BY <2>1, <2>2, <1>3, Zenon
<1> QED BY <1>1, <1>4

\* With TCP nothing is in the shared channel: the message goes past it.
LEMMA PathDecode ==
    ASSUME LinkInv, NEW p \in Node, NEW q \in Node, Decode(p, q)
    PROVE  SameWay
<1> SUFFICES ASSUME NEW x \in Node, NEW y \in Node PROVE Path(x, y)' = Path(x, y)
  BY DEF SameWay
<1> DEFINE before == From(x, box[y]) \o From(x, hand[y])
           r1 == From(x, recv[y])
           r2 == From(x, recv'[y])
<1>1. /\ before \in Seq(Message) /\ r1 \in Seq(Message) /\ before \o r1 \in Seq(Message)
      /\ Path(x, y) = (((before \o r1) \o From(x, shared[y])) \o conn[x][y]) \o send[x][y]
      /\ Path(x, y)' = (((before \o r2) \o From(x, shared[y])) \o conn'[x][y]) \o send[x][y]
  BY PathTypes DEF Decode, Path
<1>2. /\ conn[x][y] \in Seq(Message) /\ conn'[x][y] \in Seq(Message)
      /\ r2 \in Seq(Message)
  <2>1. ChannelTypes /\ ChannelTypes'
    BY LinkDecode DEF LinkInv
  <2>2. /\ conn[x][y] \in Seq(Message) /\ conn'[x][y] \in Seq(Message)
        /\ recv'[y] \in Seq(Message)
    BY <2>1 DEF ChannelTypes
  <2> QED BY <2>2, FromType
<1>3. From(x, shared[y]) = <<>>
  BY FromEmpty DEF Decode, LinkInv, Separate
<1>4. r2 \o conn'[x][y] = r1 \o conn[x][y]
  <2>1. conn[p][q] # <<>> /\ conn[p][q] \in Seq(Own(p)) /\ recv[q] \in Seq(Message)
    BY DEF Decode, LinkInv, ChannelTypes, Separate
  <2>2. CASE y # q
    BY <2>2 DEF Decode, LinkInv, ChannelTypes
  <2> DEFINE more == Append(recv[q], Head(conn[p][q]))
  <2>3. /\ From(p, more) \o Tail(conn[p][q]) = From(p, recv[q]) \o conn[p][q]
        /\ \A z \in Node \ {p} : From(z, more) = From(z, recv[q])
    BY <2>1, Arrival
  <2>4. recv'[q] = more /\ conn'[p][q] = Tail(conn[p][q])
    BY DEF Decode, LinkInv, ChannelTypes
  <2> HIDE DEF more
  <2>5. CASE y = q /\ x = p
    BY <2>3, <2>4, <2>5
  <2>6. CASE y = q /\ x # p
    <3>1. conn'[x][y] = conn[x][y]
      BY <2>6 DEF Decode, LinkInv, ChannelTypes
    <3> QED BY <2>3, <2>4, <2>6, <3>1
  <2> QED BY <2>2, <2>5, <2>6
<1> HIDE DEF before, r1, r2
<1>5. (before \o r2) \o conn'[x][y] = (before \o r1) \o conn[x][y]
  <2>1. (before \o r2) \o conn'[x][y] = before \o (r2 \o conn'[x][y])
    BY <1>1, <1>2, Associative, Zenon
  <2>2. (before \o r1) \o conn[x][y] = before \o (r1 \o conn[x][y])
    BY <1>1, <1>2, Associative, Zenon
  <2> QED BY <2>1, <2>2, <1>4, Zenon
<1>6. before \o r2 \in Seq(Message)
  BY <1>1, <1>2, ConcatProperties
<1>7. (before \o r1) \o <<>> = before \o r1 /\ (before \o r2) \o <<>> = before \o r2
  BY <1>1, <1>6, ConcatEmptySeq
<1> QED BY <1>1, <1>3, <1>5, <1>7

\* A message leaves the shared channel.
LEMMA PathListen ==
    ASSUME LinkInv, NEW n \in Node, Listen(n)
    PROVE  SameWay
<1> SUFFICES ASSUME NEW x \in Node, NEW y \in Node PROVE Path(x, y)' = Path(x, y)
  BY DEF SameWay
<1> DEFINE before == From(x, box[y]) \o From(x, hand[y])
           r1 == From(x, recv[y])
           r2 == From(x, recv'[y])
           s1 == From(x, shared[y])
           s2 == From(x, shared'[y])
<1>1. /\ before \in Seq(Message) /\ r1 \in Seq(Message) /\ s1 \in Seq(Message)
      /\ Path(x, y) = ((before \o r1) \o s1) \o conn[x][y] \o send[x][y]
      /\ Path(x, y)' = ((before \o r2) \o s2) \o conn[x][y] \o send[x][y]
  BY PathTypes DEF Listen, Path
<1>2. r2 \in Seq(Message) /\ s2 \in Seq(Message)
  <2>1. recv'[y] \in Seq(Message) /\ shared'[y] \in Seq(Message)
    BY LinkListen DEF LinkInv, ChannelTypes
  <2> QED BY <2>1, FromType
<1>3. r2 \o s2 = r1 \o s1
  <2>1. CASE y # n
    BY <2>1 DEF Listen, LinkInv, ChannelTypes
  <2>2. CASE y = n
    <3>1. /\ shared[n] # <<>> /\ shared[n] \in Seq(Message) /\ recv[n] \in Seq(Message)
          /\ recv'[n] = Append(recv[n], Head(shared[n])) /\ shared'[n] = Tail(shared[n])
      BY DEF Listen, LinkInv, ChannelTypes
    <3>2. /\ From(x, Append(recv[n], Head(shared[n]))) \o From(x, Tail(shared[n]))
               = From(x, recv[n]) \o From(x, shared[n])
      BY <3>1, FromShift
    <3> QED BY <2>2, <3>1, <3>2
  <2> QED BY <2>1, <2>2
<1> HIDE DEF before, r1, r2, s1, s2
<1>4. (before \o r2) \o s2 = (before \o r1) \o s1
  <2>1. (before \o r2) \o s2 = before \o (r2 \o s2)
    BY <1>1, <1>2, Associative, Zenon
  <2>2. (before \o r1) \o s1 = before \o (r1 \o s1)
    BY <1>1, Associative, Zenon
  <2> QED BY <2>1, <2>2, <1>3, Zenon
<1> QED BY <1>1, <1>4

\* node.recv takes a message, its hand being empty.
LEMMA PathTake ==
    ASSUME LinkInv, NEW n \in Node, Take(n)
    PROVE  SameWay
<1> SUFFICES ASSUME NEW x \in Node, NEW y \in Node PROVE Path(x, y)' = Path(x, y)
  BY DEF SameWay
<1> DEFINE before == From(x, box[y])
           h1 == From(x, hand[y])
           h2 == From(x, hand'[y])
           r1 == From(x, recv[y])
           r2 == From(x, recv'[y])
<1>1. /\ before \in Seq(Message) /\ h1 \in Seq(Message) /\ r1 \in Seq(Message)
      /\ Path(x, y) = ((before \o h1) \o r1) \o From(x, shared[y]) \o conn[x][y]
                        \o send[x][y]
      /\ Path(x, y)' = ((before \o h2) \o r2) \o From(x, shared[y]) \o conn[x][y]
                        \o send[x][y]
  BY PathTypes DEF Take, Path
<1>2. h2 \in Seq(Message) /\ r2 \in Seq(Message)
  <2>1. hand'[y] \in Seq(Message) /\ recv'[y] \in Seq(Message)
    BY LinkTake DEF LinkInv, ChannelTypes
  <2> QED BY <2>1, FromType
<1>3. h2 \o r2 = h1 \o r1
  <2>1. CASE y # n
    BY <2>1 DEF Take, LinkInv, ChannelTypes
  <2>2. CASE y = n
    <3>1. /\ recv[n] # <<>> /\ recv[n] \in Seq(Message) /\ hand[n] \in Seq(Message)
          /\ hand'[n] = Append(hand[n], Head(recv[n])) /\ recv'[n] = Tail(recv[n])
      <4>1. recv[n] \in Seq(Message) /\ recv[n] # <<>> /\ hand[n] = <<>>
        BY DEF Take, LinkInv, ChannelTypes
      <4>2. Head(recv[n]) \in Message
        BY <4>1, HeadTailProperties
      <4>3. hand'[n] = <<Head(recv[n])>> /\ recv'[n] = Tail(recv[n])
        BY DEF Take, LinkInv, ChannelTypes
      <4>4. <<>> \in Seq(Message) /\ Append(<<>>, Head(recv[n])) = <<Head(recv[n])>>
        BY <4>2
      <4> QED BY <4>1, <4>3, <4>4
    <3>2. /\ From(x, Append(hand[n], Head(recv[n]))) \o From(x, Tail(recv[n]))
               = From(x, hand[n]) \o From(x, recv[n])
      BY <3>1, FromShift
    <3> QED BY <2>2, <3>1, <3>2
  <2> QED BY <2>1, <2>2
<1> HIDE DEF before, h1, h2, r1, r2
<1>4. (before \o h2) \o r2 = (before \o h1) \o r1
  <2>1. (before \o h2) \o r2 = before \o (h2 \o r2)
    BY <1>1, <1>2, Associative, Zenon
  <2>2. (before \o h1) \o r1 = before \o (h1 \o r1)
    BY <1>1, Associative, Zenon
  <2> QED BY <2>1, <2>2, <1>3, Zenon
<1> QED BY <1>1, <1>4

\* node.recv passes on what it has in its hand.
LEMMA PathPass ==
    ASSUME LinkInv, NEW n \in Node, Pass(n)
    PROVE  SameWay
<1> SUFFICES ASSUME NEW x \in Node, NEW y \in Node PROVE Path(x, y)' = Path(x, y)
  BY DEF SameWay
<1>1. /\ Path(x, y) = From(x, box[y]) \o From(x, hand[y]) \o From(x, recv[y])
                        \o From(x, shared[y]) \o conn[x][y] \o send[x][y]
      /\ Path(x, y)' = From(x, box'[y]) \o From(x, hand'[y]) \o From(x, recv[y])
                        \o From(x, shared[y]) \o conn[x][y] \o send[x][y]
  BY DEF Pass, Path
<1>2. From(x, box'[y]) \o From(x, hand'[y]) = From(x, box[y]) \o From(x, hand[y])
  <2>1. CASE y # n
    BY <2>1 DEF Pass, LinkInv, ChannelTypes
  <2>2. CASE y = n
    <3>1. box[n] \in Seq(Message) /\ hand[n] \in Seq(Message)
      BY DEF LinkInv, ChannelTypes
    <3>2. box'[n] = box[n] \o hand[n] /\ hand'[n] = <<>>
      BY DEF Pass, LinkInv, ChannelTypes
    <3>3. From(x, box[n] \o hand[n]) = From(x, box[n]) \o From(x, hand[n])
      BY <3>1, FromConcat
    <3>4. From(x, <<>>) = <<>>
      BY FromEmpty
    <3>5. From(x, box[n] \o hand[n]) \o <<>> = From(x, box[n] \o hand[n])
      BY <3>1, ConcatProperties, FromType, ConcatEmptySeq
    <3> QED BY <2>2, <3>2, <3>3, <3>4, <3>5
  <2> QED BY <2>1, <2>2
<1> QED BY <1>1, <1>2

\* A request is a message of the replica to itself, and on no other replica's way.
LEMMA PathPost ==
    ASSUME LinkInv, NEW n \in Node, Post(n)
    PROVE  SameWay
<1> SUFFICES ASSUME NEW x \in Node, NEW y \in Node, x # y
             PROVE  Path(x, y)' = Path(x, y)
  BY DEF SameWay
<1>1. From(x, box'[y]) = From(x, box[y])
  <2>1. CASE y # n
    BY <2>1 DEF Post, LinkInv, ChannelTypes
  <2>2. CASE y = n
    <3>1. box'[n] = Append(box[n], Request(n)) /\ box[n] \in Seq(Message)
      BY DEF Post, LinkInv, ChannelTypes
    <3>2. Request(n) \in Message /\ Request(n).from = n
      BY DEF Request, Message
    <3>3. From(x, Append(box[n], Request(n))) = From(x, box[n])
      BY <2>2, <3>1, <3>2, FromAppend
    <3> QED BY <2>2, <3>1, <3>3
  <2> QED BY <2>1, <2>2
<1> QED BY <1>1 DEF Post, Path

-----------------------------------------------------------------------------
(* Steps at the ends of the chain *)

Nos(s) == [i \in DOMAIN s |-> s[i].no]

\* The numbers of messages, as many as there are messages.
LEMMA NosType ==
    ASSUME NEW s \in Seq(Message)
    PROVE  Nos(s) \in Seq(Nat) /\ Len(Nos(s)) = Len(s)
<1>1. Len(s) \in Nat /\ DOMAIN s = 1..Len(s) /\ \A i \in 1..Len(s) : s[i] \in Message
  BY LenProperties, ElementOfSeq
<1>2. Nos(s) \in [1..Len(s) -> Nat]
  BY <1>1 DEF Nos, Message
<1> QED BY <1>1, <1>2

\* A message more is a number more.
LEMMA NosAppend ==
    ASSUME NEW s \in Seq(Message), NEW m \in Message
    PROVE  Nos(Append(s, m)) = Append(Nos(s), m.no)
<1> DEFINE a == Nos(Append(s, m))
           b == Append(Nos(s), m.no)
<1>1. /\ Append(s, m) \in Seq(Message) /\ Len(Append(s, m)) = Len(s) + 1
      /\ \A i \in 1..Len(s) : Append(s, m)[i] = s[i]
      /\ Append(s, m)[Len(s) + 1] = m
  BY AppendProperties
<1>2. Nos(s) \in Seq(Nat) /\ Len(Nos(s)) = Len(s) /\ m.no \in Nat /\ Len(s) \in Nat
  BY NosType, LenProperties DEF Message
<1>3. a \in Seq(Nat) /\ Len(a) = Len(s) + 1
  BY <1>1, NosType
<1>4. /\ b \in Seq(Nat) /\ Len(b) = Len(s) + 1 /\ b[Len(s) + 1] = m.no
      /\ \A i \in 1..Len(s) : b[i] = Nos(s)[i]
  BY <1>2, AppendProperties
<1>5. ASSUME NEW i \in 1..Len(a) PROVE a[i] = b[i]
  <2>1. i \in DOMAIN Append(s, m)
    BY <1>1, <1>3, LenProperties
  <2>2. a[i] = Append(s, m)[i].no
    BY <2>1 DEF Nos
  <2>3. CASE i = Len(s) + 1
    BY <2>2, <2>3, <1>1, <1>4
  <2>4. CASE i \in 1..Len(s)
    <3>1. i \in DOMAIN s /\ Nos(s)[i] = s[i].no
      BY <2>4, LenProperties DEF Nos
    <3> QED BY <2>2, <2>4, <3>1, <1>1, <1>4
  <2> QED BY <2>3, <2>4, <1>2, <1>3
<1> HIDE DEF a, b
<1>6. a = b
  BY <1>3, <1>4, <1>5, SeqEqual
<1> QED BY <1>6 DEF a, b

\* A message less is a number less.
LEMMA NosTail ==
    ASSUME NEW s \in Seq(Message), s # <<>>
    PROVE  Nos(s) # <<>> /\ Nos(Tail(s)) = Tail(Nos(s))
<1> DEFINE a == Nos(Tail(s))
           b == Tail(Nos(s))
<1>1. /\ Tail(s) \in Seq(Message) /\ Len(Tail(s)) = Len(s) - 1
      /\ \A i \in 1..Len(Tail(s)) : Tail(s)[i] = s[i + 1]
  BY HeadTailProperties
<1>2. Len(s) \in Nat \ {0} /\ Nos(s) \in Seq(Nat) /\ Len(Nos(s)) = Len(s)
  BY EmptySeq, NosType
<1>3. Nos(s) # <<>>
  BY <1>2, EmptySeq
<1>4. a \in Seq(Nat) /\ Len(a) = Len(s) - 1
  BY <1>1, NosType
<1>5. /\ b \in Seq(Nat) /\ Len(b) = Len(s) - 1
      /\ \A i \in 1..Len(b) : b[i] = Nos(s)[i + 1]
  BY <1>2, <1>3, HeadTailProperties
<1>6. ASSUME NEW i \in 1..Len(a) PROVE a[i] = b[i]
  <2>1. i \in DOMAIN Tail(s) /\ i + 1 \in DOMAIN s
    BY <1>1, <1>2, <1>4, LenProperties
  <2>2. a[i] = Tail(s)[i].no /\ Nos(s)[i + 1] = s[i + 1].no
    BY <2>1 DEF Nos
  <2> QED BY <2>2, <1>1, <1>4, <1>5
<1> HIDE DEF a, b
<1>7. a = b
  BY <1>4, <1>5, <1>6, SeqEqual
<1> QED BY <1>3, <1>7 DEF a, b

\* The first of two channels is the one that is taken from.
LEMMA TailFirst ==
    \A s, t \in Seq(Message) :
        s # <<>> => s \o t # <<>> /\ Tail(s \o t) = Tail(s) \o t
<1> TAKE s, t \in Seq(Message)
<1> HAVE s # <<>>
<1> DEFINE h == Head(s)
           d == Tail(s)
<1>1. h \in Message /\ d \in Seq(Message) /\ s = <<h>> \o d /\ <<h>> \in Seq(Message)
  BY HeadAndTail
<1>2. d \o t \in Seq(Message)
  BY <1>1, ConcatProperties
<1> HIDE DEF h, d
<1>3. s \o t = <<h>> \o (d \o t)
  BY <1>1, Associative, Zenon
<1>4. \A u \in Seq(Message) : <<h>> \o u # <<>> /\ Tail(<<h>> \o u) = u
  <2> TAKE u \in Seq(Message)
  <2>1. /\ <<h>> \o u \in Seq(Message) /\ Len(<<h>> \o u) = Len(u) + 1 /\ Len(u) \in Nat
        /\ \A i \in 1..Len(u) : (<<h>> \o u)[i + 1] = u[i]
    BY <1>1, ConcatProperties
  <2>2. <<h>> \o u # <<>>
    BY <2>1, EmptySeq
  <2> DEFINE w == <<h>> \o u
  <2> HIDE DEF w
  <2>3. /\ Tail(w) \in Seq(Message) /\ Len(Tail(w)) = Len(u)
        /\ \A i \in 1..Len(u) : Tail(w)[i] = u[i]
    BY <2>1, <2>2, HeadTailProperties DEF w
  <2>4. Tail(w) = u
    BY <2>3, SeqEqual
  <2> QED BY <2>2, <2>4 DEF w
<1> QED BY <1>2, <1>3, <1>4 DEF d

\* What p sends comes to the end of its way to q, and of no other.
LEMMA PathSend ==
    ASSUME LinkInv, NEW p \in Node, NEW q \in Node, Send(p, q)
    PROVE  /\ p # q
           /\ \A x, y \in Node : Path(x, y)' =
                  IF x = p /\ y = q THEN Append(Path(p, q), [from |-> p, no |-> sent'[p][q]])
                                    ELSE Path(x, y)
<1>1. p # q
  <2>1. todo[p] # <<>> /\ todo[p] \in Seq(Node \ {p}) /\ Head(todo[p]) = q
    BY DEF Send, SendsTo, LinkInv, Separate
  <2>2. Head(todo[p]) \in Node \ {p}
    BY <2>1, HeadTailProperties
  <2> QED BY <2>1, <2>2
<1>2. ASSUME NEW x \in Node, NEW y \in Node
      PROVE  Path(x, y)' =
                 IF x = p /\ y = q THEN Append(Path(p, q), [from |-> p, no |-> sent'[p][q]])
                                   ELSE Path(x, y)
  <2> DEFINE m == [from |-> p, no |-> sent'[p][q]]
             before == From(x, box[y]) \o From(x, hand[y]) \o From(x, recv[y])
                         \o From(x, shared[y]) \o conn[x][y]
  <2>1. /\ before \in Seq(Message) /\ send[x][y] \in Seq(Message)
        /\ Path(x, y) = before \o send[x][y] /\ Path(x, y)' = before \o send'[x][y]
    BY PathTypes, ConcatProperties DEF Send, Path
  <2>2. m \in Message
    BY LinkSend DEF LinkInv, ChannelTypes, Message
  <2>3. send' = [send EXCEPT ![p][q] = Append(@, m)]
    BY DEF Send
  <2> HIDE DEF m, before
  <2>4. CASE x = p /\ y = q
    <3>1. send'[x][y] = Append(send[x][y], m)
      BY <2>3, <2>4 DEF LinkInv, ChannelTypes
    <3>2. before \o Append(send[x][y], m) = Append(before \o send[x][y], m)
      BY <2>1, <2>2, ConcatAppend
    <3> QED BY <2>1, <2>4, <3>1, <3>2 DEF m
  <2>5. CASE ~(x = p /\ y = q)
    <3>1. send'[x][y] = send[x][y]
      BY <2>3, <2>5 DEF LinkInv, ChannelTypes
    <3> QED BY <2>1, <2>5, <3>1
  <2> QED BY <2>4, <2>5
<1> QED BY <1>1, <1>2

\* What n handles leaves the way on which it came.
LEMMA PathHandle ==
    ASSUME LinkInv, NEW n \in Node, Handle(n)
    PROVE  /\ Head(box[n]).from \in Node
           /\ \A x, y \in Node : x # y =>
                  IF y = n /\ x = Head(box[n]).from
                  THEN Path(x, y) # <<>> /\ Path(x, y)' = Tail(Path(x, y))
                  ELSE Path(x, y)' = Path(x, y)
<1> DEFINE h == Head(box[n])
<1>1. /\ box[n] \in Seq(Message) /\ box[n] # <<>> /\ h \in Message
      /\ Tail(box[n]) \in Seq(Message) /\ box' = [box EXCEPT ![n] = Tail(@)]
  BY HeadTailProperties DEF Handle, LinkInv, ChannelTypes
<1>2. h.from \in Node
  BY <1>1 DEF Message
<1>3. ASSUME NEW x \in Node, NEW y \in Node, x # y
      PROVE  IF y = n /\ x = h.from
             THEN Path(x, y) # <<>> /\ Path(x, y)' = Tail(Path(x, y))
             ELSE Path(x, y)' = Path(x, y)
  <2> DEFINE f == From(x, box[y])
             g == From(x, box'[y])
             a1 == From(x, hand[y])
             a2 == From(x, recv[y])
             a3 == From(x, shared[y])
             a4 == conn[x][y]
             a5 == send[x][y]
  <2>1. /\ Path(x, y) = f \o a1 \o a2 \o a3 \o a4 \o a5
        /\ Path(x, y)' = g \o a1 \o a2 \o a3 \o a4 \o a5
    BY DEF Handle, Path
  <2>2. /\ f \in Seq(Message) /\ a1 \in Seq(Message) /\ a2 \in Seq(Message)
        /\ a3 \in Seq(Message) /\ a4 \in Seq(Message) /\ a5 \in Seq(Message)
    BY PathTypes
  <2>3. From(x, box[n]) = IF h.from = x THEN <<h>> \o From(x, Tail(box[n]))
                                        ELSE From(x, Tail(box[n]))
    BY <1>1, FromTail
  <2>4. CASE y = n /\ x = h.from
    <3> DEFINE u == From(x, Tail(box[n]))
    <3>1. box'[n] = Tail(box[n])
      BY <1>1 DEF LinkInv, ChannelTypes
    <3>2. f = <<h>> \o u /\ g = u
      BY <2>3, <2>4, <3>1
    <3>3. u \in Seq(Message) /\ <<h>> \in Seq(Message) /\ <<h>> # <<>> /\ Tail(<<h>>) = <<>>
      <4>1. u \in Seq(Message)
        BY <1>1, FromType
      <4> HIDE DEF h, u
      <4> QED BY <1>1, <4>1
    <3> HIDE DEF f, g, h, u, a1, a2, a3, a4, a5
    <3>4. f # <<>> /\ Tail(f) = <<>> \o u
      BY <3>2, <3>3, TailFirst, Zenon
    <3>5. Tail(f) = g
      BY <3>2, <3>3, <3>4, ConcatEmptySeq
    <3> DEFINE f1 == f \o a1
               f2 == f1 \o a2
               f3 == f2 \o a3
               f4 == f3 \o a4
               g1 == g \o a1
               g2 == g1 \o a2
               g3 == g2 \o a3
               g4 == g3 \o a4
    <3>6. /\ f1 \in Seq(Message) /\ f2 \in Seq(Message)
          /\ f3 \in Seq(Message) /\ f4 \in Seq(Message)
      BY <2>2, ConcatProperties
    <3>7. f1 # <<>> /\ Tail(f1) = g1
      BY <2>2, <3>4, <3>5, TailFirst, Zenon
    <3> HIDE DEF f1, g1
    <3>8. f2 # <<>> /\ Tail(f2) = g2
      BY <2>2, <3>6, <3>7, TailFirst, Zenon
    <3> HIDE DEF f2, g2
    <3>9. f3 # <<>> /\ Tail(f3) = g3
      BY <2>2, <3>6, <3>8, TailFirst, Zenon
    <3> HIDE DEF f3, g3
    <3>10. f4 # <<>> /\ Tail(f4) = g4
      BY <2>2, <3>6, <3>9, TailFirst, Zenon
    <3> HIDE DEF f4, g4
    <3>11. f4 \o a5 # <<>> /\ Tail(f4 \o a5) = g4 \o a5
      BY <2>2, <3>6, <3>10, TailFirst, Zenon
    <3>12. Path(x, y) = f4 \o a5 /\ Path(x, y)' = g4 \o a5
      BY <2>1 DEF f1, f2, f3, f4, g1, g2, g3, g4
    <3> QED BY <2>4, <3>11, <3>12 DEF h
  <2>5. CASE ~(y = n /\ x = h.from)
    <3>1. g = f
      <4>1. CASE y # n
        BY <4>1, <1>1 DEF LinkInv, ChannelTypes
      <4>2. CASE y = n
        <5>1. box'[y] = Tail(box[n])
          BY <4>2, <1>1 DEF LinkInv, ChannelTypes
        <5> QED BY <2>3, <2>5, <4>2, <5>1
      <4> QED BY <4>1, <4>2
    <3> HIDE DEF f, g
    <3> QED BY <2>1, <2>5, <3>1
  <2> QED BY <2>4, <2>5
<1> QED BY <1>2, <1>3

-----------------------------------------------------------------------------
(* The refinement *)

\* What Links sees on the way are the numbers on the path.
LEMMA WayNos ==
    ASSUME NEW x \in Node, NEW y \in Node
    PROVE  OnTheWay(x, y) = IF x = y THEN <<>> ELSE Nos(Path(x, y))
BY DEF OnTheWay, Nos

\* A step that leaves every path alone is a stutter of Links.
LEMMA StillQueues ==
    ASSUME SameWay, sent' = sent
    PROVE  UNCHANGED L!vars
<1>1. \A x, y \in Node : OnTheWay(x, y)' = OnTheWay(x, y)
  BY DEF SameWay, OnTheWay
<1>2. [p \in Node |-> [q \in Node |-> OnTheWay(p, q)]]'
          = [p \in Node |-> [q \in Node |-> OnTheWay(p, q)]]
  BY <1>1
<1> QED BY <1>2 DEF L!vars

\* The paths are empty at first.
LEMMA QueueInit == Init => L!Init
<1> SUFFICES ASSUME Init PROVE L!Init
  OBVIOUS
<1>1. ASSUME NEW x \in Node, NEW y \in Node PROVE OnTheWay(x, y) = <<>>
  <2>1. /\ From(x, box[y]) = <<>> /\ From(x, hand[y]) = <<>> /\ From(x, recv[y]) = <<>>
        /\ From(x, shared[y]) = <<>> /\ conn[x][y] = <<>> /\ send[x][y] = <<>>
    BY FromEmpty DEF Init
  <2>2. <<>> \o <<>> = <<>>
    OBVIOUS
  <2>3. Path(x, y) = <<>>
    BY <2>1, <2>2 DEF Path
  <2>4. Nos(<<>>) = <<>>
    BY DEF Nos
  <2> QED BY <2>3, <2>4, WayNos
<1> QED BY <1>1 DEF L!Init, Init

\* Sending appends to the queue from p to q.
LEMMA QueueSend ==
    ASSUME LinkInv, NEW p \in Node, NEW q \in Node, Send(p, q)
    PROVE  L!Send(p, q)
<1> DEFINE queue == [x \in Node |-> [y \in Node |-> OnTheWay(x, y)]]
           no == sent'[p][q]
<1>1. sent' = [sent EXCEPT ![p][q] = @ + 1] /\ no \in Nat
  <2>1. sent' = [sent EXCEPT ![p][q] = @ + 1]
    BY DEF Send
  <2>2. ChannelTypes'
    BY LinkSend DEF LinkInv
  <2> QED BY <2>1, <2>2 DEF ChannelTypes
<1>2. ASSUME NEW x \in Node, NEW y \in Node
      PROVE  OnTheWay(x, y)' = IF x = p /\ y = q THEN Append(OnTheWay(p, q), no)
                                                 ELSE OnTheWay(x, y)
  <2>1. OnTheWay(x, y)' = IF x = y THEN <<>> ELSE Nos(Path(x, y)')
    BY DEF OnTheWay, Nos
  <2>2. CASE x = p /\ y = q
    <3>1. Path(p, q)' = Append(Path(p, q), [from |-> p, no |-> no]) /\ p # q
      BY PathSend
    <3>2. [from |-> p, no |-> no] \in Message /\ [from |-> p, no |-> no].no = no
      BY <1>1 DEF Message
    <3>3. Path(p, q) \in Seq(Message)
      BY PathTypes
    <3>4. Nos(Path(p, q)') = Append(Nos(Path(p, q)), no)
      BY <3>1, <3>2, <3>3, NosAppend
    <3> QED BY <2>1, <2>2, <3>1, <3>4, WayNos
  <2>3. CASE ~(x = p /\ y = q)
    <3>1. Path(x, y)' = IF x = p /\ y = q
                       THEN Append(Path(p, q), [from |-> p, no |-> no])
                       ELSE Path(x, y)
      BY PathSend
    <3>2. Path(x, y)' = Path(x, y)
      BY <2>3, <3>1
    <3> QED BY <2>1, <2>3, <3>2, WayNos
  <2> QED BY <2>2, <2>3
<1>3. queue' = [queue EXCEPT ![p][q] = Append(@, no)]
  BY <1>2
<1> QED BY <1>1, <1>3 DEF L!Send

\* Handling takes the head of one queue.
LEMMA QueueHandle ==
    ASSUME LinkInv, NEW n \in Node, Handle(n)
    PROVE  [L!Next]_(L!vars)
<1> DEFINE queue == [x \in Node |-> [y \in Node |-> OnTheWay(x, y)]]
<1>1. sent' = sent
  BY DEF Handle
<1>2. PICK p \in Node : p = Head(box[n]).from
  BY PathHandle
<1>3. \A x, y \in Node : x # y => IF y = n /\ x = p
                                  THEN Path(x, y) # <<>> /\ Path(x, y)' = Tail(Path(x, y))
                                  ELSE Path(x, y)' = Path(x, y)
  BY <1>2, PathHandle
<1>4. CASE p = n
  <2>1. SameWay
    BY <1>3, <1>4 DEF SameWay
  <2> QED BY <1>1, <2>1, StillQueues
<1>5. CASE p # n
  <2>1. Path(p, n) # <<>> /\ Path(p, n)' = Tail(Path(p, n)) /\ Path(p, n) \in Seq(Message)
    <3>1. Path(p, n) \in Seq(Message)
      BY PathTypes
    <3> QED BY <1>3, <1>5, <3>1
  <2>2. OnTheWay(p, n) # <<>> /\ OnTheWay(p, n)' = Tail(OnTheWay(p, n))
    <3>1. OnTheWay(p, n)' = Nos(Path(p, n)')
      BY <1>5 DEF OnTheWay, Nos
    <3>2. OnTheWay(p, n) = Nos(Path(p, n))
      BY <1>5, WayNos
    <3>3. Nos(Path(p, n)) # <<>> /\ Nos(Tail(Path(p, n))) = Tail(Nos(Path(p, n)))
      BY <2>1, NosTail
    <3> QED BY <2>1, <3>1, <3>2, <3>3
  <2>3. ASSUME NEW x \in Node, NEW y \in Node, ~(x = p /\ y = n)
        PROVE  OnTheWay(x, y)' = OnTheWay(x, y)
    <3>1. x # y => Path(x, y)' = Path(x, y)
      BY <1>3, <2>3
    <3> QED BY <3>1 DEF OnTheWay
  <2>4. queue[p][n] # <<>>
    BY <2>2
  <2>5. ASSUME NEW x \in Node, NEW y \in Node
        PROVE  OnTheWay(x, y)' = IF x = p /\ y = n THEN Tail(OnTheWay(p, n))
                                                   ELSE OnTheWay(x, y)
    BY <2>2, <2>3
  <2>6. queue' = [queue EXCEPT ![p][n] = Tail(@)]
    BY <2>5
  <2>7. L!Handle(p, n)
    BY <1>1, <2>4, <2>6 DEF L!Handle
  <2> QED BY <2>7 DEF L!Next
<1> QED BY <1>4, <1>5

\* Every step appends to a queue, takes the head of one, or leaves them alone.
LEMMA QueueStep == LinkInv /\ [Next]_vars => [L!Next]_(L!vars)
<1> SUFFICES ASSUME LinkInv, [Next]_vars PROVE [L!Next]_(L!vars)
  OBVIOUS
<1>1. ASSUME UNCHANGED <<box, send, conn, shared, recv, hand, sent>>
      PROVE  UNCHANGED L!vars
  <2>1. SameWay
    BY <1>1 DEF SameWay, Path
  <2> QED BY <1>1, <2>1, StillQueues
<1>2. CASE UNCHANGED vars
  BY <1>1, <1>2 DEF vars
<1>3. ASSUME NEW n \in Node, Start(n) PROVE UNCHANGED L!vars
  BY <1>1, <1>3 DEF Start
<1>4. ASSUME NEW p \in Node, NEW q \in Node, Dial(p, q) PROVE UNCHANGED L!vars
  BY <1>1, <1>4 DEF Dial
<1>5. ASSUME NEW n \in Node, Post(n) \/ Listen(n) \/ Take(n) \/ Pass(n)
      PROVE  UNCHANGED L!vars
  <2>1. sent' = sent
    BY <1>5 DEF Post, Listen, Take, Pass
  <2>2. SameWay
    BY <1>5, PathPost, PathListen, PathTake, PathPass
  <2> QED BY <2>1, <2>2, StillQueues
<1>6. ASSUME NEW p \in Node, NEW q \in Node, Encode(p, q) \/ Decode(p, q) \/ Join(p, q)
      PROVE  UNCHANGED L!vars
  <2>1. sent' = sent
    BY <1>6 DEF Encode, Decode, Join
  <2>2. SameWay
    BY <1>6, PathEncode, PathDecode, PathJoin
  <2> QED BY <2>1, <2>2, StillQueues
<1>7. ASSUME NEW n \in Node, Handle(n) PROVE [L!Next]_(L!vars)
  BY <1>7, QueueHandle
<1>8. ASSUME NEW p \in Node, NEW q \in Node, Send(p, q) PROVE L!Next
  BY <1>8, QueueSend DEF L!Next
<1> QED BY <1>2, <1>3, <1>4, <1>5, <1>6, <1>7, <1>8 DEF Next

\* Between any two replicas, for any number of replicas, any capacities and both
\* schemes, the send channel, the connection, the recv channel and MessageChan
\* together hand over every message, once and in the order in which Broadcast
\* sent it: what Consensus assumes of links without injected faults.
THEOREM ChainIsQueue == Spec => ImplementsLinks
<1>1. Spec => []LinkInv
  BY LinkInit, LinkStep, PTL DEF Spec
<1>2. QED
  BY <1>1, QueueInit, QueueStep, PTL DEF Spec, ImplementsLinks, L!Spec
=============================================================================
