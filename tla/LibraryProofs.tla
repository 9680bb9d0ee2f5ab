---------------------------- MODULE LibraryProofs ---------------------------
(***************************************************************************)
(* Proofs about the structures that stand by themselves: the two maps of a *)
(* graph describe the same edges and its searches are right for any finite *)
(* graph, the limiter keeps its rate for any rate and resolution of the    *)
(* clock, batches of commands that do not conflict commute for any keys,   *)
(* values and lengths, inserting into the hash ring moves few keys for any *)
(* hashes, the ring buffer is a queue for any capacity, ballots grow for   *)
(* fields of any width, and SCC returns single vertices for any graph.     *)
(***************************************************************************)
EXTENDS Queue, Graph, HashRing, Limiter, Conflicts, Ballots,
        FiniteSetTheorems, SequenceTheorems, TLAPS

-----------------------------------------------------------------------------
(* Induction *)

\* Facts about all numbers are proved by the least that would be an exception.
LEMMA LeastNatural ==
    ASSUME NEW T \in SUBSET Nat, T # {}
    PROVE  \E m \in T : \A k \in T : m <= k
<1> DEFINE U == {1..m : m \in T}
<1>1. U \subseteq FiniteSubsetsOf(Nat) /\ U # {}
  <2>1. \A m \in T : 1..m \in SUBSET Nat /\ IsFiniteSet(1..m)
    BY FS_Interval
  <2> QED BY <2>1 DEF FiniteSubsetsOf
<1>2. PICK A \in U : \A B \in U : <<B, A>> \notin StrictSubsetOrdering(Nat)
  BY <1>1, FS_StrictSubsetOrderingWellFounded, WFMin
<1>3. PICK m \in T : A = 1..m
  BY <1>2
<1>4. ASSUME NEW k \in T, k < m PROVE FALSE
  <2>1. m \in Nat /\ k \in Nat
    OBVIOUS
  <2>2. 1..k \subseteq 1..m /\ m \in 1..m /\ m \notin 1..k
    BY <1>4, <2>1
  <2>3. <<1..k, 1..m>> \in StrictSubsetOrdering(Nat)
    BY <2>2 DEF StrictSubsetOrdering
  <2> QED BY <1>2, <1>3, <2>3
<1> QED BY <1>4

\* Induction over sequences, for a set of them.
LEMMA AllSequences ==
    ASSUME NEW S, NEW T \in SUBSET Seq(S), <<>> \in T,
           \A s \in T, e \in S : Append(s, e) \in T
    PROVE  T = Seq(S)
<1> DEFINE Bad == {Len(s) : s \in Seq(S) \ T}
<1> SUFFICES ASSUME Bad # {} PROVE FALSE
  OBVIOUS
<1>1. PICK m \in Bad : \A k \in Bad : m <= k
  <2>1. Bad \in SUBSET Nat
    BY LenProperties
  <2> HIDE DEF Bad
  <2> QED BY <2>1, LeastNatural
<1>2. PICK c \in Seq(S) \ T : Len(c) = m
  BY <1>1
<1>3. PICK s \in Seq(S), e \in S : c = Append(s, e)
  BY <1>2, SequenceEmptyOrAppend
<1>4. Len(s) \in Nat /\ m = Len(s) + 1
  BY <1>2, <1>3, AppendProperties
<1>5. Len(s) \notin Bad
  <2> HIDE DEF Bad
  <2> QED BY <1>1, <1>4
<1> QED BY <1>2, <1>3, <1>5

-----------------------------------------------------------------------------
(* The graph *)

\* Taking v out of both maps leaves the edges between the others (Remove).
LEMMA MirroredRemove ==
    ASSUME Mirrored, NEW v \in Vertex, RemoveVertex(v)
    PROVE  Mirrored'
<1>1. /\ vertices' = vertices \ {v}
      /\ from' = [u \in vertices \ {v} |-> from[u] \ {v}]
      /\ to' = [u \in vertices \ {v} |-> to[u] \ {v}]
  BY DEF Mirrored, RemoveVertex, Forgotten
<1> QED BY <1>1 DEF Mirrored

\* A new vertex has no edges (Add).
LEMMA MirroredAdd ==
    ASSUME Mirrored, NEW v \in Vertex, Add(v)
    PROVE  Mirrored'
<1>1. /\ vertices' = vertices \cup {v}
      /\ from' = [u \in vertices \cup {v} |-> IF u \in vertices THEN from[u] ELSE {}]
      /\ to' = [u \in vertices \cup {v} |-> IF u \in vertices THEN to[u] ELSE {}]
  BY DEF Mirrored, Add, WithVertices, Adjacent
<1> QED BY <1>1 DEF Mirrored

\* An edge is entered in both maps (AddEdge).
LEMMA MirroredAddEdge ==
    ASSUME Mirrored, NEW u \in Vertex, NEW v \in Vertex, AddEdge(u, v)
    PROVE  Mirrored'
<1> DEFINE V == vertices \cup {u, v}
<1>1. /\ vertices' = V
      /\ from' = [[x \in V |-> IF x \in vertices THEN from[x] ELSE {}]
                    EXCEPT ![u] = @ \cup {v}]
      /\ to' = [[x \in V |-> IF x \in vertices THEN to[x] ELSE {}]
                    EXCEPT ![v] = @ \cup {u}]
  BY DEF Mirrored, AddEdge, WithVertices, Adjacent
<1>2. DOMAIN from' = V /\ DOMAIN to' = V
  BY <1>1
<1>3. \A x \in V :
         /\ from'[x] = (IF x \in vertices THEN from[x] ELSE {})
                         \cup (IF x = u THEN {v} ELSE {})
         /\ to'[x] = (IF x \in vertices THEN to[x] ELSE {})
                         \cup (IF x = v THEN {u} ELSE {})
  BY <1>1
<1> QED BY <1>1, <1>2, <1>3 DEF Mirrored

\* An edge leaves both maps (RemoveEdge).
LEMMA MirroredRemoveEdge ==
    ASSUME Mirrored, NEW u \in Vertex, NEW v \in Vertex, RemoveEdge(u, v)
    PROVE  Mirrored'
<1>1. /\ vertices' = vertices /\ u \in vertices /\ v \in vertices
      /\ DOMAIN from' = vertices /\ DOMAIN to' = vertices
  BY DEF Mirrored, RemoveEdge
<1>2. \A x \in vertices :
         /\ from'[x] = IF x = u THEN from[x] \ {v} ELSE from[x]
         /\ to'[x] = IF x = v THEN to[x] \ {u} ELSE to[x]
  BY <1>1 DEF Mirrored, RemoveEdge
<1> QED BY <1>1, <1>2 DEF Mirrored

\* The two maps go on describing the same edges.
LEMMA MirroredStep ==
    ASSUME Mirrored, [GraphNext]_graphVars
    PROVE  Mirrored'
<1>1. ASSUME UNCHANGED graph PROVE Mirrored'
  BY <1>1 DEF graph, Mirrored
<1>2. CASE Transpose
  BY <1>2 DEF Transpose, Mirrored
<1>3. CASE Edit
  BY <1>2, <1>3, MirroredAdd, MirroredRemove, MirroredAddEdge, MirroredRemoveEdge
     DEF Edit
<1>4. CASE Search
  <2>1. UNCHANGED graph
    BY <1>4 DEF Search, BeginDFS, BeginBFS, StepBFS, StepDFS, BeginCyclic,
                VisitEnd, VisitRoot, VisitEdge, Return
  <2> QED BY <1>1, <2>1
<1>5. CASE UNCHANGED graphVars
  BY <1>1, <1>5 DEF graphVars
<1> QED BY <1>3, <1>4, <1>5 DEF GraphNext

\* The maps from and to describe the same edges, between vertices of the graph,
\* after any sequence of edits and searches, for any set of vertices (Add,
\* Remove, AddEdge, RemoveEdge, Transpose).
THEOREM GraphMirrored == GraphSpec => []Mirrored
<1>1. NewGraph => Mirrored
  BY DEF NewGraph, Mirrored
<1>2. Mirrored /\ [GraphNext]_graphVars => Mirrored'
  BY MirroredStep
<1> QED BY <1>1, <1>2, PTL DEF GraphSpec

-----------------------------------------------------------------------------
(* The searches of the graph *)

\* The edges are those of both maps, and the vertices are finitely many.
Shaped == Mirrored /\ vertices \subseteq Vertex /\ IsFiniteSet(vertices)

\* The values of op.
Ops == {"none", "BFS", "BFSReverse", "DFS", "Cyclic"}

Distinct(s) == \A i, j \in DOMAIN s : s[i] = s[j] => i = j

\* What a set of vertices leads to is in it.
Closed(C) == \A u \in C : Onward(u) \subseteq C

\* A list without repetitions has as many elements as places.
LEMMA SizeOfDistinct ==
    ASSUME NEW S, NEW s \in Seq(S), Distinct(s)
    PROVE  Cardinality(ToSet(s)) = Len(s)
<1>1. /\ Len(s) \in Nat /\ DOMAIN s = 1..Len(s)
      /\ s \in [1..Len(s) -> ToSet(s)]
  BY DEF ToSet
<1>2. s \in Bijection(1..Len(s), ToSet(s))
  BY <1>1 DEF Distinct, ToSet, Bijection, Injection, Surjection, IsInjective
<1>3. IsFiniteSet(1..Len(s)) /\ Cardinality(1..Len(s)) = Len(s)
  BY <1>1, FS_Interval
<1>4. ExistsBijection(1..Len(s), ToSet(s))
  BY <1>2 DEF ExistsBijection
<1> QED BY <1>3, <1>4, FS_Bijection

\* An order in which a Go map is visited has each key once.
LEMMA OrderOf ==
    ASSUME NEW V, NEW S \in SUBSET V, IsFiniteSet(S), NEW order \in SetToSeqs(S)
    PROVE  order \in Seq(V) /\ ToSet(order) = S /\ Distinct(order)
<1> DEFINE n == Cardinality(S)
<1>1. n \in Nat /\ IsFiniteSet(1..n) /\ Cardinality(1..n) = n
  BY FS_CardinalityType, FS_Interval
<1>2. /\ order \in [1..n -> S]
      /\ \A i, j \in 1..n : i # j => order[i] # order[j]
  BY DEF SetToSeqs
<1>3. order \in Injection(1..n, S)
  BY <1>2 DEF Injection, IsInjective
<1>4. order \in Surjection(1..n, S)
  BY <1>1, <1>3, FS_Injection
<1>5. ToSet(order) = S /\ Distinct(order)
  BY <1>2, <1>4 DEF Surjection, ToSet, Distinct
<1>6. order \in Seq(V)
  <2>1. order \in [1..n -> V]
    BY <1>2
  <2> QED BY <1>1, <2>1
<1> QED BY <1>5, <1>6

\* A search goes on to vertices of the graph (the keys of from[v] or to[v]).
LEMMA OnwardIs ==
    ASSUME Mirrored, NEW u
    PROVE  Onward(u) = Successors(u) /\ Onward(u) \subseteq vertices
BY DEF Onward, Successors, Adjacent, Mirrored

\* What can be reached from s leads to nothing else, and is in every such set.
LEMMA ReachableIs ==
    ASSUME Shaped, NEW s \in Vertex
    PROVE  /\ s \in Reachable(s) /\ Reachable(s) \in SUBSET Vertex /\ Closed(Reachable(s))
           /\ \A C \in SUBSET Vertex : s \in C /\ Closed(C) => Reachable(s) \subseteq C
<1>1. s \in Reachable(s) /\ Reachable(s) \in SUBSET Vertex
  BY DEF Reachable, Leads, Shaped
<1>2. ASSUME NEW u \in Reachable(s), NEW w \in Onward(u)
      PROVE  w \in Reachable(s)
  <2>1. w \in vertices /\ w \in Successors(u)
    BY <1>2, OnwardIs DEF Shaped
  <2>2. ASSUME NEW C \in SUBSET vertices,
               \A x \in C \cup {s} : Successors(x) \cap vertices \subseteq C
        PROVE  w \in C
    <3>1. u \in C \cup {s}
      BY <2>2 DEF Reachable, Leads
    <3> QED BY <2>1, <2>2, <3>1
  <2> QED BY <2>1, <2>2 DEF Reachable, Leads
<1>3. ASSUME NEW C \in SUBSET Vertex, s \in C, Closed(C), NEW v \in Leads(vertices, s)
      PROVE  v \in C
  <2>1. C \cap vertices \in SUBSET vertices
    OBVIOUS
  <2>2. ASSUME NEW x \in (C \cap vertices) \cup {s}
        PROVE  Successors(x) \cap vertices \subseteq C \cap vertices
    <3>1. x \in C
      BY <1>3
    <3> QED BY <1>3, <3>1, OnwardIs DEF Closed, Shaped
  <2> QED BY <1>3, <2>1, <2>2 DEF Leads
<1> QED BY <1>1, <1>2, <1>3 DEF Closed, Reachable

\* A step of a search changes no edge.
LEMMA OnwardStays ==
    ASSUME UNCHANGED <<graph, op>>
    PROVE  /\ \A u : Onward(u)' = Onward(u)
           /\ \A C : Closed(C)' <=> Closed(C)
<1>1. \A u : Onward(u)' = Onward(u)
  BY DEF graph, Onward, Adjacent
<1> QED BY <1>1 DEF Closed

\* Where the search that runs can go, as a function.
Edges == [v \in Vertex |-> Onward(v)]

\* A set that the edges do not leave.
ClosedBy(next, C) == \A u \in C : next[u] \subseteq C

\* Breadth first: the list w of what was ever put in the queue, whose first n
\* vertices were taken from it.  Each was put there once, what the n lead to is
\* in it, and each vertex but the first was put there by one of the n, in their
\* order.
Broad(next, w, n, seen) ==
    /\ w \in Seq(Vertex) /\ w # <<>> /\ n \in 0..Len(w)
    /\ seen = ToSet(w) /\ Distinct(w)
    /\ \A i \in 1..n : next[w[i]] \subseteq seen
    /\ \A C \in SUBSET Vertex : w[1] \in C /\ ClosedBy(next, C) => seen \subseteq C
    /\ \A j \in 2..Len(w) : \E x \in 1..n : w[j] \in next[w[x]]
    /\ \A j, m \in 2..Len(w), i \in 1..n :
         j < m /\ w[m] \in next[w[i]] => \E x \in 1..i : w[j] \in next[w[x]]

Breadth == op \in {"BFS", "BFSReverse"} =>
             /\ result \in Seq(Vertex) /\ pending \in Seq(Vertex)
             /\ Broad(Edges, result \o pending, Len(result), visited)

\* The elements of two lists one after the other.
LEMMA ConcatElements ==
    ASSUME NEW S, NEW a \in Seq(S), NEW b \in Seq(S)
    PROVE  /\ a \o b \in Seq(S) /\ Len(a \o b) = Len(a) + Len(b)
           /\ Len(a) \in Nat /\ Len(b) \in Nat
           /\ \A i \in 1..Len(a) : (a \o b)[i] = a[i] /\ i \in 1..Len(a \o b)
           /\ \A i \in 1..Len(b) : (a \o b)[Len(a) + i] = b[i] /\ Len(a) + i \in 1..Len(a \o b)
           /\ \A i \in (Len(a) + 1)..Len(a \o b) : (a \o b)[i] = b[i - Len(a)] /\ i - Len(a) \in 1..Len(b)
           /\ ToSet(a \o b) = ToSet(a) \cup ToSet(b)
<1>1. /\ a \o b \in Seq(S) /\ Len(a \o b) = Len(a) + Len(b)
      /\ Len(a) \in Nat /\ Len(b) \in Nat
      /\ \A i \in 1..Len(a) : (a \o b)[i] = a[i] /\ i \in 1..Len(a \o b)
      /\ \A i \in 1..Len(b) : (a \o b)[Len(a) + i] = b[i] /\ Len(a) + i \in 1..Len(a \o b)
      /\ \A i \in (Len(a) + 1)..Len(a \o b) : (a \o b)[i] = b[i - Len(a)] /\ i - Len(a) \in 1..Len(b)
  OBVIOUS
<1>2. ASSUME NEW e PROVE e \in ToSet(a \o b) <=> e \in ToSet(a) \/ e \in ToSet(b)
  <2>1. ToSet(a \o b) = {(a \o b)[i] : i \in 1..Len(a \o b)}
    BY <1>1 DEF ToSet
  <2>2. ToSet(a) = {a[i] : i \in 1..Len(a)} /\ ToSet(b) = {b[i] : i \in 1..Len(b)}
    BY DEF ToSet
  <2>3. ASSUME NEW i \in 1..Len(a \o b) PROVE i \in 1..Len(a) \/ i \in (Len(a) + 1)..Len(a \o b)
    BY <1>1
  <2> QED BY <1>1, <2>1, <2>2, <2>3
<1> QED BY <1>1, <1>2

\* The queue grows by what its next vertex leads to and was not in it yet.
LEMMA BroadGrows ==
    ASSUME NEW next, NEW w, NEW n, NEW seen, Broad(next, w, n, seen), n < Len(w),
           NEW new, new = next[w[n + 1]] \ seen, new \subseteq Vertex,
           NEW order \in Seq(Vertex), ToSet(order) = new, Distinct(order)
    PROVE  Broad(next, w \o order, n + 1, seen \cup new)
<1> DEFINE W == w \o order
           L == Len(w)
<1>1. /\ w \in Seq(Vertex) /\ w # <<>> /\ n \in 0..L /\ seen = ToSet(w)
      /\ L \in Nat /\ L >= 1 /\ n + 1 \in 1..L
  BY DEF Broad
<1>2. /\ W \in Seq(Vertex) /\ Len(W) = L + Len(order) /\ Len(order) \in Nat
      /\ \A i \in 1..L : W[i] = w[i] /\ W[i] \in seen
      /\ \A i \in (L + 1)..Len(W) : W[i] \in new
      /\ ToSet(W) = seen \cup new
  <2>1. \A i \in 1..L : w[i] \in seen
    BY <1>1 DEF ToSet
  <2>2. \A i \in 1..Len(order) : order[i] \in new
    BY DEF ToSet
  <2> QED BY <1>1, <2>1, <2>2, ConcatElements
<1>3. \A i \in 1..Len(W) : i \in 1..L \/ i \in (L + 1)..Len(W)
  BY <1>1, <1>2
<1>4. \A i \in 1..(n + 1) : W[i] = w[i] /\ (i \in 1..n \/ i = n + 1) /\ i \in 1..L
  BY <1>1, <1>2
<1>5. Distinct(W)
  <2> SUFFICES ASSUME NEW i \in 1..Len(W), NEW j \in 1..Len(W), W[i] = W[j] PROVE i = j
    BY <1>2 DEF Distinct
  <2>1. CASE i \in 1..L /\ j \in 1..L
    BY <1>1, <1>2, <2>1 DEF Broad, Distinct
  <2>2. CASE i \in (L + 1)..Len(W) /\ j \in (L + 1)..Len(W)
    <3>1. W[i] = order[i - L] /\ W[j] = order[j - L] /\ i - L \in 1..Len(order) /\ j - L \in 1..Len(order)
      BY <1>1, <2>2, ConcatElements
    <3>2. order[i - L] = order[j - L]
      BY <3>1, Zenon
    <3>3. DOMAIN order = 1..Len(order)
      OBVIOUS
    <3>4. i - L = j - L
      BY <3>1, <3>2, <3>3, Zenon DEF Distinct
    <3> QED BY <1>1, <2>2, <3>4
  <2> QED BY <1>2, <1>3, <2>1, <2>2
<1>6. \A i \in 1..(n + 1) : next[W[i]] \subseteq seen \cup new
  BY <1>4 DEF Broad
<1>7. ASSUME NEW C \in SUBSET Vertex, W[1] \in C, ClosedBy(next, C)
      PROVE  seen \cup new \subseteq C
  <2>1. seen \subseteq C
    BY <1>1, <1>4, <1>7 DEF Broad
  <2>2. w[n + 1] \in C
    BY <1>1, <1>2, <2>1
  <2> QED BY <1>7, <2>1, <2>2 DEF ClosedBy
<1>8. \A j \in (L + 1)..Len(W) : W[j] \in next[W[n + 1]]
  BY <1>1, <1>2
<1>9. ASSUME NEW j \in 2..Len(W)
      PROVE  \E x \in 1..(n + 1) : W[j] \in next[W[x]] /\ (j \in 1..L => x \in 1..n)
  <2>1. CASE j \in 1..L
    <3>1. PICK x \in 1..n : w[j] \in next[w[x]]
      <4>1. j \in 2..L
        BY <1>9, <2>1
      <4> QED BY <4>1 DEF Broad
    <3> QED BY <1>1, <1>2, <2>1, <3>1
  <2>2. CASE j \in (L + 1)..Len(W)
    BY <1>1, <1>8, <2>2
  <2> QED BY <1>1, <1>3, <2>1, <2>2
<1>10. ASSUME NEW j \in 2..Len(W), NEW m \in 2..Len(W), NEW i \in 1..(n + 1),
              j < m, W[m] \in next[W[i]]
       PROVE  \E x \in 1..i : W[j] \in next[W[x]]
  <2>1. CASE i \in 1..n
    <3>1. W[i] = w[i] /\ W[m] \in seen
      BY <1>4, <1>10, <2>1 DEF Broad
    <3>2. m \notin (L + 1)..Len(W)
      BY <1>2, <3>1
    <3>3. m \in 2..L /\ j \in 2..L
      BY <1>1, <1>2, <1>10, <3>2
    <3>4. w[m] \in next[w[i]]
      BY <1>2, <1>10, <3>1, <3>3
    <3>5. PICK x \in 1..i : w[j] \in next[w[x]]
      BY <1>10, <2>1, <3>3, <3>4 DEF Broad
    <3>6. x \in 1..L /\ j \in 1..L
      BY <1>1, <2>1, <3>3
    <3> QED BY <1>2, <3>5, <3>6
  <2>2. CASE i = n + 1
    BY <1>9, <2>2
  <2> QED BY <1>4, <2>1, <2>2
<1>11. W # <<>> /\ n + 1 \in 0..Len(W)
  BY <1>1, <1>2
<1> HIDE DEF W, L
<1> QED
  <2>1. \A j \in 2..Len(W) : \E x \in 1..(n + 1) : W[j] \in next[W[x]]
    BY <1>9
  <2>2. Broad(next, W, n + 1, seen \cup new)
    BY <1>2, <1>5, <1>6, <1>7, <1>10, <1>11, <2>1 DEF Broad
  <2> QED BY <2>2 DEF W

\* Breadth is kept by an iteration of BFS.
LEMMA BreadthStep ==
    ASSUME Shaped, Breadth, StepBFS
    PROVE  Breadth'
<1> DEFINE s   == Head(pending)
           new == Onward(s) \ visited
           n   == Len(result)
<1>1. /\ op \in {"BFS", "BFSReverse"} /\ pending # <<>> /\ UNCHANGED <<graph, op>>
      /\ result' = Append(result, s) /\ visited' = visited \cup new
      /\ result \in Seq(Vertex) /\ pending \in Seq(Vertex)
      /\ Broad(Edges, result \o pending, n, visited)
  BY DEF StepBFS, Breadth
<1>2. PICK order \in SetToSeqs(new) : pending' = Tail(pending) \o order
  BY DEF StepBFS
<1>3. /\ new \subseteq Vertex /\ IsFiniteSet(new) /\ s \in Vertex
      /\ Edges[s] = Onward(s)
  <2>1. s \in Vertex
    BY <1>1
  <2>2. Onward(s) \subseteq vertices
    BY OnwardIs DEF Shaped
  <2> QED BY <2>1, <2>2, FS_Subset DEF Shaped, Edges
<1>4. order \in Seq(Vertex) /\ ToSet(order) = new /\ Distinct(order)
  BY <1>3, OrderOf
<1>5. /\ result' \in Seq(Vertex) /\ pending' \in Seq(Vertex) /\ Len(result') = n + 1
      /\ result' \o pending' = (result \o pending) \o order
      /\ (result \o pending)[n + 1] = s /\ n < Len(result \o pending)
  BY <1>1, <1>2, <1>3, <1>4
<1>6. new = Edges[(result \o pending)[n + 1]] \ visited
  BY <1>3, <1>5
<1>7. Broad(Edges, (result \o pending) \o order, n + 1, visited \cup new)
  <2> HIDE DEF new, n
  <2> QED BY <1>1, <1>3, <1>4, <1>5, <1>6, BroadGrows
<1>8. Edges' = Edges
  BY <1>1, OnwardStays DEF Edges
<1> HIDE DEF new, n
<1> QED BY <1>1, <1>5, <1>7, <1>8 DEF Breadth, Broad

\* BFS begins with its first vertex in the queue.
LEMMA BreadthBegins ==
    ASSUME Idle, NEW o, NEW v \in Vertex, BeginBFS(o, v)
    PROVE  Breadth'
<1>1. result' = <<>> /\ pending' = <<v>> /\ visited' = {v}
  BY DEF Idle, BeginBFS
<1>2. result' \in Seq(Vertex) /\ pending' \in Seq(Vertex) /\ Len(result') = 0
  BY <1>1
<1>3. result' \o pending' = <<v>>
  BY <1>1
<1>4. ASSUME NEW next PROVE Broad(next, <<v>>, 0, {v})
  <2>1. <<v>> \in Seq(Vertex) /\ Len(<<v>>) = 1 /\ <<v>>[1] = v /\ DOMAIN <<v>> = {1} /\ <<v>> # <<>>
    OBVIOUS
  <2>2. ToSet(<<v>>) = {v}
    BY <2>1 DEF ToSet
  <2> HIDE DEF Broad
  <2> QED BY <2>1, <2>2 DEF Broad, Distinct
<1> QED BY <1>1, <1>2, <1>3, <1>4 DEF Breadth, Broad

\* When its queue is empty, BFS has visited what it should.
LEMMA BreadthEnds ==
    ASSUME Shaped, Breadth, op \in {"BFS", "BFSReverse"}, pending = <<>>
    PROVE  /\ ToSet(result) = Reachable(result[1])
           /\ Len(result) = Cardinality(ToSet(result))
           /\ InOrder(result, op # "DFS")
<1> DEFINE r == result
<1>1. /\ r \in Seq(Vertex) /\ r # <<>> /\ visited = ToSet(r) /\ Distinct(r)
      /\ \A i \in 1..Len(r) : Edges[r[i]] \subseteq visited
      /\ \A C \in SUBSET Vertex : r[1] \in C /\ ClosedBy(Edges, C) => visited \subseteq C
      /\ \A j, m \in 2..Len(r), i \in 1..Len(r) :
           j < m /\ r[m] \in Edges[r[i]] => \E x \in 1..i : r[j] \in Edges[r[x]]
  <2>1. r \in Seq(Vertex) /\ r \o pending = r
    BY DEF Breadth
  <2> QED BY <2>1 DEF Breadth, Broad
<1>2. /\ DOMAIN r = 1..Len(r) /\ Len(r) \in Nat /\ Len(r) >= 1
      /\ \A i \in 1..Len(r) : r[i] \in Vertex /\ Edges[r[i]] = Onward(r[i])
  BY <1>1 DEF Edges
<1>3. \A C \in SUBSET Vertex : Closed(C) <=> ClosedBy(Edges, C)
  BY DEF Closed, ClosedBy, Edges
<1>4. ToSet(r) = Reachable(r[1])
  <2>1. ToSet(r) \in SUBSET Vertex /\ r[1] \in ToSet(r) /\ Closed(ToSet(r))
    BY <1>1, <1>2 DEF ToSet, Closed
  <2>2. r[1] \in Vertex
    BY <1>2
  <2>3. Reachable(r[1]) \subseteq ToSet(r)
    BY <2>1, <2>2, ReachableIs
  <2>4. ToSet(r) \subseteq Reachable(r[1])
    BY <1>1, <1>3, <2>2, ReachableIs
  <2> QED BY <2>3, <2>4
<1>5. Len(r) = Cardinality(ToSet(r))
  BY <1>1, SizeOfDistinct
<1>6. InOrder(r, TRUE)
  <2> SUFFICES ASSUME NEW i \in 1..Len(r), NEW j \in 1..Len(r), NEW m \in 1..Len(r),
                      i < j, j < m, r[m] \in Onward(r[i]), r[j] \notin Onward(r[i])
               PROVE  \E x \in 1..(i - 1) : r[j] \in Onward(r[x])
    BY <1>2 DEF InOrder
  <2>1. j \in 2..Len(r) /\ m \in 2..Len(r)
    BY <1>2
  <2>2. PICK x \in 1..i : r[j] \in Edges[r[x]]
    BY <1>1, <1>2, <2>1
  <2>3. x \in 1..Len(r) /\ r[j] \in Onward(r[x]) /\ x # i
    BY <1>2, <2>2
  <2> QED BY <2>3
<1> QED BY <1>4, <1>5, <1>6

\* Depth first: w is on the stack p, with nothing above it but what the vertices
\* r[i] and later put there after it, other than those up to r[i].
Waits(next, r, p, i, w) ==
    \E q \in 1..Len(p) :
        /\ p[q] = w
        /\ \A k \in (q + 1)..Len(p) : /\ \A x \in 1..i : p[k] # r[x]
                                      /\ \E x \in i..Len(r) : p[k] \in next[r[x]]

\* Depth first: the list r of what was visited, and the stack p.  What r leads
\* to is in it or waits on the stack; and when r[i] leads to what r lacks up to
\* r[j], a later one than i, or i, leads to r[j].
Deep(next, r, p, seen) ==
    /\ r \in Seq(Vertex) /\ p \in Seq(Vertex)
    /\ r = <<>> => Len(p) = 1
    /\ seen = ToSet(r) /\ Distinct(r)
    /\ \A C \in SUBSET Vertex :
         ClosedBy(next, C) /\ (IF r = <<>> THEN p[1] ELSE r[1]) \in C => seen \cup ToSet(p) \subseteq C
    /\ \A i \in 1..Len(r) : \A w \in next[r[i]] \ seen : Waits(next, r, p, i, w)
    /\ \A i, j \in 1..Len(r) : i < j =>
         \A w \in next[r[i]] : (\A x \in 1..j : w # r[x]) => \E x \in i..(j - 1) : r[j] \in next[r[x]]

Depth == op = "DFS" => Deep(Edges, result, pending, visited)

\* A sequence without its last element.
LEMMA FrontIs ==
    ASSUME NEW S, NEW p \in Seq(S), p # <<>>
    PROVE  /\ Len(p) \in Nat /\ Len(p) >= 1
           /\ Front(p) \in Seq(S) /\ Len(Front(p)) = Len(p) - 1
           /\ \A k \in 1..(Len(p) - 1) : Front(p)[k] = p[k]
<1>1. Len(p) \in Nat /\ Len(p) >= 1
  OBVIOUS
<1>2. /\ 1 \in 1..(Len(p) + 1) /\ Len(p) - 1 \in (1 - 1)..Len(p)
      /\ Len(p) - 1 - 1 + 1 = Len(p) - 1
  BY <1>1
<1>3. /\ Front(p) \in Seq(S) /\ Len(Front(p)) = Len(p) - 1
      /\ \A k \in 1..(Len(p) - 1) : Front(p)[k] = p[1 + k - 1]
  BY <1>1, <1>2, SubSeqProperties DEF Front
<1>4. \A k \in 1..(Len(p) - 1) : 1 + k - 1 = k
  BY <1>1
<1> QED BY <1>1, <1>3, <1>4

\* The stack without its top, and with what is put on it instead.
LEMMA Replaced ==
    ASSUME NEW p \in Seq(Vertex), p # <<>>, NEW order \in Seq(Vertex)
    PROVE  /\ Len(p) \in Nat /\ Len(p) >= 1 /\ Len(order) \in Nat
           /\ Front(p) \o order \in Seq(Vertex)
           /\ Len(Front(p) \o order) = Len(p) - 1 + Len(order)
           /\ \A k \in 1..(Len(p) - 1) : (Front(p) \o order)[k] = p[k]
           /\ \A k \in Len(p)..(Len(p) - 1 + Len(order)) :
                (Front(p) \o order)[k] = order[k - Len(p) + 1] /\ k - Len(p) + 1 \in 1..Len(order)
           /\ ToSet(Front(p) \o order) \subseteq ToSet(p) \cup ToSet(order)
<1>1. /\ Len(p) \in Nat /\ Len(p) >= 1 /\ Len(order) \in Nat
      /\ Front(p) \in Seq(Vertex) /\ Len(Front(p)) = Len(p) - 1
      /\ \A k \in 1..(Len(p) - 1) : Front(p)[k] = p[k]
  BY FrontIs
<1>2. ToSet(Front(p)) \subseteq ToSet(p)
  <2>1. \A k \in 1..Len(Front(p)) : k \in 1..Len(p) /\ Front(p)[k] = p[k]
    BY <1>1
  <2>2. DOMAIN Front(p) = 1..Len(Front(p)) /\ DOMAIN p = 1..Len(p)
    BY <1>1
  <2> QED BY <2>1, <2>2 DEF ToSet
<1> DEFINE f == Front(p)
<1>3. /\ f \o order \in Seq(Vertex) /\ Len(f \o order) = Len(p) - 1 + Len(order)
      /\ \A k \in 1..(Len(p) - 1) : (f \o order)[k] = f[k]
      /\ \A k \in Len(p)..(Len(p) - 1 + Len(order)) :
           (f \o order)[k] = order[k - Len(p) + 1] /\ k - Len(p) + 1 \in 1..Len(order)
  <2>1. f \in Seq(Vertex) /\ Len(f) = Len(p) - 1
    BY <1>1
  <2>2. ASSUME NEW k \in Len(p)..(Len(p) - 1 + Len(order))
        PROVE  (f \o order)[k] = order[k - Len(p) + 1] /\ k - Len(p) + 1 \in 1..Len(order)
    <3>1. k \in (Len(f) + 1)..(Len(f) + Len(order)) /\ k - Len(f) = k - Len(p) + 1
      BY <1>1, <2>1
    <3>2. /\ \A m \in (Len(f) + 1)..Len(f \o order) : (f \o order)[m] = order[m - Len(f)] /\ m - Len(f) \in 1..Len(order)
          /\ Len(f \o order) = Len(f) + Len(order)
      BY <2>1, ConcatElements
    <3> HIDE DEF f
    <3>3. (f \o order)[k] = order[k - Len(f)] /\ k - Len(f) \in 1..Len(order)
      BY <3>1, <3>2
    <3> QED BY <3>1, <3>3
  <2>3. /\ f \o order \in Seq(Vertex) /\ Len(f \o order) = Len(p) - 1 + Len(order)
        /\ \A k \in 1..(Len(p) - 1) : (f \o order)[k] = f[k]
    <3> HIDE DEF f
    <3>1. /\ f \o order \in Seq(Vertex) /\ Len(f \o order) = Len(f) + Len(order)
          /\ \A k \in 1..Len(f) : (f \o order)[k] = f[k]
      <4>1. f \in Seq(Vertex)
        BY <2>1
      <4> QED BY <4>1
    <3> QED BY <1>1, <2>1, <3>1
  <2> QED BY <2>2, <2>3
<1>4. ToSet(f \o order) = ToSet(f) \cup ToSet(order)
  BY <1>1, ConcatElements
<1> QED BY <1>1, <1>2, <1>3, <1>4

\* What waits on the stack still does when its top is taken, and what the top
\* leads to is put on it.
LEMMA StillWaits ==
    ASSUME NEW next, NEW r \in Seq(Vertex), NEW p \in Seq(Vertex), p # <<>>,
           NEW s, s = p[Len(p)], NEW order \in Seq(Vertex), ToSet(order) \cap ToSet(r) = {},
           NEW i \in 1..Len(r), NEW w, w # s, Waits(next, r, p, i, w),
           NEW R \in Seq(Vertex), NEW z \in 1..Len(R), R[z] = s, ToSet(order) \subseteq next[s],
           Len(R) >= Len(r), \A x \in 1..Len(r) : R[x] = r[x],
           z > Len(r) \/ R = r
    PROVE  Waits(next, R, Front(p) \o order, i, w)
<1> DEFINE P == Front(p) \o order
<1>1. PICK q \in 1..Len(p) :
        /\ p[q] = w
        /\ \A k \in (q + 1)..Len(p) : /\ \A x \in 1..i : p[k] # r[x]
                                      /\ \E x \in i..Len(r) : p[k] \in next[r[x]]
  BY DEF Waits
<1>2. /\ Len(p) \in Nat /\ Len(p) >= 1 /\ Len(P) = Len(p) - 1 + Len(order) /\ Len(order) \in Nat
      /\ \A k \in 1..(Len(p) - 1) : P[k] = p[k]
      /\ \A k \in Len(p)..Len(P) : P[k] = order[k - Len(p) + 1] /\ k - Len(p) + 1 \in 1..Len(order)
  BY Replaced
<1> HIDE DEF P
<1>3. q \in 1..(Len(p) - 1) /\ P[q] = w /\ q \in 1..Len(P)
  BY <1>1, <1>2
<1>4. /\ Len(r) \in Nat /\ Len(R) \in Nat /\ i >= 1 /\ i <= Len(r)
      /\ \A x \in 1..i : x \in 1..Len(r) /\ R[x] = r[x] /\ r[x] \in ToSet(r)
  BY DEF ToSet
<1>5. z \in i..Len(R)
  <2>1. CASE z > Len(r)
    BY <1>4, <2>1
  <2>2. CASE R = r
    <3>1. \A x \in 1..i : s # r[x]
      <4>1. Len(p) \in (q + 1)..Len(p)
        BY <1>2, <1>3
      <4> QED BY <1>1, <4>1, Zenon
    <3>2. ~ z \in 1..i
      BY <2>2, <3>1
    <3> QED BY <1>4, <2>2, <3>2
  <2> QED BY <2>1, <2>2
<1>6. ASSUME NEW k \in (q + 1)..Len(P)
      PROVE  (\A x \in 1..i : P[k] # R[x]) /\ \E x \in i..Len(R) : P[k] \in next[R[x]]
  <2>1. CASE k <= Len(p) - 1
    <3>1. k \in (q + 1)..Len(p) /\ P[k] = p[k]
      <4>1. k \in 1..(Len(p) - 1) /\ k \in (q + 1)..Len(p)
        BY <1>2, <1>3, <2>1
      <4> QED BY <1>2, <4>1
    <3>2. PICK x \in i..Len(r) : p[k] \in next[r[x]]
      BY <1>1, <3>1
    <3>3. x \in 1..Len(r) /\ x \in i..Len(R)
      BY <1>4
    <3> QED BY <1>1, <1>4, <3>1, <3>2, <3>3
  <2>2. CASE k >= Len(p)
    <3>1. k \in Len(p)..Len(P)
      BY <1>2, <1>3, <2>2
    <3>2. P[k] \in ToSet(order)
      <4>1. P[k] = order[k - Len(p) + 1] /\ k - Len(p) + 1 \in DOMAIN order
        BY <1>2, <3>1
      <4> QED BY <4>1 DEF ToSet
    <3>3. \A x \in 1..i : P[k] # R[x]
      BY <1>4, <3>2
    <3> QED BY <1>5, <3>2, <3>3
  <2> QED BY <1>2, <1>3, <2>1, <2>2
<1>7. Waits(next, R, P, i, w)
  BY <1>3, <1>6 DEF Waits
<1> QED BY <1>7 DEF P

\* A vertex already visited is taken from the stack.
LEMMA DeepAgain ==
    ASSUME NEW next, NEW r, NEW p, NEW seen, Deep(next, r, p, seen), p # <<>>,
           NEW s, s = p[Len(p)], s \in seen,
           NEW order \in Seq(Vertex), ToSet(order) = next[s] \ seen
    PROVE  Deep(next, r, Front(p) \o order, seen)
<1> DEFINE P == Front(p) \o order
<1>1. r \in Seq(Vertex) /\ p \in Seq(Vertex) /\ seen = ToSet(r) /\ DOMAIN r = 1..Len(r)
  BY DEF Deep
<1>2. PICK z \in 1..Len(r) : r[z] = s
  BY <1>1 DEF ToSet
<1>3. r # <<>>
  BY <1>1, <1>2
<1>4. P \in Seq(Vertex) /\ ToSet(P) \subseteq ToSet(p) \cup ToSet(order)
  BY <1>1, Replaced
<1>5. ASSUME NEW C \in SUBSET Vertex, ClosedBy(next, C), r[1] \in C
      PROVE  seen \cup ToSet(P) \subseteq C
  <2>1. seen \cup ToSet(p) \subseteq C
    BY <1>3, <1>5 DEF Deep
  <2>2. next[s] \subseteq C
    BY <1>5, <2>1 DEF ClosedBy
  <2> QED BY <1>4, <2>1, <2>2
<1>6. ASSUME NEW i \in 1..Len(r), NEW w \in next[r[i]] \ seen
      PROVE  Waits(next, r, P, i, w)
  <2>1. Waits(next, r, p, i, w)
    BY DEF Deep
  <2>2. w # s /\ ToSet(order) \cap ToSet(r) = {} /\ ToSet(order) \subseteq next[s]
    BY <1>1, <1>6
  <2>3. Len(r) >= Len(r)
    BY <1>1
  <2> QED BY <1>1, <1>2, <2>1, <2>2, <2>3, StillWaits
<1> HIDE DEF P
<1>7. Deep(next, r, P, seen)
  BY <1>1, <1>3, <1>4, <1>5, <1>6 DEF Deep
<1> QED BY <1>7 DEF P

\* A vertex is visited.
LEMMA DeepNew ==
    ASSUME NEW next, NEW r, NEW p, NEW seen, Deep(next, r, p, seen), p # <<>>,
           NEW s, s = p[Len(p)], s \notin seen,
           NEW order \in Seq(Vertex), ToSet(order) = next[s] \ (seen \cup {s})
    PROVE  Deep(next, Append(r, s), Front(p) \o order, seen \cup {s})
<1> DEFINE P == Front(p) \o order
           R == Append(r, s)
           n == Len(r)
<1>1. /\ r \in Seq(Vertex) /\ p \in Seq(Vertex) /\ seen = ToSet(r) /\ DOMAIN r = 1..n /\ n \in Nat
      /\ Len(p) \in Nat /\ Len(p) \in 1..Len(p) /\ s \in Vertex
  BY DEF Deep
<1>2. /\ R \in Seq(Vertex) /\ Len(R) = n + 1 /\ R # <<>> /\ R[n + 1] = s
      /\ \A x \in 1..n : R[x] = r[x] /\ R[x] \in seen
      /\ \A x \in 1..(n + 1) : x \in 1..n \/ x = n + 1
      /\ DOMAIN R = 1..(n + 1)
  BY <1>1 DEF ToSet
<1>3. ToSet(R) = seen \cup {s}
  <2>1. \A e \in ToSet(R) : e \in seen \cup {s}
    BY <1>2 DEF ToSet
  <2>2. \A e \in seen : e \in ToSet(R)
    <3>1. ASSUME NEW x \in 1..n PROVE r[x] \in ToSet(R)
      BY <1>1, <1>2 DEF ToSet
    <3> QED BY <1>1, <3>1 DEF ToSet
  <2>3. s \in ToSet(R)
    <3>1. n + 1 \in 1..(n + 1)
      BY <1>1
    <3> HIDE DEF R
    <3> QED BY <1>2, <3>1 DEF ToSet
  <2> QED BY <2>1, <2>2, <2>3
<1>4. Distinct(R)
  <2> SUFFICES ASSUME NEW i \in 1..(n + 1), NEW j \in 1..(n + 1), R[i] = R[j] PROVE i = j
    BY <1>2 DEF Distinct
  <2>1. CASE i \in 1..n /\ j \in 1..n
    <3>1. r[i] = r[j]
      BY <1>2, <2>1
    <3> QED BY <1>1, <2>1, <3>1 DEF Deep, Distinct
  <2> QED BY <1>2, <2>1
<1>5. P \in Seq(Vertex) /\ ToSet(P) \subseteq ToSet(p) \cup ToSet(order)
  BY <1>1, Replaced
<1>6. ASSUME NEW C \in SUBSET Vertex, ClosedBy(next, C), R[1] \in C
      PROVE  seen \cup {s} \cup ToSet(P) \subseteq C
  <2>1. (IF r = <<>> THEN p[1] ELSE r[1]) \in C
    <3>1. CASE r = <<>>
      <4>1. Len(p) = 1 /\ n = 0
        BY <3>1 DEF Deep
      <4> QED BY <1>2, <1>6, <3>1, <4>1
    <3>2. CASE r # <<>>
      <4>1. 1 \in 1..n
        BY <1>1, <3>2
      <4> QED BY <1>2, <1>6, <3>2, <4>1
    <3> QED BY <3>1, <3>2
  <2>2. seen \cup ToSet(p) \subseteq C
    BY <1>6, <2>1 DEF Deep
  <2>3. s \in C
    BY <1>1, <2>2 DEF ToSet
  <2>4. next[s] \subseteq C
    BY <1>6, <2>3 DEF ClosedBy
  <2> QED BY <1>5, <2>2, <2>3, <2>4
<1>7. ASSUME NEW i \in 1..(n + 1), NEW w \in next[R[i]] \ (seen \cup {s})
      PROVE  Waits(next, R, P, i, w)
  <2>1. CASE i \in 1..n
    <3>1. w \in next[r[i]] \ seen /\ w # s
      BY <1>2, <1>7, <2>1
    <3>2. Waits(next, r, p, i, w)
      BY <2>1, <3>1 DEF Deep
    <3>3. ToSet(order) \cap ToSet(r) = {} /\ ToSet(order) \subseteq next[s]
      BY <1>1
    <3>4. /\ Len(R) >= n /\ n + 1 \in 1..Len(R) /\ n + 1 > n
          /\ \A x \in 1..n : R[x] = r[x]
      BY <1>1, <1>2
    <3> HIDE DEF R, n, P
    <3>5. Waits(next, R, Front(p) \o order, i, w)
      BY <1>1, <1>2, <2>1, <3>1, <3>2, <3>3, <3>4, StillWaits DEF n
    <3> QED BY <3>5 DEF P
  <2>2. CASE i = n + 1
    <3>1. w \in ToSet(order)
      BY <1>2, <1>7, <2>2
    <3>2. PICK m \in 1..Len(order) : order[m] = w
      BY <3>1 DEF ToSet
    <3>3. /\ Len(p) >= 1 /\ Len(order) \in Nat /\ Len(P) = Len(p) - 1 + Len(order)
          /\ \A k \in Len(p)..Len(P) : P[k] = order[k - Len(p) + 1] /\ k - Len(p) + 1 \in 1..Len(order)
      BY <1>1, Replaced
    <3> DEFINE q == Len(p) - 1 + m
    <3>4. q \in Len(p)..Len(P) /\ q \in 1..Len(P) /\ q - Len(p) + 1 = m
      BY <1>1, <3>2, <3>3
    <3>5. P[q] = w
      BY <3>2, <3>3, <3>4
    <3>6. ASSUME NEW k \in (q + 1)..Len(P)
          PROVE  (\A x \in 1..i : P[k] # R[x]) /\ \E x \in i..Len(R) : P[k] \in next[R[x]]
      <4>1. k \in Len(p)..Len(P)
        BY <1>1, <3>2, <3>3
      <4>2. P[k] \in ToSet(order)
        BY <3>3, <4>1 DEF ToSet
      <4>3. \A x \in 1..i : P[k] # R[x]
        BY <1>2, <2>2, <4>2
      <4>4. n + 1 \in i..Len(R)
        BY <1>1, <1>2, <2>2
      <4> QED BY <1>2, <4>2, <4>3, <4>4
    <3> HIDE DEF q, P, R
    <3> QED BY <3>4, <3>5, <3>6 DEF Waits
  <2> QED BY <1>2, <2>1, <2>2
<1>8. ASSUME NEW i \in 1..(n + 1), NEW j \in 1..(n + 1), i < j, NEW w \in next[R[i]],
             \A x \in 1..j : w # R[x]
      PROVE  \E x \in i..(j - 1) : R[j] \in next[R[x]]
  <2>1. i \in 1..n /\ w \in next[r[i]]
    BY <1>1, <1>2, <1>8
  <2>2. CASE j \in 1..n
    <3>1. \A x \in 1..j : x \in 1..n /\ w # r[x]
      BY <1>1, <1>2, <1>8, <2>2
    <3>2. PICK x \in i..(j - 1) : r[j] \in next[r[x]]
      BY <1>8, <2>1, <2>2, <3>1 DEF Deep
    <3>3. x \in 1..n
      BY <1>1, <2>1, <2>2
    <3> QED BY <1>2, <2>2, <3>2, <3>3
  <2>3. CASE j = n + 1
    <3>1. w \notin seen /\ w # s
      <4>1. \A x \in 1..n : w # r[x]
        BY <1>1, <1>2, <1>8, <2>3
      <4>2. w # R[n + 1]
        BY <1>1, <1>8, <2>3
      <4> QED BY <1>1, <1>2, <4>1, <4>2 DEF ToSet
    <3>2. PICK q \in 1..Len(p) : p[q] = w /\ \A k \in (q + 1)..Len(p) : \E x \in i..n : p[k] \in next[r[x]]
      <4>1. Waits(next, r, p, i, w)
        BY <2>1, <3>1 DEF Deep
      <4> QED BY <4>1 DEF Waits
    <3>3. Len(p) \in (q + 1)..Len(p)
      BY <1>1, <3>1, <3>2
    <3>4. PICK x \in i..n : s \in next[r[x]]
      BY <3>2, <3>3
    <3>5. x \in 1..n /\ x \in i..(j - 1)
      BY <1>1, <2>1, <2>3
    <3> QED BY <1>2, <2>3, <3>4, <3>5
  <2> QED BY <1>2, <2>2, <2>3
<1> HIDE DEF P, R, n
<1>9. Deep(next, R, P, seen \cup {s})
  BY <1>2, <1>3, <1>4, <1>5, <1>6, <1>7, <1>8 DEF Deep
<1> QED BY <1>9 DEF P, R

\* Depth is kept by an iteration of DFS.
LEMMA DepthStep ==
    ASSUME Shaped, Depth, StepDFS
    PROVE  Depth'
<1> DEFINE s   == Last(pending)
           new == Onward(s) \ (visited \cup {s})
<1>1. /\ op = "DFS" /\ pending # <<>> /\ UNCHANGED <<graph, op>>
      /\ result' = IF s \in visited THEN result ELSE Append(result, s)
      /\ visited' = visited \cup {s}
      /\ pending \in Seq(Vertex) /\ s = pending[Len(pending)] /\ s \in Vertex
      /\ Deep(Edges, result, pending, visited)
  BY DEF StepDFS, Depth, Deep, Last
<1>2. PICK order \in SetToSeqs(new) : pending' = Front(pending) \o order
  BY DEF StepDFS
<1>3. new \subseteq Vertex /\ IsFiniteSet(new) /\ Edges[s] = Onward(s)
  <2>1. Onward(s) \subseteq vertices
    BY OnwardIs DEF Shaped
  <2> QED BY <1>1, <2>1, FS_Subset DEF Shaped, Edges
<1>4. order \in Seq(Vertex) /\ ToSet(order) = new
  BY <1>3, OrderOf
<1>5. Deep(Edges, result', pending', visited')
  <2>1. CASE s \in visited
    <3>1. visited \cup {s} = visited /\ result' = result /\ ToSet(order) = Edges[s] \ visited
      BY <1>1, <1>3, <1>4, <2>1
    <3> HIDE DEF s
    <3> QED BY <1>1, <1>2, <1>4, <2>1, <3>1, DeepAgain
  <2>2. CASE s \notin visited
    <3>1. result' = Append(result, s) /\ ToSet(order) = Edges[s] \ (visited \cup {s})
      BY <1>1, <1>3, <1>4, <2>2
    <3>2. s = pending[Len(pending)] /\ pending # <<>>
      BY <1>1
    <3> HIDE DEF s, new
    <3>3. Deep(Edges, Append(result, s), Front(pending) \o order, visited \cup {s})
      BY <1>1, <1>4, <2>2, <3>1, <3>2, DeepNew
    <3> QED BY <1>1, <1>2, <3>1, <3>3
  <2> QED BY <2>1, <2>2
<1>6. Edges' = Edges
  BY <1>1, OnwardStays DEF Edges
<1> QED BY <1>5, <1>6 DEF Depth, Deep, Waits

\* DFS begins with its first vertex on the stack.
LEMMA DepthBegins ==
    ASSUME Idle, NEW v \in Vertex, BeginDFS(v)
    PROVE  Depth'
<1>1. result' = <<>> /\ pending' = <<v>> /\ visited' = {}
  BY DEF Idle, BeginDFS
<1>2. /\ <<>> \in Seq(Vertex) /\ <<v>> \in Seq(Vertex) /\ Len(<<v>>) = 1 /\ <<v>>[1] = v
      /\ DOMAIN <<v>> = {1} /\ Len(<<>>) = 0 /\ DOMAIN <<>> = {}
  OBVIOUS
<1>3. ToSet(<<v>>) = {v} /\ ToSet(<<>>) = {} /\ Distinct(<<>>)
  BY <1>2 DEF ToSet, Distinct
<1>4. 1..0 = {}
  OBVIOUS
<1>5. Deep(Edges', <<>>, <<v>>, {})
  BY <1>2, <1>3, <1>4 DEF Deep
<1> QED BY <1>1, <1>5 DEF Depth, Deep, Waits

\* When its stack is empty, DFS has visited what it should.
LEMMA DepthEnds ==
    ASSUME Shaped, Depth, op = "DFS", pending = <<>>
    PROVE  /\ ToSet(result) = Reachable(result[1])
           /\ Len(result) = Cardinality(ToSet(result))
           /\ InOrder(result, op # "DFS")
<1> DEFINE r == result
<1>1. /\ r \in Seq(Vertex) /\ r # <<>> /\ visited = ToSet(r) /\ Distinct(r)
      /\ \A i \in 1..Len(r) : Edges[r[i]] \subseteq visited
      /\ \A C \in SUBSET Vertex : r[1] \in C /\ ClosedBy(Edges, C) => visited \subseteq C
      /\ \A i, j \in 1..Len(r) : i < j =>
           \A w \in Edges[r[i]] : (\A x \in 1..j : w # r[x]) => \E x \in i..(j - 1) : r[j] \in Edges[r[x]]
  <2>1. Len(pending) = 0
    OBVIOUS
  <2>2. Deep(Edges, r, pending, visited)
    BY DEF Depth
  <2>3. r # <<>>
    BY <2>1, <2>2 DEF Deep
  <2>4. ASSUME NEW i \in 1..Len(r), NEW w \in Edges[r[i]] \ visited PROVE FALSE
    <3>1. Waits(Edges, r, pending, i, w)
      BY <2>2, <2>4 DEF Deep
    <3> QED BY <2>1, <3>1 DEF Waits
  <2> QED BY <2>2, <2>3, <2>4 DEF Deep
<1>2. /\ DOMAIN r = 1..Len(r) /\ Len(r) \in Nat /\ Len(r) >= 1
      /\ \A i \in 1..Len(r) : r[i] \in Vertex /\ Edges[r[i]] = Onward(r[i])
  BY <1>1 DEF Edges
<1>3. \A C \in SUBSET Vertex : Closed(C) <=> ClosedBy(Edges, C)
  BY DEF Closed, ClosedBy, Edges
<1>4. ToSet(r) = Reachable(r[1])
  <2>1. ToSet(r) \in SUBSET Vertex /\ r[1] \in ToSet(r) /\ Closed(ToSet(r))
    BY <1>1, <1>2 DEF ToSet, Closed
  <2>2. r[1] \in Vertex
    BY <1>2
  <2>3. Reachable(r[1]) \subseteq ToSet(r)
    BY <2>1, <2>2, ReachableIs
  <2>4. ToSet(r) \subseteq Reachable(r[1])
    BY <1>1, <1>3, <2>2, ReachableIs
  <2> QED BY <2>3, <2>4
<1>5. Len(r) = Cardinality(ToSet(r))
  BY <1>1, SizeOfDistinct
<1>6. InOrder(r, FALSE)
  <2> SUFFICES ASSUME NEW i \in 1..Len(r), NEW j \in 1..Len(r), NEW m \in 1..Len(r),
                      i < j, j < m, r[m] \in Onward(r[i]), r[j] \notin Onward(r[i])
               PROVE  \E x \in (i + 1)..(j - 1) : r[j] \in Onward(r[x])
    BY <1>2 DEF InOrder
  <2>1. \A x \in 1..j : r[m] # r[x]
    <3>1. \A x \in 1..j : x \in DOMAIN r /\ m \in DOMAIN r /\ x # m
      BY <1>2
    <3> QED BY <1>1, <3>1 DEF Distinct
  <2>2. PICK x \in i..(j - 1) : r[j] \in Edges[r[x]]
    BY <1>1, <1>2, <2>1
  <2>3. x \in 1..Len(r) /\ r[j] \in Onward(r[x]) /\ x # i
    BY <1>2, <2>2
  <2> QED BY <2>3
<1> QED BY <1>4, <1>5, <1>6

Shades == {"white", "gray", "black"}

Grays(c) == {v \in vertices : c[v] = "gray"}

\* A call of visit.
Frame == [v : vertices, left : SUBSET vertices]

\* The calls of visit are those of the gray vertices, each made for a vertex that
\* the one before leads to; what a call has looked at is black, or visited now.
Stacked(frames, c) ==
    /\ frames \in Seq(Frame) /\ c \in [vertices -> Shades]
    /\ Grays(c) = {frames[i].v : i \in 1..Len(frames)}
    /\ \A i, j \in 1..Len(frames) : frames[i].v = frames[j].v => i = j
    /\ \A i \in 1..Len(frames) : frames[i].left \subseteq from[frames[i].v]
    /\ \A i \in 1..Len(frames) : \A u \in from[frames[i].v] \ frames[i].left :
         c[u] = "black" \/ (i < Len(frames) /\ u = frames[i + 1].v)
    /\ \A i \in 1..(Len(frames) - 1) : frames[i + 1].v \in from[frames[i].v]

\* A black vertex leads to black ones, and not to itself.
Settled(c) == \A v \in vertices : c[v] = "black" =>
    (\A u \in from[v] : c[u] = "black") /\ v \notin Leads(vertices, v)

Colors == op = "Cyclic" =>
            /\ color \in [vertices -> Shades] /\ Settled(color)
            /\ result = <<>> \/ result = <<TRUE>>
            /\ result = <<>> => Stacked(pending, color)
            /\ result = <<TRUE>> => pending = <<>> /\ \E v \in Cycle : v \in Leads(Cycle, v)

\* A call of visit for u, made by the last of frames, which becomes rest.
LEMMA StackedVisit ==
    ASSUME Shaped, NEW frames, NEW c, Stacked(frames, c),
           NEW u \in vertices, c[u] = "white",
           Len(frames) > 0 => u \in from[frames[Len(frames)].v],
           NEW rest \in Seq(Frame), Len(rest) = Len(frames),
           \A i \in 1..Len(frames) :
             /\ rest[i].v = frames[i].v /\ rest[i].left \subseteq frames[i].left
             /\ i < Len(frames) => rest[i].left = frames[i].left
             /\ frames[i].left \ rest[i].left \subseteq {u}
    PROVE  Stacked(Append(rest, [v |-> u, left |-> from[u]]), [c EXCEPT ![u] = "gray"])
<1> DEFINE n == Len(frames)
           f == [v |-> u, left |-> from[u]]
           G == Append(rest, f)
           d == [c EXCEPT ![u] = "gray"]
<1>1. n \in Nat /\ c \in [vertices -> Shades] /\ frames \in Seq(Frame)
  BY DEF Stacked
<1>2. f \in Frame /\ f.v = u /\ f.left = from[u]
  BY DEF Shaped, Mirrored, Frame
<1>3. d \in [vertices -> Shades] /\ d[u] = "gray" /\ \A v \in vertices : v # u => d[v] = c[v]
  BY <1>1 DEF Shades
<1>4. /\ G \in Seq(Frame) /\ Len(G) = n + 1 /\ G[n + 1] = f
      /\ \A i \in 1..n : G[i] = rest[i]
      /\ \A i \in 1..(n + 1) : i \in 1..n \/ i = n + 1
  <2> HIDE DEF f
  <2> QED BY <1>1, <1>2
<1>5. \A i \in 1..n : /\ G[i].v = frames[i].v /\ G[i].v \in vertices
                      /\ frames[i].left \subseteq from[frames[i].v]
                      /\ G[i].left \subseteq frames[i].left
                      /\ i < n => G[i].left = frames[i].left
                      /\ frames[i].left \ G[i].left \subseteq {u}
  <2> SUFFICES ASSUME NEW i \in 1..n
               PROVE  /\ G[i].v = frames[i].v /\ G[i].v \in vertices
                      /\ frames[i].left \subseteq from[frames[i].v]
                      /\ G[i].left \subseteq frames[i].left
                      /\ i < n => G[i].left = frames[i].left
                      /\ frames[i].left \ G[i].left \subseteq {u}
    OBVIOUS
  <2>1. frames[i] \in Frame /\ G[i] = rest[i]
    BY <1>1, <1>4
  <2>2. frames[i].v \in vertices
    BY <2>1 DEF Frame
  <2>3. frames[i].left \subseteq from[frames[i].v]
    BY DEF Stacked
  <2> HIDE DEF G
  <2> QED BY <2>1, <2>2, <2>3
<1>6. G[n + 1].v = u /\ G[n + 1].left = from[u]
  BY <1>2, <1>4
<1> HIDE DEF G, f, d
<1>7. Grays(d) = {G[i].v : i \in 1..Len(G)}
  <2>1. Grays(d) = Grays(c) \cup {u}
    BY <1>3 DEF Grays
  <2>2. ASSUME NEW e \in Grays(d) PROVE \E i \in 1..(n + 1) : G[i].v = e
    <3>1. CASE e = u
      BY <1>1, <1>6, <3>1
    <3>2. CASE e \in Grays(c)
      <4>1. PICK i \in 1..n : frames[i].v = e
        BY <3>2 DEF Stacked
      <4> QED BY <1>1, <1>5, <4>1
    <3> QED BY <2>1, <3>1, <3>2
  <2>3. ASSUME NEW i \in 1..(n + 1) PROVE G[i].v \in Grays(d)
    <3>1. CASE i \in 1..n
      BY <1>5, <2>1, <3>1 DEF Stacked
    <3> QED BY <1>4, <1>6, <2>1, <3>1
  <2> QED BY <1>4, <2>2, <2>3
<1>8. ASSUME NEW i \in 1..(n + 1), NEW j \in 1..(n + 1), G[i].v = G[j].v PROVE i = j
  <2>1. \A k \in 1..n : G[k].v # u
    BY <1>5 DEF Stacked, Grays
  <2>2. CASE i \in 1..n /\ j \in 1..n
    BY <1>5, <1>8, <2>2 DEF Stacked
  <2> QED BY <1>4, <1>6, <1>8, <2>1, <2>2
<1>9. \A i \in 1..(n + 1) : G[i].left \subseteq from[G[i].v]
  BY <1>4, <1>5, <1>6
<1>10. ASSUME NEW i \in 1..(n + 1), NEW e \in from[G[i].v] \ G[i].left
       PROVE  d[e] = "black" \/ (i < n + 1 /\ e = G[i + 1].v)
  <2>1. i \in 1..n
    BY <1>4, <1>6, <1>10
  <2>2. CASE e \in frames[i].left
    <3>1. e = u /\ ~ i < n
      BY <1>5, <1>10, <2>1, <2>2
    <3>2. i + 1 = n + 1
      BY <1>1, <2>1, <3>1
    <3> QED BY <1>1, <1>6, <2>1, <3>1, <3>2
  <2>3. CASE e \notin frames[i].left
    <3>1. e \in from[frames[i].v] \ frames[i].left
      BY <1>5, <1>10, <2>1, <2>3
    <3>2. CASE c[e] = "black"
      <4>1. e \in vertices
        BY <1>5, <2>1, <3>1 DEF Shaped, Mirrored
      <4> QED BY <1>3, <3>2, <4>1
    <3>3. CASE i < n /\ e = frames[i + 1].v
      <4>1. i + 1 \in 1..n
        BY <1>1, <2>1, <3>3
      <4> QED BY <1>1, <1>5, <2>1, <3>3, <4>1
    <3> QED BY <2>1, <3>1, <3>2, <3>3 DEF Stacked
  <2> QED BY <2>2, <2>3
<1>11. ASSUME NEW i \in 1..n PROVE G[i + 1].v \in from[G[i].v]
  <2>1. CASE i < n
    <3>1. i + 1 \in 1..n /\ i \in 1..(n - 1)
      BY <1>1, <2>1
    <3> QED BY <1>5, <3>1 DEF Stacked
  <2>2. CASE i = n
    BY <1>1, <1>5, <1>6, <2>2
  <2> QED BY <1>1, <2>1, <2>2
<1>12. Stacked(G, d)
  <2>1. Len(G) - 1 = n
    BY <1>1, <1>4
  <2> HIDE DEF n
  <2> QED BY <1>3, <1>4, <1>7, <1>8, <1>9, <1>10, <1>11, <2>1 DEF Stacked
<1> QED BY <1>12 DEF G, f, d

\* The last call passes over the black vertex u.
LEMMA StackedPass ==
    ASSUME Shaped, NEW frames, NEW c, Stacked(frames, c),
           NEW u \in vertices, c[u] = "black",
           NEW rest \in Seq(Frame), Len(rest) = Len(frames),
           \A i \in 1..Len(frames) :
             /\ rest[i].v = frames[i].v /\ rest[i].left \subseteq frames[i].left
             /\ frames[i].left \ rest[i].left \subseteq {u}
    PROVE  Stacked(rest, c)
<1> DEFINE n == Len(frames)
<1>1. n \in Nat /\ c \in [vertices -> Shades] /\ frames \in Seq(Frame)
  BY DEF Stacked
<1>2. \A i \in 1..n : frames[i].left \subseteq from[frames[i].v]
  BY DEF Stacked
<1>3. {rest[i].v : i \in 1..n} = {frames[i].v : i \in 1..n}
  OBVIOUS
<1>4. ASSUME NEW i \in 1..n, NEW e \in from[rest[i].v] \ rest[i].left
      PROVE  c[e] = "black" \/ (i < n /\ e = rest[i + 1].v)
  <2>1. CASE e \in frames[i].left
    BY <1>4, <2>1
  <2>2. CASE e \notin frames[i].left
    <3>1. c[e] = "black" \/ (i < n /\ e = frames[i + 1].v)
      BY <1>4, <2>2 DEF Stacked
    <3>2. i < n => i + 1 \in 1..n
      BY <1>1
    <3> QED BY <3>1, <3>2
  <2> QED BY <2>1, <2>2
<1>5. ASSUME NEW i \in 1..(n - 1) PROVE rest[i + 1].v \in from[rest[i].v]
  <2>1. i \in 1..n /\ i + 1 \in 1..n
    BY <1>1
  <2> QED BY <2>1 DEF Stacked
<1>6. \A i, j \in 1..n : rest[i].v = rest[j].v => i = j
  BY DEF Stacked
<1>7. Grays(c) = {rest[i].v : i \in 1..n}
  BY <1>3 DEF Stacked
<1> QED BY <1>1, <1>2, <1>4, <1>5, <1>6, <1>7 DEF Stacked

\* The last call ends, and its vertex turns black.
LEMMA StackedEnd ==
    ASSUME Shaped, NEW frames, NEW c, Stacked(frames, c), frames # <<>>,
           Last(frames).left = {}
    PROVE  /\ Last(frames).v \in vertices /\ c[Last(frames).v] = "gray"
           /\ \A u \in from[Last(frames).v] : c[u] = "black"
           /\ Stacked(Front(frames), [c EXCEPT ![Last(frames).v] = "black"])
<1> DEFINE n == Len(frames)
           G == Front(frames)
           v == frames[n].v
           d == [c EXCEPT ![v] = "black"]
<1>1. /\ n \in Nat /\ n >= 1 /\ n \in 1..n /\ c \in [vertices -> Shades] /\ frames \in Seq(Frame)
      /\ Last(frames).v = v /\ frames[n].left = {}
  BY DEF Stacked, Last
<1>2. v \in vertices /\ v \in Grays(c) /\ c[v] = "gray"
  BY <1>1 DEF Stacked, Frame, Grays
<1>3. \A u \in from[v] : c[u] = "black"
  BY <1>1 DEF Stacked
<1>4. /\ G \in Seq(Frame) /\ Len(G) = n - 1
      /\ \A i \in 1..(n - 1) : G[i] = frames[i] /\ i \in 1..n
  <2>1. /\ G \in Seq(Frame) /\ Len(G) = n - 1
        /\ \A i \in 1..(n - 1) : G[i] = frames[i]
    BY <1>1, FrontIs
  <2>2. \A i \in 1..(n - 1) : i \in 1..n
    BY <1>1
  <2> QED BY <2>1, <2>2
<1>5. d \in [vertices -> Shades] /\ d[v] = "black" /\ \A u \in vertices : u # v => d[u] = c[u]
  BY <1>1, <1>2 DEF Shades
<1> HIDE DEF G, d
<1>6. Grays(d) = {G[i].v : i \in 1..(n - 1)}
  <2>1. Grays(d) = Grays(c) \ {v}
    BY <1>5 DEF Grays
  <2>2. ASSUME NEW e \in Grays(c), e # v PROVE \E i \in 1..(n - 1) : G[i].v = e
    <3>1. PICK i \in 1..n : frames[i].v = e
      BY DEF Stacked
    <3>2. i \in 1..(n - 1)
      BY <1>1, <2>2, <3>1
    <3> QED BY <1>4, <3>1, <3>2
  <2>3. ASSUME NEW i \in 1..(n - 1) PROVE G[i].v \in Grays(c) /\ G[i].v # v
    <3>1. i \in 1..n /\ G[i] = frames[i]
      BY <1>4
    <3>2. i # n
      BY <1>1
    <3> QED BY <1>1, <3>1, <3>2 DEF Stacked
  <2> QED BY <2>1, <2>2, <2>3
<1>7. \A i, j \in 1..(n - 1) : G[i].v = G[j].v => i = j
  BY <1>4 DEF Stacked
<1>8. \A i \in 1..(n - 1) : G[i].left \subseteq from[G[i].v]
  BY <1>4 DEF Stacked
<1>9. ASSUME NEW i \in 1..(n - 1), NEW e \in from[G[i].v] \ G[i].left
      PROVE  d[e] = "black" \/ (i < n - 1 /\ e = G[i + 1].v)
  <2>1. c[e] = "black" \/ (i < n /\ e = frames[i + 1].v)
    BY <1>4, <1>9 DEF Stacked
  <2>2. e \in vertices
    <3>1. G[i] \in Frame
      BY <1>4
    <3>2. G[i].v \in vertices
      BY <3>1 DEF Frame
    <3> QED BY <1>9, <3>2 DEF Shaped, Mirrored
  <2>3. CASE c[e] = "black"
    BY <1>5, <2>2, <2>3
  <2>4. CASE e = frames[i + 1].v
    <3>1. CASE i = n - 1
      <4>1. e = v
        BY <1>1, <2>4, <3>1
      <4> QED BY <1>5, <4>1
    <3>2. CASE i < n - 1
      <4>1. i + 1 \in 1..(n - 1)
        BY <1>1, <3>2
      <4> QED BY <1>4, <2>4, <3>2, <4>1
    <3> QED BY <1>1, <3>1, <3>2
  <2> QED BY <2>1, <2>3, <2>4
<1>10. ASSUME NEW i \in 1..(n - 1 - 1) PROVE G[i + 1].v \in from[G[i].v]
  <2>1. i \in 1..(n - 1) /\ i + 1 \in 1..(n - 1)
    BY <1>1
  <2> QED BY <1>4, <2>1 DEF Stacked
<1>11. Stacked(G, d)
  <2> HIDE DEF n, v
  <2> QED BY <1>4, <1>5, <1>6, <1>7, <1>8, <1>9, <1>10 DEF Stacked
<1> QED BY <1>1, <1>2, <1>3, <1>11 DEF G, d

\* A step of a search changes nothing that vertices lead to.
LEMMA LeadsStays ==
    ASSUME UNCHANGED <<graph, op>>
    PROVE  \A S, s : Leads(S, s)' = Leads(S, s)
<1>1. \A v : Successors(v)' = Successors(v)
  BY DEF graph, Successors, Adjacent
<1> QED BY <1>1 DEF Leads

\* What leads to a vertex inside a set does in a larger one.
LEMMA LeadsMore ==
    ASSUME NEW T, NEW S \in SUBSET T, NEW s, NEW v \in Leads(S, s)
    PROVE  v \in Leads(T, s)
<1>1. v \in T
  BY DEF Leads
<1>2. ASSUME NEW C \in SUBSET T, \A u \in C \cup {s} : Successors(u) \cap T \subseteq C
      PROVE  v \in C
  <2>1. C \cap S \in SUBSET S
    OBVIOUS
  <2>2. \A u \in (C \cap S) \cup {s} : Successors(u) \cap S \subseteq C \cap S
    BY <1>2
  <2> QED BY <2>1, <2>2 DEF Leads
<1> QED BY <1>1, <1>2 DEF Leads

\* In Cyclic, what follows a vertex is what its edges lead to.
LEMMA SuccessorsAre ==
    ASSUME Shaped, op = "Cyclic", NEW v \in vertices
    PROVE  Successors(v) = from[v] /\ from[v] \subseteq vertices
BY DEF Shaped, Mirrored, Successors, Adjacent

\* When the last call of visit meets a gray vertex, the calls since its own are
\* those of a cycle.
LEMMA CycleFound ==
    ASSUME Shaped, op = "Cyclic", NEW frames, NEW c, Stacked(frames, c), frames # <<>>,
           NEW u, u \in from[frames[Len(frames)].v], c[u] = "gray", u \in vertices
    PROVE  u \in Leads(Grays(c), u)
<1> DEFINE n == Len(frames)
           S == Grays(c)
<1>1. /\ n \in Nat /\ n \in 1..n /\ u \in S /\ S \subseteq vertices
      /\ \A i \in 1..n : frames[i].v \in S
      /\ \A i \in 1..(n - 1) : frames[i + 1].v \in from[frames[i].v]
  BY DEF Stacked, Grays
<1>2. PICK k \in 1..n : frames[k].v = u
  BY <1>1 DEF Stacked
<1>3. ASSUME NEW C \in SUBSET S, \A x \in C \cup {u} : Successors(x) \cap S \subseteq C
      PROVE  u \in C
  <2> DEFINE Bad == {i \in k..n : frames[i].v \notin C \cup {u}}
  <2>1. Bad = {}
    <3> SUFFICES ASSUME Bad # {} PROVE FALSE
      OBVIOUS
    <3>1. PICK m \in Bad : \A i \in Bad : m <= i
      <4>1. Bad \in SUBSET Nat
        BY <1>1
      <4> HIDE DEF Bad
      <4> QED BY <4>1, LeastNatural
    <3>2. m \in k..n /\ m # k /\ frames[m].v \notin C
      BY <1>2, <3>1
    <3>3. m - 1 \in k..n /\ m - 1 \in 1..(n - 1) /\ m - 1 + 1 = m /\ ~ m <= m - 1
      BY <1>1, <3>2
    <3>4. frames[m - 1].v \in C \cup {u}
      BY <3>1, <3>3
    <3>5. frames[m].v \in from[frames[m - 1].v] /\ frames[m].v \in S
      BY <1>1, <3>2, <3>3
    <3>6. Successors(frames[m - 1].v) = from[frames[m - 1].v]
      BY <1>1, <3>4, SuccessorsAre
    <3> QED BY <1>3, <3>2, <3>4, <3>5, <3>6
  <2>2. n \in k..n
    BY <1>1
  <2>3. frames[n].v \in C \cup {u}
    BY <2>1, <2>2
  <2>4. Successors(frames[n].v) = from[frames[n].v]
    BY <1>1, SuccessorsAre
  <2> QED BY <1>1, <1>3, <2>3, <2>4
<1> HIDE DEF S
<1> QED BY <1>1, <1>3 DEF Leads, S

\* Black vertices stay as they are when another turns gray.
LEMMA SettledVisit ==
    ASSUME NEW c \in [vertices -> Shades], Settled(c), Shaped,
           NEW u \in vertices, c[u] = "white"
    PROVE  Settled([c EXCEPT ![u] = "gray"])
<1> DEFINE d == [c EXCEPT ![u] = "gray"]
<1>1. \A v \in vertices : d[v] = "black" <=> c[v] = "black"
  OBVIOUS
<1>2. \A v \in vertices : from[v] \subseteq vertices
  BY DEF Shaped, Mirrored
<1> HIDE DEF d
<1>3. Settled(d)
  BY <1>1, <1>2 DEF Settled
<1> QED BY <1>3 DEF d

\* A gray vertex that leads to black ones only turns black.
LEMMA SettledEnd ==
    ASSUME NEW c \in [vertices -> Shades], Settled(c), Shaped, op = "Cyclic",
           NEW v \in vertices, c[v] = "gray", \A u \in from[v] : c[u] = "black"
    PROVE  Settled([c EXCEPT ![v] = "black"])
<1> DEFINE d == [c EXCEPT ![v] = "black"]
           B == {u \in vertices : c[u] = "black"}
<1>1. \A u \in vertices : d[u] = "black" <=> c[u] = "black" \/ u = v
  OBVIOUS
<1>2. \A u \in vertices : Successors(u) = from[u] /\ from[u] \subseteq vertices
  BY SuccessorsAre
<1>3. v \notin Leads(vertices, v)
  <2>1. B \in SUBSET vertices /\ v \notin B
    OBVIOUS
  <2>2. \A u \in B \cup {v} : Successors(u) \cap vertices \subseteq B
    BY <1>2 DEF Settled
  <2> QED BY <2>1, <2>2 DEF Leads
<1> HIDE DEF d, B
<1>4. Settled(d)
  BY <1>1, <1>2, <1>3 DEF Settled
<1> QED BY <1>4 DEF d

\* Colors after a step, in terms of the graph before it.
LEMMA ColorsNext ==
    ASSUME UNCHANGED <<graph, op>>,
           color' \in [vertices -> Shades], Settled(color'),
           result' = <<>> \/ result' = <<TRUE>>,
           result' = <<>> => Stacked(pending', color'),
           result' = <<TRUE>> => /\ pending' = <<>>
                                 /\ \E v \in Grays(color') : v \in Leads(Grays(color'), v)
    PROVE  Colors'
<1>1. vertices' = vertices /\ from' = from
  BY DEF graph
<1>2. Settled(color)'
  BY <1>1, LeadsStays DEF Settled
<1>3. result' = <<>> => Stacked(pending, color)'
  BY <1>1 DEF Stacked, Grays, Frame
<1>4. Cycle' = Grays(color')
  BY <1>1 DEF Cycle, Grays
<1>5. (\E v \in Grays(color') : v \in Leads(Grays(color'), v)) =>
        (\E v \in Cycle : v \in Leads(Cycle, v))'
  BY <1>4, LeadsStays
<1> QED BY <1>1, <1>2, <1>3, <1>5 DEF Colors

\* Cyclic begins with white vertices and no call of visit.
LEMMA ColorsBegin ==
    ASSUME Idle, BeginCyclic
    PROVE  Colors'
<1>1. /\ color' = [v \in vertices |-> "white"] /\ vertices' = vertices /\ from' = from
      /\ pending' = <<>> /\ result' = <<>>
  BY DEF BeginCyclic, Idle, graph
<1>2. color' \in [vertices -> Shades] /\ \A v \in vertices : color'[v] = "white"
  BY <1>1 DEF Shades
<1>3. Settled(color)'
  BY <1>1, <1>2 DEF Settled
<1>4. Stacked(pending, color)'
  <2>1. Grays(color') = {}
    BY <1>2 DEF Grays
  <2>2. <<>> \in Seq(Frame) /\ Len(<<>>) = 0 /\ 1..0 = {} /\ 1..(0 - 1) = {}
    OBVIOUS
  <2>3. Stacked(<<>>, color')
    BY <1>2, <2>1, <2>2 DEF Stacked
  <2> QED BY <1>1, <2>3 DEF Stacked, Grays, Frame
<1> QED BY <1>1, <1>2, <1>3, <1>4 DEF Colors

\* Cyclic calls visit.
LEMMA ColorsRoot ==
    ASSUME Shaped, Colors, NEW v \in vertices, VisitRoot(v)
    PROVE  Colors'
<1>1. /\ op = "Cyclic" /\ pending = <<>> /\ result = <<>> /\ color[v] = "white"
      /\ color' = [color EXCEPT ![v] = "gray"] /\ UNCHANGED <<graph, op, result>>
      /\ pending' = Append(<<>>, [v |-> v, left |-> from[v]])
  BY DEF VisitRoot, Visit
<1>2. color \in [vertices -> Shades] /\ Settled(color) /\ Stacked(pending, color)
  BY <1>1 DEF Colors
<1>3. <<>> \in Seq(Frame) /\ Len(<<>>) = 0 /\ 1..0 = {} /\ ~ 0 > 0
  OBVIOUS
<1>4. Stacked(Append(<<>>, [v |-> v, left |-> from[v]]), color')
  BY <1>1, <1>2, <1>3, StackedVisit
<1>5. color' \in [vertices -> Shades] /\ Settled(color')
  BY <1>1, <1>2, SettledVisit DEF Shades
<1> QED BY <1>1, <1>4, <1>5, ColorsNext

\* An iteration of visit's loop.
LEMMA ColorsEdge ==
    ASSUME Shaped, Colors, NEW u \in vertices, VisitEdge(u)
    PROVE  Colors'
<1> DEFINE top  == Last(pending)
           rest == Append(Front(pending), [top EXCEPT !.left = @ \ {u}])
           n    == Len(pending)
<1>1. /\ op = "Cyclic" /\ pending # <<>> /\ u \in top.left /\ UNCHANGED <<graph, op>>
      /\ \/ color[u] = "gray" /\ result' = <<TRUE>> /\ pending' = <<>> /\ color' = color
         \/ Visit(u, rest)
         \/ color[u] = "black" /\ pending' = rest /\ UNCHANGED <<color, result>>
  BY DEF VisitEdge
<1>2. color \in [vertices -> Shades] /\ Settled(color) /\ result = <<>> /\ Stacked(pending, color)
  BY <1>1 DEF Colors
<1>3. /\ pending \in Seq(Frame) /\ n \in Nat /\ n >= 1 /\ top = pending[n] /\ top \in Frame
      /\ \A i \in 1..n : pending[i] \in Frame
  BY <1>1, <1>2 DEF Stacked, Last
<1>4. /\ [top EXCEPT !.left = @ \ {u}] \in Frame
      /\ [top EXCEPT !.left = @ \ {u}].v = top.v
      /\ [top EXCEPT !.left = @ \ {u}].left = top.left \ {u}
  BY <1>3 DEF Frame
<1>5. /\ rest \in Seq(Frame) /\ Len(rest) = n /\ rest[n] = [top EXCEPT !.left = @ \ {u}]
      /\ \A i \in 1..(n - 1) : rest[i] = pending[i]
  <2> DEFINE e == [top EXCEPT !.left = @ \ {u}]
             f == Front(pending)
  <2>1. f \in Seq(Frame) /\ Len(f) = n - 1 /\ \A i \in 1..(n - 1) : f[i] = pending[i]
    BY <1>1, <1>3, FrontIs
  <2>2. e \in Frame
    BY <1>4
  <2> HIDE DEF e, f
  <2>3. /\ Append(f, e) \in Seq(Frame) /\ Len(Append(f, e)) = n /\ Append(f, e)[n] = e
        /\ \A i \in 1..(n - 1) : Append(f, e)[i] = f[i]
    BY <1>3, <2>1, <2>2
  <2> QED BY <2>1, <2>3 DEF e, f
<1> HIDE DEF rest
<1>6. \A i \in 1..n : /\ rest[i].v = pending[i].v /\ rest[i].left \subseteq pending[i].left
                      /\ i < n => rest[i].left = pending[i].left
                      /\ pending[i].left \ rest[i].left \subseteq {u}
  <2> SUFFICES ASSUME NEW i \in 1..n
               PROVE  /\ rest[i].v = pending[i].v /\ rest[i].left \subseteq pending[i].left
                      /\ i < n => rest[i].left = pending[i].left
                      /\ pending[i].left \ rest[i].left \subseteq {u}
    OBVIOUS
  <2>1. CASE i = n
    <3>1. rest[i].v = top.v /\ rest[i].left = top.left \ {u} /\ pending[i] = top
      BY <1>3, <1>4, <1>5, <2>1
    <3>2. ~ i < n
      BY <1>3, <2>1
    <3> HIDE DEF top
    <3> QED BY <3>1, <3>2, Zenon
  <2>2. CASE i \in 1..(n - 1)
    BY <1>5, <2>2
  <2> QED BY <1>3, <2>1, <2>2
<1>7. u \in from[pending[n].v]
  BY <1>1, <1>2, <1>3 DEF Stacked
<1>8. CASE color[u] = "gray" /\ result' = <<TRUE>> /\ pending' = <<>> /\ color' = color
  <2>1. u \in Leads(Grays(color), u) /\ u \in Grays(color)
    BY <1>1, <1>2, <1>7, <1>8, CycleFound DEF Grays
  <2>2. <<TRUE>> # <<>>
    OBVIOUS
  <2> QED BY <1>1, <1>2, <1>8, <2>1, <2>2, ColorsNext
<1>9. CASE Visit(u, rest)
  <2>1. /\ color[u] = "white" /\ color' = [color EXCEPT ![u] = "gray"] /\ result' = <<>>
        /\ pending' = Append(rest, [v |-> u, left |-> from[u]])
    BY <1>2, <1>9 DEF Visit
  <2>2. Stacked(pending', color')
    BY <1>2, <1>5, <1>6, <1>7, <2>1, StackedVisit
  <2>3. color' \in [vertices -> Shades] /\ Settled(color')
    BY <1>2, <2>1, SettledVisit DEF Shades
  <2>4. <<TRUE>> # <<>>
    OBVIOUS
  <2> QED BY <1>1, <2>1, <2>2, <2>3, <2>4, ColorsNext
<1>10. CASE color[u] = "black" /\ pending' = rest /\ UNCHANGED <<color, result>>
  <2>1. Stacked(rest, color)
    BY <1>2, <1>5, <1>6, <1>10, StackedPass
  <2>2. <<TRUE>> # <<>>
    OBVIOUS
  <2> QED BY <1>1, <1>2, <1>10, <2>1, <2>2, ColorsNext
<1> QED BY <1>1, <1>8, <1>9, <1>10

\* A call of visit ends.
LEMMA ColorsEnd ==
    ASSUME Shaped, Colors, VisitEnd
    PROVE  Colors'
<1> DEFINE v == Last(pending).v
<1>1. /\ op = "Cyclic" /\ pending # <<>> /\ Last(pending).left = {}
      /\ color' = [color EXCEPT ![v] = "black"] /\ pending' = Front(pending)
      /\ UNCHANGED <<graph, op, result>>
  BY DEF VisitEnd
<1>2. color \in [vertices -> Shades] /\ Settled(color) /\ result = <<>> /\ Stacked(pending, color)
  BY <1>1 DEF Colors
<1>3. /\ v \in vertices /\ color[v] = "gray" /\ \A u \in from[v] : color[u] = "black"
      /\ Stacked(pending', color')
  BY <1>1, <1>2, StackedEnd
<1> HIDE DEF v
<1>4. color' \in [vertices -> Shades] /\ Settled(color')
  BY <1>1, <1>2, <1>3, SettledEnd DEF Shades
<1>5. <<TRUE>> # <<>>
  OBVIOUS
<1> QED BY <1>1, <1>2, <1>3, <1>4, <1>5, ColorsNext

\* When Cyclic is over, its answer is right.
LEMMA ColorsEnds ==
    ASSUME Shaped, Colors, op = "Cyclic", Over
    PROVE  /\ (result = <<TRUE>>) = (\E v \in vertices : v \in Leads(vertices, v))
           /\ (result = <<TRUE>>) = (\E v \in Cycle : v \in Leads(Cycle, v))
<1>1. CASE result = <<TRUE>>
  <2>1. PICK v \in Cycle : v \in Leads(Cycle, v)
    BY <1>1 DEF Colors
  <2>2. Cycle \subseteq vertices
    BY DEF Cycle
  <2>3. v \in vertices /\ v \in Leads(vertices, v)
    BY <2>1, <2>2, LeadsMore
  <2> QED BY <1>1, <2>1, <2>3
<1>2. CASE result = <<>>
  <2>1. <<TRUE>> # <<>>
    OBVIOUS
  <2>2. /\ pending = <<>> /\ \A v \in vertices : color[v] # "white"
        /\ color \in [vertices -> Shades] /\ Settled(color) /\ Stacked(pending, color)
    BY <1>2 DEF Over, Colors
  <2>3. Len(<<>>) = 0 /\ 1..0 = {}
    OBVIOUS
  <2>4. Grays(color) = {} /\ Cycle = {}
    BY <2>2, <2>3 DEF Stacked, Grays, Cycle
  <2>5. \A v \in vertices : v \notin Leads(vertices, v)
    <3>1. \A v \in vertices : color[v] = "black"
      BY <2>2, <2>4 DEF Grays, Shades
    <3> QED BY <2>2, <3>1 DEF Settled
  <2> QED BY <1>2, <2>1, <2>4, <2>5
<1> QED BY <1>1, <1>2 DEF Colors

\* What holds between the steps of the searches.
Searching == Shaped /\ op \in Ops /\ (op = "none" => Idle) /\ Breadth /\ Depth /\ Colors

\* Searching is kept by the steps that change the graph.
LEMMA SearchingEdit ==
    ASSUME Searching, Edit
    PROVE  Searching'
<1>1. op = "none" /\ UNCHANGED search /\ vertices' \subseteq Vertex /\ IsFiniteSet(vertices')
  <2>1. ASSUME NEW v \in Vertex, Add(v) \/ RemoveVertex(v)
        PROVE  op = "none" /\ UNCHANGED search /\ vertices' \subseteq Vertex /\ IsFiniteSet(vertices')
    BY <2>1, FS_AddElement, FS_RemoveElement DEF Add, RemoveVertex, Searching, Shaped
  <2>2. ASSUME NEW u \in Vertex, NEW v \in Vertex, AddEdge(u, v) \/ RemoveEdge(u, v)
        PROVE  op = "none" /\ UNCHANGED search /\ vertices' \subseteq Vertex /\ IsFiniteSet(vertices')
    <3>1. vertices \cup {u, v} = (vertices \cup {u}) \cup {v}
      OBVIOUS
    <3>2. IsFiniteSet(vertices \cup {u, v})
      BY <3>1, FS_AddElement DEF Searching, Shaped
    <3> QED BY <2>2, <3>2 DEF AddEdge, RemoveEdge, Searching, Shaped
  <2>3. CASE Transpose
    BY <2>3 DEF Transpose, Searching, Shaped
  <2> QED BY <2>1, <2>2, <2>3 DEF Edit
<1>2. Mirrored'
  BY MirroredStep DEF Searching, Shaped, GraphNext
<1> QED BY <1>1, <1>2 DEF Searching, Shaped, Ops, Idle, Breadth, Depth, Colors, search

\* Searching is kept by the steps of the searches.
LEMMA SearchingSearch ==
    ASSUME Searching, Search
    PROVE  Searching'
<1>1. UNCHANGED graph
  BY DEF Search, BeginDFS, BeginBFS, StepBFS, StepDFS, BeginCyclic,
         VisitEnd, VisitRoot, VisitEdge, Return
<1>2. Shaped'
  BY <1>1 DEF Searching, Shaped, Mirrored, graph
<1>3. ASSUME NEW v \in Vertex, BeginDFS(v) PROVE Searching'
  <2>1. op' = "DFS" /\ Depth'
    BY <1>3, DepthBegins DEF Searching, BeginDFS
  <2> QED BY <1>2, <2>1 DEF Searching, Ops, Breadth, Colors
<1>4. ASSUME NEW v \in Vertex, NEW o \in {"BFS", "BFSReverse"}, BeginBFS(o, v) PROVE Searching'
  <2>1. op' \in {"BFS", "BFSReverse"} /\ Breadth'
    BY <1>4, BreadthBegins DEF Searching, BeginBFS
  <2> QED BY <1>2, <2>1 DEF Searching, Ops, Depth, Colors
<1>5. CASE StepBFS
  <2>1. op' = op /\ op \in {"BFS", "BFSReverse"} /\ Breadth'
    BY <1>5, BreadthStep DEF Searching, StepBFS
  <2> QED BY <1>2, <2>1 DEF Searching, Ops, Depth, Colors
<1>6. CASE StepDFS
  <2>1. op' = "DFS" /\ Depth'
    BY <1>6, DepthStep DEF Searching, StepDFS
  <2> QED BY <1>2, <2>1 DEF Searching, Ops, Breadth, Colors
<1>7. CASE BeginCyclic
  <2>1. op' = "Cyclic" /\ Colors'
    BY <1>7, ColorsBegin DEF Searching, BeginCyclic
  <2> QED BY <1>2, <2>1 DEF Searching, Ops, Breadth, Depth
<1>8. CASE VisitEnd
  <2>1. op' = "Cyclic" /\ Colors'
    BY <1>8, ColorsEnd DEF Searching, VisitEnd
  <2> QED BY <1>2, <2>1 DEF Searching, Ops, Breadth, Depth
<1>9. ASSUME NEW v \in vertices, VisitRoot(v) \/ VisitEdge(v) PROVE Searching'
  <2>1. op' = "Cyclic" /\ Colors'
    BY <1>9, ColorsRoot, ColorsEdge DEF Searching, VisitRoot, VisitEdge
  <2> QED BY <1>2, <2>1 DEF Searching, Ops, Breadth, Depth
<1>10. CASE Return
  BY <1>2, <1>10 DEF Return, Over, Searching, Ops, Idle, Breadth, Depth, Colors
<1> QED BY <1>3, <1>4, <1>5, <1>6, <1>7, <1>8, <1>9, <1>10 DEF Search

\* Searching makes what a search that is over returns right.
LEMMA SearchingEnds ==
    ASSUME Searching
    PROVE  SearchesRight
<1> SUFFICES ASSUME Over PROVE SearchesRight
  BY DEF SearchesRight
<1>1. CASE op = "Cyclic"
  BY <1>1, ColorsEnds DEF Searching, SearchesRight
<1>2. CASE op # "Cyclic"
  <2>1. pending = <<>> /\ op \in {"BFS", "BFSReverse", "DFS"}
    BY <1>2 DEF Over, Searching, Ops
  <2> QED BY <1>2, <2>1, BreadthEnds, DepthEnds DEF Searching, SearchesRight
<1> QED BY <1>1, <1>2

\* Whatever graph the edits made, of any finite number of vertices, and in
\* whatever order the maps are visited: BFS, BFSReverse and DFS return the
\* vertices that can be reached, each once, in an order that is breadth first or
\* depth first; Cyclic answers whether there is a cycle, and the vertices Cycle
\* returns contain one.
THEOREM SearchesAreRight == GraphSpec => []SearchesRight
<1>1. NewGraph => Searching
  <2>1. IsFiniteSet({})
    BY FS_EmptySet
  <2> QED BY <2>1 DEF NewGraph, Searching, Shaped, Mirrored, Ops, Idle, Breadth, Depth, Colors
<1>2. Searching /\ [GraphNext]_graphVars => Searching'
  <2> SUFFICES ASSUME Searching, [GraphNext]_graphVars PROVE Searching'
    OBVIOUS
  <2>1. CASE UNCHANGED graphVars
    <3>1. UNCHANGED <<graph, op>> /\ UNCHANGED search
      BY <2>1 DEF graphVars, search
    <3>2. Edges' = Edges
      BY <3>1, OnwardStays DEF Edges
    <3>3. Breadth' /\ Depth'
      <4>1. op' = op /\ result' = result /\ pending' = pending /\ visited' = visited
        BY <3>1 DEF search
      <4>2. result' \o pending' = result \o pending /\ Len(result') = Len(result)
        BY <4>1
      <4>3. Breadth'
        <5>1. CASE op \in {"BFS", "BFSReverse"}
          <6>1. Broad(Edges, result \o pending, Len(result), visited)
            BY <5>1 DEF Searching, Breadth
          <6>2. Broad(Edges', result' \o pending', Len(result'), visited')
            BY <3>2, <4>1, <4>2, <6>1
          <6>3. result \in Seq(Vertex) /\ pending \in Seq(Vertex)
            BY <5>1 DEF Searching, Breadth
          <6> QED BY <4>1, <6>2, <6>3 DEF Breadth, Broad
        <5> QED BY <4>1, <5>1 DEF Breadth
      <4>4. Depth'
        BY <3>2, <4>1 DEF Searching, Depth, Deep, Waits
      <4> QED BY <4>3, <4>4
    <3>4. Colors'
      <4>1. CASE op = "Cyclic"
        <5>1. Cycle = Grays(color)
          BY DEF Cycle, Grays
        <5>2. UNCHANGED <<color, result, pending>>
          BY <3>1 DEF search
        <5> QED BY <3>1, <4>1, <5>1, <5>2, ColorsNext DEF Searching, Colors
      <4> QED BY <3>1, <4>1 DEF Colors
    <3>5. Shaped' /\ op' \in Ops /\ (op' = "none" => Idle')
      BY <3>1 DEF Searching, Shaped, Mirrored, Idle, graph, search
    <3> QED BY <3>3, <3>4, <3>5 DEF Searching, Ops
  <2> QED BY <2>1, SearchingEdit, SearchingSearch DEF GraphNext
<1>3. Searching => SearchesRight
  BY SearchingEnds
<1> QED BY <1>1, <1>2, <1>3, PTL DEF GraphSpec

-----------------------------------------------------------------------------
(* The limiter *)

\* Interval and Slack are not negative.
LEMMA SlackType == Interval \in Nat /\ Slack \in Nat
BY LimiterConstants DEF Interval, Slack

\* What RateKept needs to be carried from step to step: from the first operation
\* after the marked one on, what was spent is covered by the time up to last,
\* the saved sleep still due, Slack and one operation; a goroutine that sleeps
\* has paid for its own operation already (Wait).
LimiterInv ==
    /\ clock \in Nat /\ spent \in Nat /\ asleep \in BOOLEAN
    /\ sleep \in Int /\ -Slack <= sleep /\ sleep <= 0
    /\ last \subseteq Int /\ \A x, y \in last : x = y
    /\ mark \subseteq Nat /\ \A x, y \in mark : x = y
    /\ \A m \in mark : m <= clock
    /\ mark # {} => last # {}
    /\ ~asleep => \A l \in last : l <= clock
    /\ asleep => sleep = 0 /\ last # {}
    /\ \A m \in mark, l \in last :
         /\ asleep => spent <= (l - m) + Slack
         /\ ~asleep /\ spent > 0 => spent <= (l - m) + sleep + Slack + Interval
    /\ RateKept

\* A call that is let pass at once (Wait).
LEMMA LimiterPasses == LimiterInv /\ WaitPasses => LimiterInv'
<1> SUFFICES ASSUME LimiterInv, WaitPasses PROVE LimiterInv'
  OBVIOUS
<1> USE SlackType DEF LimiterInv
<1>1. PICK l \in last : /\ ~asleep /\ Due(l) <= 0
                        /\ sleep' = Due(l)
                        /\ last' = {clock}
                        /\ Pass
                        /\ UNCHANGED <<clock, asleep>>
  BY DEF WaitPasses
<1>2. /\ sleep' \in Int /\ -Slack <= sleep' /\ sleep' <= 0
      /\ sleep' >= sleep + Interval - (clock - l)
  BY <1>1 DEF Due
<1>3. CASE mark' = {clock} /\ spent' = 0
  BY <1>1, <1>2, <1>3 DEF RateKept
<1>4. CASE mark' = mark /\ mark = {} /\ spent' = 0
  BY <1>1, <1>2, <1>4 DEF RateKept
<1>5. CASE mark' = mark /\ mark # {} /\ spent' = spent + Interval
  <2>1. ASSUME NEW m \in mark
        PROVE  spent' <= (clock - m) + sleep' + Slack + Interval
    <3>1. CASE spent > 0
      BY <1>1, <1>2, <1>5, <2>1, <3>1
    <3>2. CASE spent = 0
      BY <1>1, <1>2, <1>5, <2>1, <3>2
    <3> QED BY <3>1, <3>2
  <2> QED BY <1>1, <1>2, <1>5, <2>1 DEF RateKept
<1> QED BY <1>1, <1>3, <1>4, <1>5 DEF Pass

\* A call that has to sleep (Wait).
LEMMA LimiterSleeps == LimiterInv /\ WaitSleeps => LimiterInv'
<1> SUFFICES ASSUME LimiterInv, WaitSleeps PROVE LimiterInv'
  OBVIOUS
<1> USE SlackType DEF LimiterInv
<1>1. PICK l \in last : /\ ~asleep /\ Due(l) > 0
                        /\ sleep' = 0
                        /\ last' = {clock + Due(l)}
                        /\ asleep' = TRUE
                        /\ UNCHANGED <<clock, mark, spent>>
  BY DEF WaitSleeps
<1>2. Due(l) \in Int /\ Due(l) = sleep + Interval - (clock - l)
  BY <1>1 DEF Due
<1>3. ASSUME NEW m \in mark PROVE spent <= ((clock + Due(l)) - m) + Slack
  BY <1>1, <1>2, <1>3
<1> QED BY <1>1, <1>2, <1>3 DEF RateKept

\* A call whose sleep is over (Wait).
LEMMA LimiterWakes == LimiterInv /\ Wake => LimiterInv'
<1> SUFFICES ASSUME LimiterInv, Wake PROVE LimiterInv'
  OBVIOUS
<1> USE SlackType DEF LimiterInv
<1>1. PICK l \in last : /\ asleep /\ l <= clock
                        /\ asleep' = FALSE
                        /\ Pass
                        /\ UNCHANGED <<clock, last, sleep>>
  BY DEF Wake
<1>2. /\ \A x \in last : x = l
      /\ sleep = 0 /\ clock \in Nat /\ spent \in Nat /\ l \in Int
  BY <1>1
<1>2a. /\ clock' = clock /\ last' = last /\ sleep' = sleep /\ asleep' = FALSE
       /\ \A x \in last' : x <= clock'
  BY <1>1, <1>2
<1>3. CASE mark' = {clock} /\ spent' = 0
  <2>1. RateKept'
    BY <1>1, <1>2, <1>3 DEF RateKept
  <2>2. /\ mark' \subseteq Nat /\ \A x, y \in mark' : x = y
        /\ (\A m \in mark' : m <= clock') /\ spent' \in Nat /\ ~(spent' > 0)
    BY <1>2, <1>3, <1>2a
  <2> QED BY <1>1, <1>2, <1>2a, <2>1, <2>2
<1>4. CASE mark' = mark /\ mark = {} /\ spent' = 0
  <2>1. RateKept'
    BY <1>1, <1>4 DEF RateKept
  <2> QED BY <1>1, <1>2, <1>4, <2>1
<1>5. CASE mark' = mark /\ mark # {} /\ spent' = spent + Interval
  <2>1. RateKept'
    BY <1>1, <1>2, <1>5 DEF RateKept
  <2>2. \A m \in mark' : \A x \in last' :
          spent' <= (x - m) + sleep' + Slack + Interval
    BY <1>1, <1>2, <1>5
  <2>3. /\ mark' \subseteq Nat /\ \A x, y \in mark' : x = y
        /\ (\A m \in mark' : m <= clock') /\ spent' \in Nat
    BY <1>2, <1>5, <1>2a
  <2> QED BY <1>1, <1>2, <1>2a, <2>1, <2>2, <2>3
<1> QED BY <1>1, <1>3, <1>4, <1>5 DEF Pass

\* After any operation the limiter lets no more pass than its rate allows for the
\* time since and what it saves, for any rate and resolution of the clock, however
\* long the calls are apart and the sleeps last (Wait).
THEOREM LimiterKeepsRate == LimiterSpec => []RateKept
<1>1. NewLimiter => LimiterInv
  <2> SUFFICES ASSUME NewLimiter PROVE LimiterInv
    OBVIOUS
  <2>1. /\ clock \in Nat /\ spent \in Nat /\ sleep \in Int
        /\ -Slack <= sleep /\ sleep <= 0
    BY SlackType DEF NewLimiter
  <2>2. last = {} /\ mark = {} /\ asleep = FALSE
    BY DEF NewLimiter
  <2> QED BY <2>1, <2>2 DEF LimiterInv, RateKept
<1>2. LimiterInv /\ [LimiterNext]_limiterVars => LimiterInv'
  <2> SUFFICES ASSUME LimiterInv, [LimiterNext]_limiterVars PROVE LimiterInv'
    OBVIOUS
  <2>1. CASE Tick
    BY <2>1, SlackType DEF Tick, LimiterInv, RateKept
  <2>2. CASE WaitFirst
    BY <2>2, SlackType DEF WaitFirst, Pass, LimiterInv, RateKept
  <2>3. CASE UNCHANGED limiterVars
    BY <2>3 DEF limiterVars, LimiterInv, RateKept
  <2> QED BY <2>1, <2>2, <2>3, LimiterPasses, LimiterSleeps, LimiterWakes
          DEF LimiterNext
<1>3. LimiterInv => RateKept
  BY DEF LimiterInv
<1> QED BY <1>1, <1>2, <1>3, PTL DEF LimiterSpec

-----------------------------------------------------------------------------
(* Commands that do not conflict *)

StoreType == [data    : [StoreKey -> StoreValue \union {NoValue}],
              version : Nat,
              history : [StoreKey -> Seq(StoreValue)]]

\* Two commands that do not conflict end in the same store, and get the same
\* answers, in either order, for any keys, values and store (Conflict, Execute).
THEOREM FreeCommandsCommute ==
    ASSUME NEW st \in StoreType, NEW c \in Commands, NEW d \in Commands,
           ~Conflict(c, d)
    PROVE  /\ Stored(Stored(st, c), d) = Stored(Stored(st, d), c)
           /\ Previous(Stored(st, c), d) = Previous(st, d)
           /\ Previous(Stored(st, d), c) = Previous(st, c)
<1>1. CASE c.value = NoValue /\ d.value = NoValue
  BY <1>1 DEF Stored
<1>2. CASE c.key # d.key
  <2>1. c.key \in StoreKey /\ d.key \in StoreKey
    BY DEF Commands
  <2>2. CASE c.value = NoValue \/ d.value = NoValue
    BY <1>2, <2>1, <2>2 DEF Stored, Previous, StoreType
  <2>3. CASE c.value # NoValue /\ d.value # NoValue
    <3> DEFINE a == Stored(st, c)
               b == Stored(st, d)
    <3>1. /\ a.data = [st.data EXCEPT ![c.key] = c.value]
          /\ a.version = st.version + 1
          /\ a.history = [st.history EXCEPT ![c.key] = Append(@, c.value)]
      BY <2>3 DEF Stored
    <3>2. /\ b.data = [st.data EXCEPT ![d.key] = d.value]
          /\ b.version = st.version + 1
          /\ b.history = [st.history EXCEPT ![d.key] = Append(@, d.value)]
      BY <2>3 DEF Stored
    <3>3. Stored(a, d) = [data    |-> [a.data EXCEPT ![d.key] = d.value],
                          version |-> a.version + 1,
                          history |-> [a.history EXCEPT ![d.key] = Append(@, d.value)]]
      BY <2>3 DEF Stored
    <3>4. Stored(b, c) = [data    |-> [b.data EXCEPT ![c.key] = c.value],
                          version |-> b.version + 1,
                          history |-> [b.history EXCEPT ![c.key] = Append(@, c.value)]]
      BY <2>3 DEF Stored
    <3> HIDE DEF a, b
    <3>5. [a.data EXCEPT ![d.key] = d.value] = [b.data EXCEPT ![c.key] = c.value]
      BY <1>2, <2>1, <3>1, <3>2 DEF StoreType
    <3>6. [a.history EXCEPT ![d.key] = Append(@, d.value)]
            = [b.history EXCEPT ![c.key] = Append(@, c.value)]
      <4> DEFINE hc == Append(st.history[c.key], c.value)
                 hd == Append(st.history[d.key], d.value)
                 H  == st.history
      <4>1. H \in [StoreKey -> Seq(StoreValue)]
        BY DEF StoreType
      <4>2. /\ a.history = [H EXCEPT ![c.key] = hc]
            /\ b.history = [H EXCEPT ![d.key] = hd]
        BY <3>1, <3>2
      <4>3. /\ Append(a.history[d.key], d.value) = hd
            /\ Append(b.history[c.key], c.value) = hc
        BY <1>2, <2>1, <4>1, <4>2
      <4> HIDE DEF hc, hd, H
      <4>4. [[H EXCEPT ![c.key] = hc] EXCEPT ![d.key] = hd]
              = [[H EXCEPT ![d.key] = hd] EXCEPT ![c.key] = hc]
        BY <1>2, <2>1, <4>1
      <4> QED BY <4>2, <4>3, <4>4
    <3>7. a.data[d.key] = st.data[d.key] /\ b.data[c.key] = st.data[c.key]
      BY <1>2, <2>1, <3>1, <3>2 DEF StoreType
    <3> QED BY <3>1, <3>2, <3>3, <3>4, <3>5, <3>6, <3>7 DEF Previous, a, b
  <2> QED BY <2>2, <2>3
<1> QED BY <1>1, <1>2 DEF Conflict, IsRead

\* The store after the first n commands, n from 0 on.
Stepwise(st, b, n, f) ==
    f = [i \in 0..n |-> IF i = 0 THEN st ELSE Stored(f[i - 1], b[i])]

\* A batch can be executed command by command, however long it is.
LEMMA StepwiseExists ==
    ASSUME NEW st, NEW b, NEW n \in Nat
    PROVE  \E f : Stepwise(st, b, n, f)
<1> DEFINE Bad == {k \in Nat : ~\E f : Stepwise(st, b, k, f)}
<1> SUFFICES ASSUME Bad # {} PROVE FALSE
  OBVIOUS
<1>1. PICK m \in Bad : \A k \in Bad : m <= k
  BY LeastNatural
<1>2. m # 0
  <2>1. Stepwise(st, b, 0, [i \in 0..0 |-> st])
    BY DEF Stepwise
  <2> QED BY <2>1
<1>3. m - 1 \in Nat /\ m - 1 \notin Bad
  BY <1>1, <1>2
<1>4. PICK g : Stepwise(st, b, m - 1, g)
  BY <1>3
<1> DEFINE f == [i \in 0..m |-> IF i < m THEN g[i] ELSE Stored(g[m - 1], b[m])]
<1>5. ASSUME NEW i \in 0..m
      PROVE  f[i] = IF i = 0 THEN st ELSE Stored(f[i - 1], b[i])
  <2>1. CASE i = m
    BY <1>2, <1>3, <2>1
  <2>2. CASE i # m
    <3>1. i \in 0..(m - 1)
      BY <2>2
    <3>2. g[i] = IF i = 0 THEN st ELSE Stored(g[i - 1], b[i])
      BY <1>4, <3>1 DEF Stepwise
    <3>3. f[i] = g[i] /\ (i # 0 => f[i - 1] = g[i - 1])
      BY <3>1
    <3> QED BY <3>2, <3>3
  <2> QED BY <2>1, <2>2
<1>6. Stepwise(st, b, m, f)
  BY <1>5 DEF Stepwise
<1> QED BY <1>6

\* Batches that agree up to place m lead to the same store there.
LEMMA StepwiseAgrees ==
    ASSUME NEW st, NEW b, NEW c, NEW n \in Nat, NEW m \in 0..n, NEW f, NEW g,
           Stepwise(st, b, n, f), Stepwise(st, c, m, g), \A i \in 1..m : b[i] = c[i]
    PROVE  f[m] = g[m]
<1> DEFINE Bad == {i \in 0..m : f[i] # g[i]}
<1> SUFFICES ASSUME Bad # {} PROVE FALSE
  OBVIOUS
<1>1. PICK j \in Bad : \A k \in Bad : j <= k
  <2>1. Bad \in SUBSET Nat
    OBVIOUS
  <2> HIDE DEF Bad
  <2> QED BY <2>1, LeastNatural
<1>2. /\ f[j] = IF j = 0 THEN st ELSE Stored(f[j - 1], b[j])
      /\ g[j] = IF j = 0 THEN st ELSE Stored(g[j - 1], c[j])
  <2> j \in 0..n /\ j \in 0..m
    OBVIOUS
  <2> HIDE DEF Bad
  <2> QED BY DEF Stepwise
<1>3. j # 0
  BY <1>2
<1>4. j - 1 \in 0..m /\ j - 1 \notin Bad
  BY <1>1, <1>3
<1>5. f[j - 1] = g[j - 1] /\ b[j] = c[j]
  BY <1>3, <1>4
<1> QED BY <1>2, <1>5

\* Run is the store after the last of these steps.
LEMMA RunStepwise ==
    ASSUME NEW st, NEW b \in Seq(Commands)
    PROVE  \E f : Stepwise(st, b, Len(b), f) /\ Run(st, b) = f[Len(b)]
<1> DEFINE g == CHOOSE f : Stepwise(st, b, Len(b), f)
<1>1. Stepwise(st, b, Len(b), g)
  <2>1. Len(b) \in Nat
    OBVIOUS
  <2> QED BY <2>1, StepwiseExists
<1>2. Run(st, b) = g[Len(b)]
  BY DEF Run, Stepwise
<1> QED BY <1>1, <1>2

\* An empty batch leaves the store alone.
LEMMA RunEmpty ==
    ASSUME NEW st
    PROVE  Run(st, <<>>) = st
<1>1. <<>> \in Seq(Commands) /\ Len(<<>>) = 0
  OBVIOUS
<1>2. PICK f : Stepwise(st, <<>>, 0, f) /\ Run(st, <<>>) = f[0]
  BY <1>1, RunStepwise
<1> QED BY <1>2 DEF Stepwise

\* A longer batch executes one command more.
LEMMA RunAppend ==
    ASSUME NEW st, NEW b \in Seq(Commands), NEW c \in Commands
    PROVE  Run(st, Append(b, c)) = Stored(Run(st, b), c)
<1> DEFINE n == Len(b)
           long == Append(b, c)
<1>1. /\ n \in Nat /\ long \in Seq(Commands) /\ Len(long) = n + 1 /\ long[n + 1] = c
      /\ \A i \in 1..n : long[i] = b[i]
  BY AppendProperties
<1>2. PICK f : Stepwise(st, b, n, f) /\ Run(st, b) = f[n]
  BY RunStepwise
<1>3. PICK g : Stepwise(st, long, n + 1, g) /\ Run(st, long) = g[n + 1]
  BY <1>1, RunStepwise
<1> HIDE DEF n, long
<1>4. g[n] = f[n]
  BY <1>1, <1>2, <1>3, StepwiseAgrees, n \in 0..(n + 1)
<1>5. g[n + 1] = Stored(g[n], c)
  <2>1. n + 1 \in 0..(n + 1) /\ n + 1 # 0 /\ (n + 1) - 1 = n
    BY <1>1
  <2>2. g[n + 1] = Stored(g[(n + 1) - 1], long[n + 1])
    BY <1>3, <2>1 DEF Stepwise
  <2> QED BY <1>1, <2>1, <2>2
<1> QED BY <1>2, <1>3, <1>4, <1>5 DEF long

\* A command leaves a store.
LEMMA StoredType ==
    ASSUME NEW st \in StoreType, NEW c \in Commands
    PROVE  Stored(st, c) \in StoreType
<1>1. CASE c.value = NoValue
  BY <1>1 DEF Stored
<1>2. CASE c.value # NoValue
  <2>1. c.key \in StoreKey /\ c.value \in StoreValue
    BY <1>2 DEF Commands
  <2>2. Append(st.history[c.key], c.value) \in Seq(StoreValue)
    BY <2>1, AppendProperties DEF StoreType
  <2> QED BY <1>2, <2>1, <2>2 DEF Stored, StoreType
<1> QED BY <1>1, <1>2

\* A batch leaves a store.
LEMMA RunType ==
    ASSUME NEW st \in StoreType
    PROVE  \A b \in Seq(Commands) : Run(st, b) \in StoreType
<1> DEFINE T == {b \in Seq(Commands) : Run(st, b) \in StoreType}
<1>1. <<>> \in T
  <2>1. <<>> \in Seq(Commands) /\ Run(st, <<>>) \in StoreType
    BY RunEmpty
  <2> QED BY <2>1
<1>2. ASSUME NEW b \in T, NEW c \in Commands PROVE Append(b, c) \in T
  <2>1. b \in Seq(Commands) /\ Run(st, b) \in StoreType
    OBVIOUS
  <2>2. Append(b, c) \in Seq(Commands) /\ Run(st, Append(b, c)) \in StoreType
    BY <2>1, AppendProperties, RunAppend, StoredType
  <2> QED BY <2>2
<1>3. T \in SUBSET Seq(Commands)
  OBVIOUS
<1> HIDE DEF T
<1>4. T = Seq(Commands)
  BY <1>1, <1>2, <1>3, AllSequences
<1> QED BY <1>4 DEF T

\* What does not conflict with a command of a batch passes the batch.
LEMMA CommandPasses ==
    ASSUME NEW st \in StoreType, NEW c \in Commands
    PROVE  \A b \in Seq(Commands) : (\A i \in DOMAIN b : ~Conflict(b[i], c)) =>
               /\ Stored(Run(st, b), c) = Run(Stored(st, c), b)
               /\ Previous(Run(st, b), c) = Previous(st, c)
<1> DEFINE Free(b) == \A i \in DOMAIN b : ~Conflict(b[i], c)
           Passes(b) == /\ Stored(Run(st, b), c) = Run(Stored(st, c), b)
                        /\ Previous(Run(st, b), c) = Previous(st, c)
           T == {b \in Seq(Commands) : Free(b) => Passes(b)}
<1>1. <<>> \in T
  <2>1. <<>> \in Seq(Commands) /\ Passes(<<>>)
    BY RunEmpty
  <2> QED BY <2>1
<1>2. ASSUME NEW b \in T, NEW d \in Commands PROVE Append(b, d) \in T
  <2>1. b \in Seq(Commands) /\ Append(b, d) \in Seq(Commands)
    BY AppendProperties
  <2>2. ASSUME Free(Append(b, d)) PROVE Passes(Append(b, d))
    <3>1. Free(b) /\ ~Conflict(d, c)
      <4>1. /\ DOMAIN b = 1..Len(b) /\ DOMAIN Append(b, d) = 1..(Len(b) + 1)
            /\ Len(b) \in Nat /\ Append(b, d)[Len(b) + 1] = d
            /\ \A i \in 1..Len(b) : Append(b, d)[i] = b[i]
        BY <2>1, AppendProperties, LenProperties
      <4> QED BY <2>2, <4>1
    <3>2. Passes(b)
      BY <3>1
    <3> DEFINE s == Run(st, b)
    <3>3. s \in StoreType /\ Stored(st, c) \in StoreType
      BY <2>1, RunType, StoredType
    <3> HIDE DEF s
    <3>4. /\ Stored(Stored(s, d), c) = Stored(Stored(s, c), d)
          /\ Previous(Stored(s, d), c) = Previous(s, c)
      BY <3>1, <3>3, FreeCommandsCommute
    <3>5. Run(st, Append(b, d)) = Stored(s, d)
      BY <2>1, RunAppend DEF s
    <3>6. Run(Stored(st, c), Append(b, d)) = Stored(Run(Stored(st, c), b), d)
      BY <2>1, RunAppend
    <3>7. Stored(s, c) = Run(Stored(st, c), b) /\ Previous(s, c) = Previous(st, c)
      BY <3>2 DEF s
    <3> QED BY <3>4, <3>5, <3>6, <3>7
  <2> QED BY <2>1, <2>2
<1>3. T \in SUBSET Seq(Commands)
  OBVIOUS
<1> HIDE DEF T
<1>4. T = Seq(Commands)
  BY <1>1, <1>2, <1>3, AllSequences
<1> QED BY <1>4 DEF T

\* Two batches that do not conflict leave the same store in either order.
LEMMA BatchPasses ==
    ASSUME NEW st \in StoreType, NEW a \in Seq(Commands)
    PROVE  \A b \in Seq(Commands) : ~ConflictBatch(a, b) =>
               Run(Run(st, a), b) = Run(Run(st, b), a)
<1> DEFINE T == {b \in Seq(Commands) : ~ConflictBatch(a, b) =>
                   Run(Run(st, a), b) = Run(Run(st, b), a)}
<1>1. <<>> \in T
  <2>1. <<>> \in Seq(Commands) /\ Run(Run(st, a), <<>>) = Run(Run(st, <<>>), a)
    BY RunEmpty
  <2> QED BY <2>1
<1>2. ASSUME NEW b \in T, NEW c \in Commands PROVE Append(b, c) \in T
  <2>1. b \in Seq(Commands) /\ Append(b, c) \in Seq(Commands)
    BY AppendProperties
  <2>2. ASSUME ~ConflictBatch(a, Append(b, c))
        PROVE  Run(Run(st, a), Append(b, c)) = Run(Run(st, Append(b, c)), a)
    <3>1. ~ConflictBatch(a, b) /\ \A i \in DOMAIN a : ~Conflict(a[i], c)
      <4>1. /\ DOMAIN b = 1..Len(b) /\ DOMAIN Append(b, c) = 1..(Len(b) + 1)
            /\ Len(b) \in Nat /\ Append(b, c)[Len(b) + 1] = c
            /\ \A i \in 1..Len(b) : Append(b, c)[i] = b[i]
        BY <2>1, AppendProperties, LenProperties
      <4>2. \A i \in DOMAIN a, j \in 1..(Len(b) + 1) : ~Conflict(a[i], Append(b, c)[j])
        BY <2>2, <4>1 DEF ConflictBatch
      <4> QED BY <4>1, <4>2 DEF ConflictBatch
    <3>2. Run(Run(st, a), b) = Run(Run(st, b), a)
      BY <3>1
    <3>3. Run(st, b) \in StoreType
      BY <2>1, RunType
    <3>4. Stored(Run(Run(st, b), a), c) = Run(Stored(Run(st, b), c), a)
      BY <3>1, <3>3, CommandPasses
    <3>5. Run(st, Append(b, c)) = Stored(Run(st, b), c)
      BY <2>1, RunAppend
    <3>6. Run(Run(st, a), Append(b, c)) = Stored(Run(Run(st, a), b), c)
      BY <2>1, RunAppend
    <3> QED BY <3>2, <3>4, <3>5, <3>6
  <2> QED BY <2>1, <2>2
<1>3. T \in SUBSET Seq(Commands)
  OBVIOUS
<1> HIDE DEF T
<1>4. T = Seq(Commands)
  BY <1>1, <1>2, <1>3, AllSequences
<1> QED BY <1>4 DEF T

\* The answers to a batch are the same before and after one it is free of.
LEMMA SameAnswers ==
    ASSUME NEW st \in StoreType, NEW a \in Seq(Commands), NEW b \in Seq(Commands),
           ~ConflictBatch(a, b)
    PROVE  Answered(Run(st, a), b) = Answered(st, b)
<1> SUFFICES ASSUME NEW i \in DOMAIN b
             PROVE  Previous(Run(Run(st, a), SubSeq(b, 1, i - 1)), b[i])
                      = Previous(Run(st, SubSeq(b, 1, i - 1)), b[i])
  BY DEF Answered
<1> DEFINE s == SubSeq(b, 1, i - 1)
<1>1. /\ Len(b) \in Nat /\ DOMAIN b = 1..Len(b) /\ i \in 1..Len(b)
      /\ \A j \in 1..Len(b) : b[j] \in Commands
  BY LenProperties, ElementOfSeq
<1>2. s \in Seq(Commands) /\ Len(s) = i - 1 /\ \A j \in 1..(i - 1) : s[j] = b[j]
  <2>1. \A j \in 1..(i - 1) : b[j] \in Commands
    BY <1>1
  <2>2. 1 \in Int /\ i - 1 \in Int
    BY <1>1
  <2>3. /\ s \in Seq(Commands) /\ Len(s) = IF 1 <= i - 1 THEN i - 1 - 1 + 1 ELSE 0
        /\ \A j \in 1..(i - 1 - 1 + 1) : s[j] = b[1 + j - 1]
    BY <2>1, <2>2, SubSeqProperties
  <2> HIDE DEF s
  <2> QED BY <1>1, <2>3
<1> HIDE DEF s
<1>3. ~ConflictBatch(a, s)
  <2>1. DOMAIN s = 1..(i - 1)
    BY <1>2, LenProperties
  <2>2. \A j \in DOMAIN s : j \in DOMAIN b /\ s[j] = b[j]
    BY <1>1, <1>2, <2>1
  <2> QED BY <2>2 DEF ConflictBatch
<1>4. Run(Run(st, a), s) = Run(Run(st, s), a) /\ Run(st, s) \in StoreType
  BY <1>2, <1>3, BatchPasses, RunType
<1>5. Previous(Run(Run(st, s), a), b[i]) = Previous(Run(st, s), b[i])
  <2>1. b[i] \in Commands /\ \A j \in DOMAIN a : ~Conflict(a[j], b[i])
    BY <1>1 DEF ConflictBatch
  <2> QED BY <1>4, <2>1, CommandPasses
<1> QED BY <1>4, <1>5 DEF s

\* ConflictBatch does not mind the order of its arguments.
LEMMA ConflictsBothWays ==
    \A a, b \in Seq(Commands) : ConflictBatch(a, b) <=> ConflictBatch(b, a)
BY DEF ConflictBatch, Conflict

\* Batches of any length that ConflictBatch lets pass may change places in every
\* store the replicas can reach: the same store, versions included, and the same
\* answers in the end (Conflict, ConflictBatch, Execute).
THEOREM FreeBatchesCommute == StoreSpec => []Commute
<1> DEFINE Batches == kv \in StoreType /\ batch1 \in Seq(Commands) /\ batch2 \in Seq(Commands)
<1>1. StoreInit => Batches
  BY DEF StoreInit, EmptyStore, StoreType
<1>2. Batches /\ [StoreNext]_storeVars => Batches'
  <2> SUFFICES ASSUME Batches, [StoreNext]_storeVars PROVE Batches'
    OBVIOUS
  <2>1. ASSUME NEW c \in Commands, ExecuteBefore(c) PROVE Batches'
    BY <2>1, StoredType DEF ExecuteBefore
  <2>2. ASSUME NEW c \in Commands, Propose1(c) PROVE Batches'
    BY <2>2, AppendProperties DEF Propose1
  <2>3. ASSUME NEW c \in Commands, Propose2(c) PROVE Batches'
    BY <2>3, AppendProperties DEF Propose2
  <2>4. CASE UNCHANGED storeVars
    BY <2>4 DEF storeVars
  <2> QED BY <2>1, <2>2, <2>3, <2>4 DEF StoreNext
<1>3. Batches => Commute
  <2> SUFFICES ASSUME Batches, ~ConflictBatch(batch1, batch2) PROVE Commute
    BY DEF Commute
  <2>1. ~ConflictBatch(batch2, batch1)
    BY ConflictsBothWays
  <2>2. Run(Run(kv, batch1), batch2) = Run(Run(kv, batch2), batch1)
    BY BatchPasses
  <2>3. Answered(Run(kv, batch1), batch2) = Answered(kv, batch2)
    BY SameAnswers
  <2>4. Answered(Run(kv, batch2), batch1) = Answered(kv, batch1)
    BY <2>1, SameAnswers
  <2> QED BY <2>2, <2>3, <2>4 DEF Commute
<1> QED BY <1>1, <1>2, <1>3, PTL DEF StoreSpec

-----------------------------------------------------------------------------
(* The hash ring *)

RingNode == [hash : Hash, value : RingValue]

\* The nodes of the ring have hashes, which are numbers.
LEMMA HashOrder ==
    ASSUME NEW r \in Seq(RingNode), NEW i \in 1..Len(r)
    PROVE  r[i] \in RingNode /\ r[i].hash \in Nat
<1>1. r[i] \in RingNode
  BY ElementOfSeq
<1>2. r[i].hash \in Hash
  BY <1>1 DEF RingNode
<1> QED BY <1>1, <1>2, HashAssumption

\* Insert passes the nodes with a lower hash, and stops before another one.
LEMMA PassedPlace ==
    ASSUME NEW r \in Seq(RingNode), NEW h \in Hash
    PROVE  /\ Passed(r, h) \in 0..Len(r)
           /\ \A j \in 1..Passed(r, h) : r[j].hash < h
           /\ Passed(r, h) < Len(r) => r[Passed(r, h) + 1].hash >= h
<1>1. Len(r) \in Nat /\ h \in Nat /\ DOMAIN r = 1..Len(r)
      /\ \A i \in 1..Len(r) : r[i].hash \in Nat
  BY HashAssumption, HashOrder, LenProperties
<1>2. CASE r = <<>> \/ r[1].hash >= h
  <2>1. Passed(r, h) = 0 /\ (r # <<>> => r[1].hash >= h)
    BY <1>2 DEF Passed
  <2>2. 0 < Len(r) => r # <<>>
    BY EmptySeq
  <2> QED BY <1>1, <2>1, <2>2
<1>3. CASE r # <<>> /\ ~(r[1].hash >= h)
  <2> DEFINE T == {i \in 1..Len(r) : i = Len(r) \/ r[i + 1].hash >= h}
             Stops(i) == /\ \A j \in 2..i : r[j].hash < h
                         /\ i = Len(r) \/ r[i + 1].hash >= h
  <2>1. Len(r) \in 1..Len(r)
    BY <1>1, <1>3, EmptySeq
  <2>2. T \in SUBSET Nat /\ T # {}
    BY <2>1
  <2>3. PICK m \in T : \A k \in T : m <= k
    <3> HIDE DEF T
    <3> QED BY <2>2, LeastNatural
  <2>4. Stops(m)
    <3>1. m \in 1..Len(r) /\ (m = Len(r) \/ r[m + 1].hash >= h)
      BY <2>3
    <3>2. \A k \in 1..Len(r) : ~(k = Len(r) \/ r[k + 1].hash >= h) \/ m <= k
      BY <2>3
    <3> HIDE DEF T
    <3>3. ASSUME NEW j \in 2..m PROVE r[j].hash < h
      <4>1. j - 1 \in 1..Len(r) /\ ~(m <= j - 1) /\ j \in 1..Len(r) /\ (j - 1) + 1 = j
        <5>1. Len(r) \in Nat /\ m \in 1..Len(r) /\ j \in 2..m
          BY <1>1, <3>1
        <5>2. m \in Int /\ m <= Len(r) /\ j \in Int /\ 2 <= j /\ j <= m
          BY <5>1
        <5> QED BY <5>1, <5>2
      <4>2. ~(r[j].hash >= h)
        BY <3>2, <4>1
      <4> QED BY <1>1, <4>1, <4>2
    <3> QED BY <3>1, <3>3
  <2>5. Passed(r, h) = CHOOSE i \in DOMAIN r : Stops(i)
    BY <1>3 DEF Passed
  <2>6. m \in DOMAIN r
    BY <1>1, <2>3
  <2> HIDE DEF Stops, T
  <2>7. Passed(r, h) \in DOMAIN r /\ Stops(Passed(r, h))
    BY <2>4, <2>5, <2>6
  <2> DEFINE k == Passed(r, h)
  <2>8. k \in 1..Len(r) /\ (\A j \in 2..k : r[j].hash < h)
        /\ (k = Len(r) \/ r[k + 1].hash >= h)
    BY <1>1, <2>7 DEF Stops
  <2> HIDE DEF k
  <2>9. r[1].hash < h
    BY <1>1, <1>3, <2>1
  <2>10. \A j \in 1..k : j = 1 \/ j \in 2..k
    BY <2>8
  <2> QED BY <1>1, <2>8, <2>9, <2>10 DEF k
<1> QED BY <1>2, <1>3

\* What is where in the ring after an insertion.
LEMMA Inserted ==
    ASSUME NEW r \in Seq(RingNode), NEW e \in RingNode, NEW k \in 0..Len(r)
    PROVE  LET q == InsertAt(r, k + 1, e) IN
           /\ q \in Seq(RingNode) /\ Len(q) = Len(r) + 1
           /\ \A i \in 1..Len(q) : q[i] = IF i <= k THEN r[i]
                                          ELSE IF i = k + 1 THEN e ELSE r[i - 1]
           /\ r = RemoveAt(q, k + 1)
<1> DEFINE n == Len(r)
           q == InsertAt(r, k + 1, e)
           a == SubSeq(r, 1, k)
           b == SubSeq(r, k + 1, n)
<1>1. n \in Nat /\ k \in Nat /\ k <= n /\ (k + 1) - 1 = k /\ \A i \in 1..n : r[i] \in RingNode
  BY LenProperties, ElementOfSeq
<1>2. /\ a \in Seq(RingNode) /\ Len(a) = k /\ \A i \in 1..k : a[i] = r[i]
      /\ b \in Seq(RingNode) /\ Len(b) = n - k /\ \A i \in 1..(n - k) : b[i] = r[k + i]
  <2>1. /\ a \in Seq(RingNode) /\ Len(a) = IF 1 <= k THEN k - 1 + 1 ELSE 0
        /\ \A i \in 1..(k - 1 + 1) : a[i] = r[1 + i - 1]
    BY <1>1, SubSeqProperties
  <2>2. /\ b \in Seq(RingNode) /\ Len(b) = IF k + 1 <= n THEN n - (k + 1) + 1 ELSE 0
        /\ \A i \in 1..(n - (k + 1) + 1) : b[i] = r[k + 1 + i - 1]
    BY <1>1, SubSeqProperties
  <2> HIDE DEF a, b
  <2> QED BY <1>1, <2>1, <2>2
<1>3. q = (a \o <<e>>) \o b
  BY <1>1 DEF InsertAt
<1> HIDE DEF a, b, n
<1>4. /\ a \o <<e>> \in Seq(RingNode) /\ Len(a \o <<e>>) = k + 1
      /\ \A i \in 1..(k + 1) : (a \o <<e>>)[i] = IF i <= k THEN r[i] ELSE e
  <2>1. <<e>> \in Seq(RingNode) /\ Len(<<e>>) = 1 /\ <<e>>[1] = e
    OBVIOUS
  <2>2. /\ a \o <<e>> \in Seq(RingNode) /\ Len(a \o <<e>>) = Len(a) + Len(<<e>>)
        /\ \A i \in 1..(Len(a) + Len(<<e>>)) : (a \o <<e>>)[i] =
             IF i <= Len(a) THEN a[i] ELSE <<e>>[i - Len(a)]
    BY <1>2, <2>1, ConcatProperties
  <2> QED BY <1>1, <1>2, <2>1, <2>2
<1>5. /\ q \in Seq(RingNode) /\ Len(q) = n + 1
      /\ \A i \in 1..(n + 1) : q[i] = IF i <= k THEN r[i]
                                      ELSE IF i = k + 1 THEN e ELSE r[i - 1]
  <2> DEFINE c == a \o <<e>>
  <2> HIDE DEF c
  <2>1. /\ c \o b \in Seq(RingNode) /\ Len(c \o b) = Len(c) + Len(b)
        /\ \A i \in 1..(Len(c) + Len(b)) :
             (c \o b)[i] = IF i <= Len(c) THEN c[i] ELSE b[i - Len(c)]
    BY <1>2, <1>4, ConcatProperties DEF c
  <2>2. Len(c) = k + 1 /\ Len(c) + Len(b) = n + 1
    <3>1. Len(c) = k + 1
      BY <1>4 DEF c
    <3> QED BY <1>1, <1>2, <3>1
  <2>3. ASSUME NEW i \in 1..(n + 1)
        PROVE  (c \o b)[i] = IF i <= k THEN r[i] ELSE IF i = k + 1 THEN e ELSE r[i - 1]
    <3>1. CASE i <= k + 1
      <4>1. (c \o b)[i] = c[i]
        BY <2>1, <2>2, <3>1
      <4>2. c[i] = IF i <= k THEN r[i] ELSE e
        BY <1>1, <1>4, <3>1 DEF c
      <4> QED BY <1>1, <3>1, <4>1, <4>2
    <3>2. CASE i > k + 1
      <4>1. (c \o b)[i] = b[i - (k + 1)]
        <5>1. i \in 1..(Len(c) + Len(b)) /\ ~(i <= Len(c))
          BY <1>1, <2>2, <3>2
        <5> QED BY <2>1, <2>2, <5>1
      <4>2. i - (k + 1) \in 1..(n - k) /\ k + (i - (k + 1)) = i - 1
        BY <1>1, <3>2
      <4>3. b[i - (k + 1)] = r[i - 1]
        <5>1. b[i - (k + 1)] = r[k + (i - (k + 1))]
          BY <1>2, <4>2
        <5> QED BY <4>2, <5>1
      <4>4. ~(i <= k) /\ i # k + 1
        BY <1>1, <3>2
      <4> QED BY <4>1, <4>3, <4>4
    <3>3. i <= k + 1 \/ i > k + 1
      BY <1>1
    <3> QED BY <3>1, <3>2, <3>3, Zenon
  <2> QED BY <1>3, <2>1, <2>2, <2>3 DEF c
<1> HIDE DEF q
<1>6. r = RemoveAt(q, k + 1)
  <2> DEFINE x == SubSeq(q, 1, k)
             y == SubSeq(q, k + 2, n + 1)
  <2>1. \A i \in 1..(n + 1) : q[i] \in RingNode
    BY <1>5, ElementOfSeq
  <2>2. /\ x \in Seq(RingNode) /\ Len(x) = k /\ \A i \in 1..k : x[i] = r[i]
    <3>1. /\ x \in Seq(RingNode) /\ Len(x) = IF 1 <= k THEN k - 1 + 1 ELSE 0
          /\ \A i \in 1..(k - 1 + 1) : x[i] = q[1 + i - 1]
      BY <1>1, <2>1, SubSeqProperties
    <3> HIDE DEF x
    <3>2. Len(x) = k
      BY <1>1, <3>1
    <3>3. ASSUME NEW i \in 1..k PROVE x[i] = r[i]
      <4>1. i \in 1..(k - 1 + 1) /\ 1 + i - 1 = i /\ i \in 1..(n + 1) /\ i <= k
        BY <1>1
      <4>2. x[i] = q[i]
        BY <3>1, <4>1
      <4> QED BY <1>5, <4>1, <4>2
    <3> QED BY <3>1, <3>2, <3>3
  <2>3. /\ y \in Seq(RingNode) /\ Len(y) = n - k /\ \A i \in 1..(n - k) : y[i] = r[k + i]
    <3>1. /\ y \in Seq(RingNode) /\ Len(y) = IF k + 2 <= n + 1 THEN n + 1 - (k + 2) + 1 ELSE 0
          /\ \A i \in 1..(n + 1 - (k + 2) + 1) : y[i] = q[k + 2 + i - 1]
      BY <1>1, <2>1, SubSeqProperties
    <3> HIDE DEF y
    <3>2. Len(y) = n - k
      BY <1>1, <3>1
    <3>3. ASSUME NEW i \in 1..(n - k) PROVE y[i] = r[k + i]
      <4>1. i \in 1..(n + 1 - (k + 2) + 1) /\ k + 2 + i - 1 = k + 1 + i
            /\ k + 1 + i \in 1..(n + 1) /\ (k + 1 + i) - 1 = k + i
        BY <1>1
      <4>2. y[i] = q[k + 1 + i]
        BY <3>1, <4>1
      <4>3. q[k + 1 + i] = r[(k + 1 + i) - 1]
        BY <1>1, <1>5, <4>1
      <4> QED BY <4>1, <4>2, <4>3
    <3> QED BY <3>1, <3>2, <3>3
  <2>4. RemoveAt(q, k + 1) = x \o y
    BY <1>1, <1>5 DEF RemoveAt
  <2> HIDE DEF x, y
  <2>5. /\ x \o y \in Seq(RingNode) /\ Len(x \o y) = Len(x) + Len(y)
        /\ \A i \in 1..(Len(x) + Len(y)) :
             (x \o y)[i] = IF i <= Len(x) THEN x[i] ELSE y[i - Len(x)]
    BY <2>2, <2>3, ConcatProperties
  <2>6. ASSUME NEW i \in 1..n PROVE (x \o y)[i] = r[i]
    <3>1. CASE i <= k
      <4>1. i \in 1..(Len(x) + Len(y)) /\ i <= Len(x) /\ i \in 1..k
        BY <1>1, <2>2, <2>3, <3>1
      <4>2. (x \o y)[i] = x[i]
        BY <2>5, <4>1
      <4> QED BY <2>2, <4>1, <4>2
    <3>2. CASE i > k
      <4>1. i - k \in 1..(n - k) /\ k + (i - k) = i
        BY <1>1, <3>2
      <4>2. y[i - k] = r[k + (i - k)]
        BY <2>3, <4>1
      <4>3. i \in 1..(Len(x) + Len(y)) /\ ~(i <= Len(x)) /\ Len(x) = k
        BY <1>1, <2>2, <2>3, <3>2
      <4>4. (x \o y)[i] = y[i - k]
        BY <2>5, <4>3
      <4> QED BY <4>1, <4>2, <4>4
    <3>3. i <= k \/ i > k
      BY <1>1
    <3> QED BY <3>1, <3>2, <3>3, Zenon
  <2>7. x \o y \in Seq(RingNode) /\ Len(x \o y) = n
    BY <1>1, <2>2, <2>3, <2>5
  <2>8. x \o y = r
    BY <2>6, <2>7, SeqEqual DEF n
  <2> QED BY <2>4, <2>8
<1> QED BY <1>5, <1>6 DEF n, q

\* search answers the first node with a higher hash, before the tail.
LEMMA FoundAt ==
    ASSUME NEW r \in Seq(RingNode), NEW h \in Hash, NEW i \in 1..(Len(r) - 1),
           h < r[i].hash, \A j \in 1..(i - 1) : ~(h < r[j].hash)
    PROVE  Found(r, h) = r[i]
<1> DEFINE higher == {m \in 1..(Len(r) - 1) : h < r[m].hash}
<1>1. i \in higher /\ \A j \in higher : i <= j
  <2>1. Len(r) \in Nat
    BY LenProperties
  <2> QED BY <2>1
<1>2. \A j \in higher : j \in Int
  BY LenProperties
<1>3. Found(r, h) = r[IF higher = {} THEN 1
                      ELSE CHOOSE m \in higher : \A j \in higher : m <= j]
  BY DEF Found
<1> HIDE DEF higher
<1> DEFINE c == CHOOSE m \in higher : \A j \in higher : m <= j
<1>4. c \in higher /\ \A j \in higher : c <= j
  BY <1>1
<1> HIDE DEF c
<1>5. c = i
  <2>1. c <= i /\ i <= c /\ c \in Int /\ i \in Int
    BY <1>1, <1>2, <1>4
  <2> QED BY <2>1
<1> QED BY <1>1, <1>3, <1>5 DEF c

\* search answers the head when no node before the tail has a higher hash.
LEMMA FoundHead ==
    ASSUME NEW r \in Seq(RingNode), NEW h \in Hash,
           \A j \in 1..(Len(r) - 1) : ~(h < r[j].hash)
    PROVE  Found(r, h) = r[1]
BY DEF Found

\* search ends at the first node with a higher hash, or passes all but the last.
LEMMA FoundCases ==
    ASSUME NEW r \in Seq(RingNode), NEW h \in Hash
    PROVE  \/ \E i \in 1..(Len(r) - 1) : /\ h < r[i].hash
                                         /\ \A j \in 1..(i - 1) : ~(h < r[j].hash)
           \/ \A j \in 1..(Len(r) - 1) : ~(h < r[j].hash)
<1> DEFINE T == {m \in 1..(Len(r) - 1) : h < r[m].hash}
<1>1. Len(r) \in Nat
  BY LenProperties
<1> SUFFICES ASSUME T # {}
             PROVE  \E i \in 1..(Len(r) - 1) : /\ h < r[i].hash
                                               /\ \A j \in 1..(i - 1) : ~(h < r[j].hash)
  OBVIOUS
<1>2. PICK m \in T : \A k \in T : m <= k
  <2>1. T \in SUBSET Nat
    OBVIOUS
  <2> HIDE DEF T
  <2> QED BY <2>1, LeastNatural
<1>3. ASSUME NEW j \in 1..(m - 1) PROVE ~(h < r[j].hash)
  <2>1. m \in 1..(Len(r) - 1)
    BY <1>2
  <2>2. \A k \in 1..(Len(r) - 1) : h < r[k].hash => m <= k
    BY <1>2
  <2> HIDE DEF T
  <2>3. j \in 1..(Len(r) - 1) /\ ~(m <= j)
    BY <1>1, <2>1
  <2> QED BY <2>2, <2>3
<1> QED BY <1>2, <1>3

\* A key that moves, moves to the node that was inserted before the tail; past
\* the tail it moves to the old tail.
LEMMA KeyMoves ==
    ASSUME NEW r \in Seq(RingNode), NEW q \in Seq(RingNode), NEW e \in RingNode, NEW k \in 0..Len(r),
           r # <<>>, Len(q) = Len(r) + 1,
           \A i \in 1..Len(q) : q[i] = IF i <= k THEN r[i]
                                       ELSE IF i = k + 1 THEN e ELSE r[i - 1],
           NEW h \in Hash, Found(q, h) # Found(r, h)
    PROVE  Found(q, h) = IF k + 1 = Len(q) THEN Last(r) ELSE q[k + 1]
<1> DEFINE n == Len(r)
<1>1. n \in Nat \ {0} /\ k \in Nat /\ k <= n /\ Len(q) = n + 1 /\ h \in Nat
  BY EmptySeq, HashAssumption
<1>2. /\ \A i \in 1..n : i <= k => q[i] = r[i]
      /\ q[k + 1] = e
      /\ \A i \in 1..n : i > k => q[i + 1] = r[i]
  <2>1. ASSUME NEW i \in 1..n, i <= k PROVE q[i] = r[i]
    <3>1. i \in 1..Len(q)
      BY <1>1
    <3> QED BY <2>1, <3>1
  <2>2. q[k + 1] = e
    <3>1. k + 1 \in 1..Len(q) /\ ~(k + 1 <= k)
      BY <1>1
    <3> QED BY <3>1
  <2>3. ASSUME NEW i \in 1..n, i > k PROVE q[i + 1] = r[i]
    <3>1. i + 1 \in 1..Len(q) /\ ~(i + 1 <= k) /\ i + 1 # k + 1 /\ (i + 1) - 1 = i
      BY <1>1, <2>3
    <3>2. q[i + 1] = r[(i + 1) - 1]
      BY <3>1
    <3> QED BY <3>1, <3>2
  <2> QED BY <2>1, <2>2, <2>3
<1>3. \A j \in 1..(k + 1) : j \in 1..k \/ j = k + 1
  BY <1>1
<1> HIDE DEF n
<1>4. CASE \E i \in 1..(n - 1) : h < r[i].hash /\ \A j \in 1..(i - 1) : ~(h < r[j].hash)
  <2>1. PICK i \in 1..(n - 1) : h < r[i].hash /\ \A j \in 1..(i - 1) : ~(h < r[j].hash)
    BY <1>4
  <2>2. Found(r, h) = r[i]
    BY <2>1, FoundAt DEF n
  <2>3. i \in 1..n /\ i \in 1..(Len(q) - 1) /\ i + 1 \in 1..(Len(q) - 1)
    BY <1>1
  <2>4. CASE i <= k
    <3>1. \A j \in 1..(i - 1) : j \in 1..n /\ j <= k
      BY <1>1, <2>3, <2>4
    <3>2. q[i] = r[i] /\ \A j \in 1..(i - 1) : ~(h < q[j].hash)
      BY <1>2, <2>1, <2>3, <2>4, <3>1
    <3>3. Found(q, h) = q[i]
      BY <2>1, <2>3, <3>2, FoundAt
    <3> QED BY <2>2, <3>2, <3>3
  <2>5. CASE i > k
    <3>1. k + 1 \in 1..(Len(q) - 1) /\ k + 1 # Len(q) /\ (k + 1) - 1 = k
      BY <1>1, <2>3, <2>5
    <3>2. \A j \in 1..k : ~(h < q[j].hash)
      <4>1. \A j \in 1..k : j \in 1..n /\ j <= k /\ j \in 1..(i - 1)
        BY <1>1, <2>3, <2>5
      <4> QED BY <1>2, <2>1, <4>1
    <3>3. CASE h < e.hash
      <4>1. Found(q, h) = q[k + 1]
        BY <1>2, <3>1, <3>2, <3>3, FoundAt
      <4> QED BY <3>1, <4>1
    <3>4. CASE ~(h < e.hash)
      <4>1. q[i + 1] = r[i] /\ (i + 1) - 1 = i
        BY <1>2, <2>3, <2>5
      <4>2. ASSUME NEW j \in 1..i PROVE ~(h < q[j].hash)
        <5>1. CASE j \in 1..k
          BY <3>2, <5>1
        <5>2. CASE j = k + 1
          BY <1>2, <3>4, <5>2
        <5>3. CASE j > k + 1
          <6>1. j - 1 \in 1..n /\ j - 1 > k /\ j - 1 \in 1..(i - 1) /\ (j - 1) + 1 = j
            BY <1>1, <2>3, <5>3
          <6>2. q[(j - 1) + 1] = r[j - 1]
            BY <1>2, <6>1
          <6> QED BY <2>1, <6>1, <6>2
        <5>4. j \in 1..k \/ j = k + 1 \/ j > k + 1
          BY <1>1, <2>3
        <5> QED BY <5>1, <5>2, <5>3, <5>4
      <4>3. Found(q, h) = q[i + 1]
        BY <2>1, <2>3, <4>1, <4>2, FoundAt
      <4> QED BY <2>2, <4>1, <4>3
    <3> QED BY <3>3, <3>4
  <2>6. i <= k \/ i > k
    BY <1>1, <2>3
  <2> QED BY <2>4, <2>5, <2>6
<1>5. CASE \A j \in 1..(n - 1) : ~(h < r[j].hash)
  <2>1. Found(r, h) = r[1]
    BY <1>5, FoundHead DEF n
  <2>2. CASE k = n
    <3>1. k + 1 = Len(q) /\ n \in 1..(Len(q) - 1) /\ Len(q) - 1 = n /\ 1 \in 1..n
      BY <1>1, <2>2
    <3>2. \A j \in 1..n : q[j] = r[j]
      BY <1>1, <1>2, <2>2
    <3>3. \A j \in 1..(n - 1) : ~(h < q[j].hash)
      <4>1. \A j \in 1..(n - 1) : j \in 1..n
        BY <1>1
      <4> QED BY <1>5, <3>2, <4>1
    <3>4. CASE h < r[n].hash
      <4>1. Found(q, h) = q[n] /\ q[n] = r[n] /\ n \in 1..n
        BY <1>1, <3>1, <3>2, <3>3, <3>4, FoundAt
      <4> QED BY <3>1, <4>1 DEF Last, n
    <3>5. CASE ~(h < r[n].hash)
      <4>1. \A j \in 1..(Len(q) - 1) : ~(h < q[j].hash)
        <5>1. \A j \in 1..n : j \in 1..(n - 1) \/ j = n
          BY <1>1
        <5> QED BY <3>1, <3>2, <3>3, <3>5, <5>1
      <4>2. Found(q, h) = q[1]
        BY <4>1, FoundHead
      <4> QED BY <2>1, <3>1, <3>2, <4>2
    <3> QED BY <3>4, <3>5
  <2>3. CASE k < n
    <3>1. k + 1 \in 1..(Len(q) - 1) /\ k + 1 # Len(q) /\ (k + 1) - 1 = k /\ Len(q) - 1 = n
      BY <1>1, <2>3
    <3>2. \A j \in 1..k : ~(h < q[j].hash)
      <4>1. \A j \in 1..k : j \in 1..n /\ j <= k /\ j \in 1..(n - 1)
        BY <1>1, <2>3
      <4> QED BY <1>2, <1>5, <4>1
    <3>3. CASE h < e.hash
      <4>1. Found(q, h) = q[k + 1]
        BY <1>2, <3>1, <3>2, <3>3, FoundAt
      <4> QED BY <3>1, <4>1
    <3>4. CASE ~(h < e.hash)
      <4>1. ASSUME NEW j \in 1..n PROVE ~(h < q[j].hash)
        <5>1. CASE j \in 1..k
          BY <3>2, <5>1
        <5>2. CASE j = k + 1
          BY <1>2, <3>4, <5>2
        <5>3. CASE j > k + 1
          <6>1. j - 1 \in 1..n /\ j - 1 > k /\ j - 1 \in 1..(n - 1) /\ (j - 1) + 1 = j
            BY <1>1, <5>3
          <6>2. q[(j - 1) + 1] = r[j - 1]
            BY <1>2, <6>1
          <6> QED BY <1>5, <6>1, <6>2
        <5>4. j \in 1..k \/ j = k + 1 \/ j > k + 1
          BY <1>1
        <5> QED BY <5>1, <5>2, <5>3, <5>4
      <4>2. Found(q, h) = q[1]
        BY <3>1, <4>1, FoundHead
      <4>3. CASE k = 0
        BY <3>1, <4>2, <4>3
      <4>4. CASE k > 0
        <5>1. 1 \in 1..n /\ 1 <= k
          BY <1>1, <4>4
        <5> QED BY <1>2, <2>1, <4>2, <5>1
      <4> QED BY <1>1, <4>3, <4>4
    <3> QED BY <3>3, <3>4
  <2> QED BY <1>1, <2>2, <2>3
<1> QED BY <1>4, <1>5, FoundCases DEF n

\* A node put where Insert stops leaves the ring in the order of the hashes.
LEMMA OrderKept ==
    ASSUME NEW r \in Seq(RingNode), NEW q \in Seq(RingNode), NEW e \in RingNode, NEW k \in 0..Len(r),
           Ordered(r), Len(q) = Len(r) + 1,
           \A i \in 1..Len(q) : q[i] = IF i <= k THEN r[i]
                                       ELSE IF i = k + 1 THEN e ELSE r[i - 1],
           \A j \in 1..k : r[j].hash < e.hash,
           k < Len(r) => r[k + 1].hash >= e.hash
    PROVE  Ordered(q)
<1> DEFINE n == Len(r)
<1>1. n \in Nat /\ k \in Nat /\ k <= n /\ Len(q) = n + 1
      /\ e.hash \in Nat /\ \A i \in 1..n : r[i].hash \in Nat
  <2>1. \A i \in 1..n : r[i].hash \in Nat
    BY HashOrder
  <2>2. e.hash \in Nat
    BY HashAssumption DEF RingNode
  <2> QED BY <2>1, <2>2, LenProperties
<1> SUFFICES ASSUME NEW i \in 1..n PROVE q[i].hash <= q[i + 1].hash
  BY <1>1 DEF Ordered
<1>2. i \in 1..Len(q) /\ i + 1 \in 1..Len(q) /\ (i + 1) - 1 = i
  BY <1>1
<1>3. /\ q[i] = IF i <= k THEN r[i] ELSE IF i = k + 1 THEN e ELSE r[i - 1]
      /\ q[i + 1] = IF i + 1 <= k THEN r[i + 1] ELSE IF i + 1 = k + 1 THEN e ELSE r[i]
  BY <1>2
<1>4. \A j \in 1..(n - 1) : r[j].hash <= r[j + 1].hash
  BY DEF Ordered
<1> HIDE DEF n
<1>5. CASE i + 1 <= k
  <2>1. i <= k /\ i \in 1..(n - 1)
    BY <1>1, <1>5
  <2> QED BY <1>3, <1>4, <1>5, <2>1
<1>6. CASE i = k
  <2>1. q[i] = r[i] /\ q[i + 1] = e /\ i \in 1..k
    BY <1>1, <1>3, <1>6
  <2> QED BY <1>1, <2>1
<1>7. CASE i = k + 1
  <2>1. q[i] = e /\ q[i + 1] = r[i] /\ k < n
    BY <1>1, <1>3, <1>7
  <2>2. r[k + 1].hash >= e.hash
    BY <2>1 DEF n
  <2> QED BY <1>1, <1>7, <2>1, <2>2
<1>8. CASE i > k + 1
  <2>1. ~(i <= k) /\ i # k + 1 /\ ~(i + 1 <= k) /\ i + 1 # k + 1
    BY <1>1, <1>8
  <2>2. q[i] = r[i - 1] /\ q[i + 1] = r[i]
    BY <1>3, <2>1
  <2>3. i - 1 \in 1..(n - 1) /\ (i - 1) + 1 = i
    BY <1>1, <1>8
  <2> QED BY <1>4, <2>2, <2>3
<1>9. i + 1 <= k \/ i = k \/ i = k + 1 \/ i > k + 1
  BY <1>1
<1> QED BY <1>5, <1>6, <1>7, <1>8, <1>9

\* Inserting a node keeps the order of the hashes and moves keys only to the new
\* node, or, when it becomes the tail, to the old tail: for any hashes, values
\* and number of nodes (Insert, search, Get).
THEOREM FewKeysMove == RingSpec => KeysMove
<1> DEFINE RingInv == ring \in Seq(RingNode) /\ Ordered(ring)
           Move == ring # <<>> =>
                     \E p \in DOMAIN ring' :
                       /\ ring = RemoveAt(ring', p) /\ Ordered(ring')
                       /\ \A h \in Hash : Found(ring', h) # Found(ring, h) =>
                            Found(ring', h) = IF p = Len(ring') THEN Last(ring)
                                              ELSE ring'[p]
<1>1. ring = <<>> => RingInv
  <2>1. <<>> \in Seq(RingNode) /\ Ordered(<<>>)
    BY DEF Ordered
  <2> QED BY <2>1
<1>2. ASSUME RingInv, NEW g \in Hash, NEW v \in RingValue, Insert(g, v)
      PROVE  RingInv' /\ Move
  <2> DEFINE k == Passed(ring, g)
             e == [hash |-> g, value |-> v]
  <2>1. /\ k \in 0..Len(ring) /\ \A j \in 1..k : ring[j].hash < g
        /\ k < Len(ring) => ring[k + 1].hash >= g
    BY <1>2, PassedPlace
  <2>2. e \in RingNode /\ e.hash = g
    BY DEF RingNode
  <2>3. ring' = InsertAt(ring, k + 1, e)
    BY <1>2 DEF Insert
  <2> HIDE DEF k, e
  <2>4. /\ ring' \in Seq(RingNode) /\ Len(ring') = Len(ring) + 1
        /\ \A i \in 1..Len(ring') : ring'[i] = IF i <= k THEN ring[i]
                                               ELSE IF i = k + 1 THEN e ELSE ring[i - 1]
        /\ ring = RemoveAt(ring', k + 1)
    <3> DEFINE q == InsertAt(ring, k + 1, e)
    <3>1. ring \in Seq(RingNode)
      BY <1>2
    <3>2. /\ q \in Seq(RingNode) /\ Len(q) = Len(ring) + 1
          /\ \A i \in 1..Len(q) : q[i] = IF i <= k THEN ring[i]
                                         ELSE IF i = k + 1 THEN e ELSE ring[i - 1]
          /\ ring = RemoveAt(q, k + 1)
      BY <2>1, <2>2, <3>1, Inserted
    <3>3. ring' = q
      BY <2>3
    <3> HIDE DEF q
    <3> QED BY <3>2, <3>3
  <2>5. Ordered(ring')
    BY <1>2, <2>1, <2>2, <2>4, OrderKept
  <2>6. ASSUME ring # <<>> PROVE Move
    <3>1. k + 1 \in DOMAIN ring'
      BY <1>2, <2>1, <2>4, LenProperties
    <3>2. \A h \in Hash : Found(ring', h) # Found(ring, h) =>
            Found(ring', h) = IF k + 1 = Len(ring') THEN Last(ring) ELSE ring'[k + 1]
      BY <1>2, <2>1, <2>2, <2>4, <2>6, KeyMoves
    <3> QED BY <2>4, <2>5, <3>1, <3>2
  <2> QED BY <2>4, <2>5, <2>6
<1>3. RingInv /\ [RingNext]_ring => RingInv' /\ [Move]_ring
  <2> SUFFICES ASSUME RingInv, [RingNext]_ring PROVE RingInv' /\ [Move]_ring
    OBVIOUS
  <2>1. CASE UNCHANGED ring
    BY <2>1
  <2>2. CASE RingNext
    BY <1>2, <2>2 DEF RingNext
  <2> QED BY <2>1, <2>2
<1> QED BY <1>1, <1>3, PTL DEF RingSpec, KeysMove

-----------------------------------------------------------------------------
(* The queue *)

\* The remainder of the next cell (Push, Pop).
LEMMA NextCell ==
    ASSUME NEW c \in Nat \ {0}, NEW i \in 0..(c - 1)
    PROVE  (i + 1) % c = IF i + 1 = c THEN 0 ELSE i + 1
<1>1. CASE i + 1 = c
  BY <1>1
<1>2. CASE i + 1 # c
  BY <1>2
<1> QED  BY <1>1, <1>2

\* A function that repeats a sequence and adds an element is the longer sequence.
LEMMA AppendPointwise ==
    ASSUME NEW s \in Seq(Element), NEW e \in Element, NEW f,
           \A i \in 1..(Len(s) + 1) : f[i] = IF i <= Len(s) THEN s[i] ELSE e
    PROVE  [i \in 1..(Len(s) + 1) |-> f[i]] = Append(s, e)
<1> DEFINE t == [i \in 1..(Len(s) + 1) |-> f[i]]
<1>1. Len(s) \in Nat /\ \A i \in 1..Len(s) : s[i] \in Element
  OBVIOUS
<1>2. t \in Seq(Element) /\ Len(t) = Len(s) + 1
  BY <1>1
<1>3. Append(s, e) \in Seq(Element) /\ Len(Append(s, e)) = Len(s) + 1
  OBVIOUS
<1>4. \A i \in 1..(Len(s) + 1) : t[i] = Append(s, e)[i]
  BY <1>1
<1> HIDE DEF t
<1>5. t = Append(s, e)
  BY <1>2, <1>3, <1>4
<1> QED  BY <1>5 DEF t

\* The elements are a sequence as long as size says.
LEMMA ElementsSequence ==
    ASSUME Ring
    PROVE  /\ Elements \in Seq(Element) /\ Len(Elements) = size
           /\ \A i \in 1..size : Elements[i] = queue[Cell(i)]
<1>1. size \in Nat
  BY DEF Ring
<1>2. \A i \in 1..size : queue[Cell(i)] \in Element
  BY DEF Ring
<1> QED  BY <1>1, <1>2 DEF Elements

\* A push into a full ring moves the elements to the beginning of a buffer of
\* twice the size (Push).
LEMMA PushFullStep ==
    ASSUME Ring, NEW e \in Element, PushFull(e)
    PROVE  /\ Ring'
           /\ Elements' = Append(Elements, e)
<1>1. /\ cap \in Nat \ {0} /\ head \in 0..(cap - 1) /\ size = cap
      /\ queue \in [0..(cap - 1) -> Element \union {Nil}]
      /\ \A i \in 1..size : queue[Cell(i)] \in Element
  BY DEF Ring, PushFull, Full, Cell
<1>2. /\ cap' = 2 * cap /\ head' = 0 /\ size' = cap + 1 /\ popped' = popped
      /\ queue' = [Grown EXCEPT ![cap] = e]
  BY <1>1 DEF PushFull
<1>3. \A i \in 1..(cap + 1) : Cell(i)' = i - 1
  BY <1>1, <1>2 DEF Cell
<1>4. Grown \in [0..(2 * cap - 1) -> Element \union {Nil}]
  BY <1>1 DEF Grown
<1>5. queue' \in [0..(2 * cap - 1) -> Element \union {Nil}]
  BY <1>1, <1>2, <1>4
<1>6. \A i \in 1..cap : queue'[i - 1] = queue[Cell(i)]
  <2> SUFFICES ASSUME NEW i \in 1..cap PROVE queue'[i - 1] = queue[Cell(i)]
    OBVIOUS
  <2>1. queue'[i - 1] = Grown[i - 1]
    BY <1>1, <1>2, <1>4
  <2>2. Grown[i - 1] = IF i - 1 < cap - head THEN queue[i - 1 + head]
                       ELSE queue[i - 1 - (cap - head)]
    BY <1>1 DEF Grown
  <2>3. CASE i - 1 < cap - head
    BY <1>1, <2>1, <2>2, <2>3 DEF Cell
  <2>4. CASE ~(i - 1 < cap - head)
    <3>1. Cell(i) = i - 1 - (cap - head)
      BY <1>1, <2>4 DEF Cell
    <3> QED  BY <2>1, <2>2, <2>4, <3>1
  <2> QED  BY <2>3, <2>4
<1>7. queue'[cap] = e
  BY <1>1, <1>2, <1>4
<1>8. tail' = Cell(size + 1)'
  <2>1. tail' = IF cap + 1 = 2 * cap THEN 0 ELSE cap + 1
    <3>1. 2 * cap \in Nat \ {0} /\ cap \in 0..(2 * cap - 1)
      BY <1>1
    <3>2. tail' = (cap + 1) % (2 * cap)
      BY DEF PushFull
    <3> HIDE <1>1
    <3> QED  BY <3>1, <3>2, NextCell
  <2> QED  BY <1>1, <1>2, <2>1 DEF Cell
<1>9. Ring'
  <2>1. tail' \in 0..(cap' - 1)
    BY <1>1, <1>2, <1>8 DEF Cell
  <2>2. \A i \in 1..size' : queue'[Cell(i)'] \in Element
    BY <1>1, <1>2, <1>3, <1>6, <1>7
  <2>3. popped' \in Element \union {Nil}
    BY <1>2 DEF Ring
  <2> QED  BY <1>1, <1>2, <1>5, <1>8, <2>1, <2>2, <2>3 DEF Ring
<1>10. Elements' = Append(Elements, e)
  <2>1. Elements \in Seq(Element) /\ Len(Elements) = cap
        /\ \A i \in 1..cap : Elements[i] = queue[Cell(i)]
    BY <1>1, ElementsSequence
  <2>2. Elements' = [i \in 1..(cap + 1) |-> queue'[i - 1]]
    BY <1>1, <1>2, <1>3 DEF Elements
  <2>3. \A i \in 1..(cap + 1) : queue'[i - 1] = IF i <= cap THEN Elements[i] ELSE e
    BY <1>1, <1>6, <1>7, <2>1
  <2> DEFINE f == [i \in 1..(cap + 1) |-> queue'[i - 1]]
  <2>4. \A i \in 1..(cap + 1) : f[i] = IF i <= cap THEN Elements[i] ELSE e
    BY <2>3
  <2>5. Elements' = [i \in 1..(cap + 1) |-> f[i]]
    BY <2>2
  <2> HIDE DEF f
  <2> QED  BY <2>1, <2>4, <2>5, AppendPointwise
<1> QED  BY <1>9, <1>10

\* A push into a ring with room fills the cell at tail (Push).
LEMMA PushRoomStep ==
    ASSUME Ring, NEW e \in Element, PushRoom(e)
    PROVE  /\ Ring'
           /\ Elements' = Append(Elements, e)
<1>1. /\ cap \in Nat \ {0} /\ head \in 0..(cap - 1) /\ size \in 0..cap
      /\ tail \in 0..(cap - 1) /\ tail = Cell(size + 1)
      /\ queue \in [0..(cap - 1) -> Element \union {Nil}]
      /\ \A i \in 1..size : queue[Cell(i)] \in Element
  BY DEF Ring
<1>2. size < cap
  BY <1>1 DEF PushRoom, Full, Cell
<1>3. /\ cap' = cap /\ head' = head /\ size' = size + 1 /\ popped' = popped
      /\ queue' = [queue EXCEPT ![tail] = e]
  BY DEF PushRoom
<1>4. \A i \in 1..(size + 2) : Cell(i)' = Cell(i)
  BY <1>3 DEF Cell
<1>5. \A i \in 1..size : Cell(i) \in 0..(cap - 1) /\ Cell(i) # tail
  BY <1>1, <1>2 DEF Cell
<1>6. /\ \A i \in 1..size : queue'[Cell(i)] = queue[Cell(i)]
      /\ queue'[Cell(size + 1)] = e
  BY <1>1, <1>3, <1>5
<1>7. tail' = Cell(size + 1)'
  <2>1. tail' = IF tail + 1 = cap THEN 0 ELSE tail + 1
    BY <1>1, NextCell DEF PushRoom
  <2> QED  BY <1>1, <1>2, <1>3, <2>1 DEF Cell
<1>8. Ring'
  <2>1. tail' \in 0..(cap' - 1)
    BY <1>1, <1>2, <1>3, <1>7 DEF Cell
  <2>2. queue' \in [0..(cap - 1) -> Element \union {Nil}]
    BY <1>1, <1>3
  <2>3. \A i \in 1..size' : queue'[Cell(i)'] \in Element
    BY <1>1, <1>3, <1>4, <1>6
  <2>4. popped' \in Element \union {Nil}
    BY <1>3 DEF Ring
  <2> QED  BY <1>1, <1>2, <1>3, <1>7, <2>1, <2>2, <2>3, <2>4 DEF Ring
<1>9. Elements' = Append(Elements, e)
  <2>1. Elements \in Seq(Element) /\ Len(Elements) = size
        /\ \A i \in 1..size : Elements[i] = queue[Cell(i)]
    BY ElementsSequence
  <2>2. Elements' = [i \in 1..(size + 1) |-> queue'[Cell(i)]]
    BY <1>1, <1>3, <1>4 DEF Elements
  <2>3. \A i \in 1..(size + 1) : queue'[Cell(i)] = IF i <= size THEN Elements[i] ELSE e
    BY <1>1, <1>6, <2>1
  <2> DEFINE f == [i \in 1..(size + 1) |-> queue'[Cell(i)]]
  <2>4. \A i \in 1..(size + 1) : f[i] = IF i <= size THEN Elements[i] ELSE e
    BY <2>3
  <2>5. Elements' = [i \in 1..(size + 1) |-> f[i]]
    BY <2>2
  <2> HIDE DEF f
  <2> QED  BY <2>1, <2>4, <2>5, AppendPointwise
<1> QED  BY <1>8, <1>9

\* Pop takes the element at head (Pop).
LEMMA PopStep ==
    ASSUME Ring, Pop
    PROVE  /\ Ring'
           /\ \/ Elements # <<>> /\ popped' = Elements[1] /\ Elements' = Tail(Elements)
              \/ Elements = <<>> /\ popped' = Nil /\ Elements' = Elements
<1>1. /\ cap \in Nat \ {0} /\ head \in 0..(cap - 1) /\ size \in 0..cap
      /\ tail \in 0..(cap - 1) /\ tail = Cell(size + 1)
      /\ queue \in [0..(cap - 1) -> Element \union {Nil}]
      /\ \A i \in 1..size : queue[Cell(i)] \in Element
  BY DEF Ring
<1>2. Elements \in Seq(Element) /\ Len(Elements) = size
      /\ \A i \in 1..size : Elements[i] = queue[Cell(i)]
  BY ElementsSequence
<1>3. CASE size = 0
  <2>1. UNCHANGED <<queue, cap, size, head, tail>> /\ popped' = Nil
    BY <1>3 DEF Pop
  <2>2. Ring'
    BY <2>1 DEF Ring, Cell
  <2>3. Elements = <<>> /\ Elements' = Elements
    BY <1>2, <1>3, <2>1 DEF Elements, Cell
  <2> QED  BY <2>1, <2>2, <2>3
<1>4. CASE size # 0
  <2>1. /\ popped' = queue[head] /\ size' = size - 1
        /\ queue' = queue /\ cap' = cap /\ tail' = tail
    BY <1>4 DEF Pop
  <2>2. head' = IF head + 1 = cap THEN 0 ELSE head + 1
    BY <1>1, <1>4, NextCell DEF Pop
  <2>3. \A i \in 1..size : Cell(i)' = Cell(i + 1)
    BY <1>1, <2>1, <2>2 DEF Cell
  <2>4. Cell(1) = head
    BY <1>1 DEF Cell
  <2>5. Ring'
    <3>1. \A i \in 1..size' : queue'[Cell(i)'] \in Element
      BY <1>1, <1>4, <2>1, <2>3
    <3>2. tail' = Cell(size + 1)'
      BY <1>1, <1>4, <2>1, <2>2 DEF Cell
    <3>3. popped' \in Element \union {Nil}
      BY <1>1, <2>1
    <3> QED  BY <1>1, <1>4, <2>1, <2>2, <3>1, <3>2, <3>3 DEF Ring
  <2>6. Elements # <<>> /\ popped' = Elements[1]
    BY <1>1, <1>2, <1>4, <2>1, <2>4
  <2>7. Elements' = Tail(Elements)
    <3>1. Elements' = [i \in 1..(size - 1) |-> queue[Cell(i + 1)]]
      BY <1>1, <1>4, <2>1, <2>3 DEF Elements
    <3>2. \A i \in 1..(size - 1) : queue[Cell(i + 1)] = Elements[i + 1]
      BY <1>1, <1>2
    <3> QED  BY <1>1, <1>2, <1>4, <3>1, <3>2
  <2> QED  BY <2>5, <2>6, <2>7
<1> QED  BY <1>3, <1>4

\* A new queue is an empty ring (NewQueue).
LEMMA InitQueue == NewQueue => Ring /\ F!Init
<1> SUFFICES ASSUME NewQueue PROVE Ring /\ F!Init
  OBVIOUS
<1>1. Ring
  BY QueueConstants DEF NewQueue, Ring, Cell
<1>2. Elements = <<>>
  BY <1>1, ElementsSequence DEF NewQueue
<1> QED  BY <1>1, <1>2 DEF NewQueue, F!Init

\* Every step keeps the ring intact and is a step of a queue.
LEMMA StepQueue == Ring /\ [Next]_vars => Ring' /\ [F!Next]_(F!vars)
<1> SUFFICES ASSUME Ring, [Next]_vars PROVE Ring' /\ [F!Next]_(F!vars)
  OBVIOUS
<1>1. CASE UNCHANGED vars
  <2>1. Ring'
    BY <1>1 DEF vars, Ring, Cell
  <2>2. Elements' = Elements /\ popped' = popped
    BY <1>1 DEF vars, Elements, Cell
  <2> QED  BY <2>1, <2>2 DEF F!vars
<1>2. CASE Pop
  BY <1>2, PopStep DEF F!Next, F!Pop
<1>3. ASSUME NEW e \in Element, Push(e) PROVE Ring' /\ F!Next
  <2>1. popped' = popped
    BY <1>3 DEF Push, PushFull, PushRoom
  <2>2. Ring' /\ Elements' = Append(Elements, e)
    BY <1>3, PushFullStep, PushRoomStep DEF Push
  <2> QED  BY <2>1, <2>2 DEF F!Next, F!Push
<1> QED  BY <1>1, <1>2, <1>3 DEF Next

\* The ring is intact in every state (Push, Pop).
THEOREM RingIntact == Spec => []Ring
<1> QED  BY InitQueue, StepQueue, PTL DEF Spec

\* The ring buffer implements a queue (Push, Pop).
THEOREM QueueIsFifo == Spec => ImplementsFifo
<1> QED  BY InitQueue, StepQueue, PTL DEF Spec, ImplementsFifo, F!Spec

-----------------------------------------------------------------------------
(* Ballots *)

\* A number made of a quotient and a remainder.
LEMMA DivMod ==
    ASSUME NEW d \in Nat \ {0}, NEW q \in Nat, NEW r \in 0..(d - 1)
    PROVE  (q * d + r) \div d = q /\ (q * d + r) % d = r
OBVIOUS

\* The quotient and the remainder of a number.
LEMMA DivRange ==
    ASSUME NEW d \in Nat \ {0}, NEW b \in Nat
    PROVE  b \div d \in Nat /\ b % d \in 0..(d - 1) /\ b = (b \div d) * d + (b % d)
OBVIOUS

\* A larger factor gives a larger product.
LEMMA LargerProduct ==
    ASSUME NEW a \in Nat, NEW b \in Nat, a <= b, NEW d \in Nat
    PROVE  a * d \in Nat /\ a * d <= b * d
OBVIOUS

\* A number less than a divisor.
LEMMA SmallRemainder == ASSUME NEW d \in Nat \ {0}, NEW b \in Nat, b < d PROVE b % d = b
OBVIOUS

\* Shifting twice, and shifting a sum.
LEMMA Shifts ==
    ASSUME NEW m \in Nat, NEW z \in Nat, NEW d \in Nat
    PROVE  /\ z * d \in Nat /\ m * d \in Nat /\ m * d * d \in Nat
           /\ m * d * d = m * (d * d) /\ (m * d + z) * d = m * (d * d) + z * d
<1>1. \A a, b \in Nat : a * b \in Nat
  OBVIOUS
<1>2. m * d * d = m * (d * d)
  OBVIOUS
<1>3. \A a, b, c \in Nat : (a + b) * c = a * c + b * c
  OBVIOUS
<1>4. m * d \in Nat /\ z * d \in Nat /\ m * d * d \in Nat
  BY <1>1
<1>5. (m * d + z) * d = m * d * d + z * d
  BY <1>3, <1>4
<1> QED BY <1>2, <1>4, <1>5

\* The sizes of the parts of a word.
LEMMA WordParts ==
    /\ Field \in Nat \ {0} /\ Field * Field \in Nat \ {0} /\ Word \in Nat \ {0}
    /\ Word = (Field * Field) * (Field * Field) /\ Field <= Field * Field /\ Field * Field <= Word
<1> DEFINE S == Field * Field
<1>1. Field \in Nat \ {0} /\ 1 <= Field /\ 1 \in Nat
  BY BallotFields
<1>2. S \in Nat \ {0} /\ Field <= S
  BY <1>1
<1>3. Word = S * S
  <2>1. \A a, b \in Nat : a * b * b = a * (b * b)
    OBVIOUS
  <2> QED BY <1>1, <1>2, <2>1 DEF Word
<1>4. S * S \in Nat \ {0} /\ S <= S * S
  <2> HIDE DEF S
  <2> QED BY <1>2
<1> QED BY <1>1, <1>2, <1>3, <1>4

\* Next with a counter that does not overflow gives a word with this counter or
\* more, and with the parts of an ID that fits.
LEMMA NewBallotIs ==
    ASSUME NEW m \in Nat, m < Field * Field, NEW id \in ID
    PROVE  /\ NewBallot(m, id) \in 0..(Word - 1)
           /\ NewBallot(m, id) >= m * (Field * Field)
           /\ Fits(id) => N(NewBallot(m, id)) = m /\ IDOf(NewBallot(m, id)) = id
<1> DEFINE S == Field * Field
           high == m * S
           z == (id.zone * Field) % Word
           b == id.node % Word
<1>1. /\ Field \in Nat \ {0} /\ S \in Nat \ {0} /\ Word \in Nat \ {0}
      /\ Word = S * S /\ Field <= S /\ S <= Word
      /\ id.zone \in Nat /\ id.node \in Nat /\ id.zone * Field \in Nat
      /\ id = [zone |-> id.zone, node |-> id.node]
  <2>1. id.zone \in Nat /\ id.node \in Nat /\ id = [zone |-> id.zone, node |-> id.node]
    BY BallotFields DEF ID
  <2>2. id.zone * Field \in Nat
    BY <2>1, WordParts, Shifts
  <2> QED BY <2>1, <2>2, WordParts
<1>2. high \in 0..(Word - 1) /\ (m * Field * Field) % Word = high /\ high % S = 0
  <2>1. m + 1 \in Nat /\ m + 1 <= S /\ (m + 1) * S = high + S
    <3>1. m < S
      OBVIOUS
    <3>2. \A a, c \in Nat : (a + 1) * c = a * c + c
      OBVIOUS
    <3> HIDE DEF S
    <3> QED BY <1>1, <3>1, <3>2
  <2>2. high \in Nat /\ high + S <= Word
    <3>1. (m + 1) * S <= S * S
      <4> HIDE DEF S
      <4> QED BY <1>1, <2>1, LargerProduct
    <3>2. high \in Nat
      <4> HIDE DEF S
      <4> QED BY <1>1
    <3> HIDE DEF S, high
    <3> QED BY <1>1, <2>1, <3>1, <3>2
  <2>3. high \in 0..(Word - 1)
    <3> HIDE DEF S, high
    <3> QED BY <1>1, <2>2
  <2>4. m * Field * Field = high
    BY <1>1, Shifts
  <2>5. high % Word = high
    <3> HIDE DEF S, high
    <3> QED BY <1>1, <2>3
  <2>6. high % S = 0
    <3>1. 0 \in 0..(S - 1) /\ high + 0 = high
      <4> HIDE DEF S, high
      <4> QED BY <1>1, <2>2
    <3>2. (m * S + 0) % S = 0
      <4> HIDE DEF S
      <4> QED BY <1>1, <3>1, DivMod
    <3> QED BY <3>1, <3>2
  <2> QED BY <2>3, <2>4, <2>5, <2>6
<1>3. z \in 0..(Word - 1) /\ b \in 0..(Word - 1)
  <2> DEFINE zf == id.zone * Field
  <2>1. zf \in Nat
    BY <1>1
  <2> HIDE DEF zf
  <2>2. zf % Word \in 0..(Word - 1) /\ id.node % Word \in 0..(Word - 1)
    BY <1>1, <2>1, DivRange
  <2> QED BY <2>2 DEF zf
<1>4. NewBallot(m, id) = WordOr(WordOr(high, z), b)
  BY <1>2 DEF NewBallot
<1>5. /\ WordOr(high, z) \in 0..(Word - 1) /\ WordOr(high, z) >= high
      /\ WordOr(WordOr(high, z), b) \in 0..(Word - 1) /\ WordOr(WordOr(high, z), b) >= WordOr(high, z)
  <2> HIDE DEF high, z, b, S
  <2>1. WordOr(high, z) \in 0..(Word - 1) /\ WordOr(high, z) >= high
    BY <1>2, <1>3, BitwiseOr
  <2> QED BY <1>3, <2>1, BitwiseOr
<1>6. WordOr(WordOr(high, z), b) >= high
  <2> HIDE DEF high, z, b, S
  <2>1. high \in Int /\ Word \in Int
    BY <1>1, <1>2
  <2>2. \A x, y \in 0..(Word - 1) : x >= high /\ y >= x => y >= high
    BY <2>1
  <2> QED BY <1>5, <2>2
<1>7. ASSUME Fits(id)
      PROVE  N(NewBallot(m, id)) = m /\ IDOf(NewBallot(m, id)) = id
  <2> DEFINE low == id.zone * Field
  <2>1. id.zone < Field /\ id.node < Field
    BY <1>7 DEF Fits
  <2>2. low \in Nat /\ low + Field <= S
    <3>1. id.zone + 1 \in Nat /\ id.zone + 1 <= Field /\ (id.zone + 1) * Field = low + Field
      BY <1>1, <2>1
    <3>2. (id.zone + 1) * Field <= Field * Field
      BY <1>1, <3>1, LargerProduct
    <3>3. low \in Nat
      BY <1>1
    <3> HIDE DEF low
    <3> QED BY <3>1, <3>2, <3>3
  <2>3. low < S /\ low < Word /\ id.node < Word /\ low + id.node \in 0..(S - 1)
    <3> HIDE DEF low, S
    <3> QED BY <1>1, <2>1, <2>2
  <2>4. z = low /\ b = id.node
    <3> HIDE DEF S
    <3>1. low % Word = low
      <4> HIDE DEF low
      <4> QED BY <1>1, <2>2, <2>3, SmallRemainder
    <3>2. id.node % Word = id.node
      BY <1>1, <2>3, SmallRemainder
    <3> QED BY <3>1, <3>2
  <2>5. WordOr(high, z) = high + low
    <3>1. z \in 0..(Word - 1) /\ z < S /\ S \in {Field, Field * Field}
      BY <1>3, <2>3, <2>4
    <3>2. WordOr(high, z) = high + z
      <4> HIDE DEF high, z, b
      <4> QED BY <1>2, <3>1, BitwiseOr
    <3> QED BY <2>4, <3>2
  <2>6. (high + low) % Field = 0
    <3> DEFINE q == m * Field + id.zone
    <3>1. q \in Nat /\ q * Field = high + low
      <4>1. m * Field \in Nat /\ q * Field = high + low
        BY <1>1, Shifts
      <4> QED BY <1>1, <4>1
    <3>2. 0 \in 0..(Field - 1) /\ q * Field + 0 = q * Field
      BY <1>1, <3>1
    <3>3. (q * Field + 0) % Field = 0
      <4> HIDE DEF q
      <4> QED BY <1>1, <3>1, <3>2, DivMod
    <3> QED BY <3>1, <3>2, <3>3
  <2>7. NewBallot(m, id) = high + low + id.node
    <3>1. b < Field /\ Field \in {Field, Field * Field}
      BY <2>1, <2>4
    <3>2. WordOr(WordOr(high, z), b) = WordOr(high, z) + b
      <4>1. WordOr(high, z) % Field = 0
        BY <2>5, <2>6
      <4> HIDE DEF high, z, b, S
      <4> QED BY <1>3, <1>5, <3>1, <4>1, BitwiseOr
    <3> QED BY <1>4, <2>4, <2>5, <3>2
  <2>8. high + low + id.node = m * S + (low + id.node)
    <3>1. high \in Nat /\ low \in Nat /\ id.node \in Nat
      BY <1>1, <1>2, <2>2
    <3>2. high + low + id.node = high + (low + id.node)
      <4> HIDE DEF high, low
      <4> QED BY <3>1
    <3> QED BY <3>2
  <2>9. /\ (m * S + (low + id.node)) \div S = m
        /\ (m * S + (low + id.node)) % S = low + id.node
    <3> HIDE DEF S, low
    <3> QED BY <1>1, <2>3, DivMod
  <2>10. (low + id.node) \div Field = id.zone
    <3>1. id.node \in 0..(Field - 1)
      BY <1>1, <2>1
    <3> QED BY <1>1, <3>1, DivMod
  <2>11. (m * S + (low + id.node)) % Field = id.node
    <3> DEFINE q == m * Field + id.zone
    <3>1. q \in Nat /\ q * Field + id.node = m * S + (low + id.node)
      <4>1. m * Field \in Nat /\ q * Field = high + low /\ high = m * S
        BY <1>1, Shifts
      <4>2. q \in Nat
        BY <1>1, <4>1
      <4>3. high + low + id.node = high + (low + id.node)
        BY <2>8
      <4> QED BY <4>1, <4>2, <4>3
    <3>2. id.node \in 0..(Field - 1)
      BY <1>1, <2>1
    <3>3. (q * Field + id.node) % Field = id.node
      <4> HIDE DEF q
      <4> QED BY <1>1, <3>1, <3>2, DivMod
    <3> QED BY <3>1, <3>3
  <2> HIDE DEF high, low
  <2> QED BY <1>1, <2>7, <2>8, <2>9, <2>10, <2>11 DEF N, IDOf
<1> QED BY <1>4, <1>5, <1>6, <1>7

\* Whatever IDs are given to Next, the ballot grows until its counter wraps
\* around, and with an ID that fits its fields it counts one more and keeps both
\* parts of the ID, for fields of any width.
THEOREM BallotsDoGrow == BallotSpec => BallotsGrow
<1> DEFINE IsWord == ballot \in 0..(Word - 1)
           Grows  == N(ballot) + 1 < Field * Field =>
                       /\ ballot' > ballot
                       /\ Fits(by') => N(ballot') = N(ballot) + 1 /\ IDOf(ballot') = by'
<1>1. BallotInit => IsWord
  <2> SUFFICES ASSUME NEW id \in ID PROVE NewBallot(0, id) \in 0..(Word - 1)
    BY DEF BallotInit
  <2>1. 0 \in Nat /\ 0 < Field * Field
    BY WordParts
  <2> QED BY <2>1, NewBallotIs
<1>2. ASSUME NEW id \in ID, NEW m \in Nat PROVE NewBallot(m, id) \in 0..(Word - 1)
  <2> DEFINE x == m * Field * Field
             y == id.zone * Field
             w == id.node
  <2>1. x \in Nat /\ y \in Nat /\ w \in Nat
    <3>1. id.zone \in Nat /\ id.node \in Nat /\ Field \in Nat
      BY BallotFields DEF ID
    <3> QED BY <3>1, Shifts
  <2>2. Word \in Nat \ {0}
    BY WordParts
  <2> HIDE DEF x, y, w
  <2>3. x % Word \in 0..(Word - 1) /\ y % Word \in 0..(Word - 1) /\ w % Word \in 0..(Word - 1)
    BY <2>1, <2>2, DivRange
  <2>4. WordOr(x % Word, y % Word) \in 0..(Word - 1)
    BY <2>3, BitwiseOr
  <2>5. WordOr(WordOr(x % Word, y % Word), w % Word) \in 0..(Word - 1)
    BY <2>3, <2>4, BitwiseOr
  <2> QED BY <2>5 DEF NewBallot, x, y, w
<1>3. ASSUME IsWord PROVE N(ballot) \in Nat /\ ballot < (N(ballot) + 1) * (Field * Field) /\ ballot \in Nat
  <2> DEFINE S == Field * Field
             q == ballot \div S
  <2>1. S \in Nat \ {0} /\ ballot \in Nat
    BY <1>3, WordParts
  <2>2. N(ballot) = q
    BY DEF N
  <2>3. q \in Nat /\ ballot % S \in 0..(S - 1) /\ ballot = q * S + (ballot % S)
    <3> HIDE DEF S
    <3> QED BY <2>1, DivRange
  <2>4. (q + 1) * S = q * S + S /\ q * S \in Nat
    <3> HIDE DEF S, q
    <3> QED BY <2>1, <2>3
  <2>5. ballot < (q + 1) * S
    <3> DEFINE qs == q * S
    <3> HIDE DEF S, q, qs
    <3>1. qs \in Nat /\ ballot = qs + (ballot % S)
      BY <2>3, <2>4 DEF qs
    <3>2. ballot < qs + S
      BY <2>1, <2>3, <3>1
    <3> QED BY <2>4, <3>2 DEF qs
  <2> QED BY <2>1, <2>2, <2>3, <2>5
<1>4. IsWord /\ [BallotNext]_ballotVars => IsWord'
  <2>1. ASSUME IsWord, NEW id \in ID, NextBallot(id) PROVE IsWord'
    <3>1. N(ballot) + 1 \in Nat
      BY <1>3, <2>1
    <3> QED BY <1>2, <2>1, <3>1 DEF NextBallot
  <2>2. ASSUME IsWord, UNCHANGED ballotVars PROVE IsWord'
    BY <2>2 DEF ballotVars
  <2> QED BY <2>1, <2>2 DEF BallotNext
<1>5. IsWord /\ [BallotNext]_ballotVars => [Grows]_ballotVars
  <2> SUFFICES ASSUME IsWord, NEW id \in ID, NextBallot(id), N(ballot) + 1 < Field * Field
               PROVE  /\ ballot' > ballot
                      /\ Fits(by') => N(ballot') = N(ballot) + 1 /\ IDOf(ballot') = by'
    BY DEF BallotNext
  <2> DEFINE m == N(ballot) + 1
  <2>1. m \in Nat /\ m < Field * Field /\ ballot < m * (Field * Field) /\ ballot \in Nat
    BY <1>3
  <2>2. ballot' = NewBallot(m, id) /\ by' = id
    BY DEF NextBallot
  <2> HIDE DEF m
  <2>3. /\ ballot' \in 0..(Word - 1) /\ ballot' >= m * (Field * Field)
        /\ Fits(by') => N(ballot') = m /\ IDOf(ballot') = by'
    BY <2>1, <2>2, NewBallotIs
  <2>4. ballot' > ballot
    <3> DEFINE high == m * (Field * Field)
    <3>1. high \in Nat /\ Word \in Nat
      BY <2>1, WordParts
    <3> HIDE DEF high
    <3> QED BY <2>1, <2>3, <3>1 DEF high
  <2> QED BY <2>3, <2>4 DEF m
<1> QED BY <1>1, <1>4, <1>5, PTL DEF BallotSpec, BallotsGrow

-----------------------------------------------------------------------------
(* Strongly connected components *)

CONSTANT Unit
VARIABLES index, lowlink, stacked, stack, calls, output

SCC == INSTANCE GraphSCC

SCCDone == calls = <<>> /\ Vertex \subseteq DOMAIN index

Calling(v, left) == [v |-> v, left |-> left]

\* Every iteration of a range calls strongConnect with Unit, the first time
\* only, and Unit has no successors: there are two calls at most.
TwoCalls ==
    \/ calls = <<>> /\ stack = <<>> /\ stacked = {}
    \/ \E v \in Vertex \cap DOMAIN index, left \in SUBSET Vertex :
          /\ calls = <<Calling(v, left)>> /\ stack = <<v>> /\ stacked = {v}
          /\ Unit \in DOMAIN index \/ left = from[v]
    \/ \E v \in Vertex \cap DOMAIN index, left \in SUBSET Vertex :
          /\ calls = <<Calling(v, left), Calling(Unit, {})>>
          /\ stack = <<v, Unit>> /\ stacked = {v, Unit}
          /\ Unit \in DOMAIN index /\ index[v] < index[Unit]

\* Numbers are given in order, and no lowlink is ever lowered.
Ascending ==
    /\ from \in [Vertex -> SUBSET Vertex]
    /\ DOMAIN index \subseteq Vertex \cup {Unit} /\ IsFiniteSet(DOMAIN index)
    /\ index \in [DOMAIN index -> Nat] /\ lowlink = index
    /\ \A x \in DOMAIN index : index[x] < Cardinality(DOMAIN index)

\* What strongConnect has returned from is a component by itself.
Single ==
    /\ output = {{x} : x \in DOMAIN index \ stacked}
    /\ \A v \in (Vertex \cap DOMAIN index) \ stacked :
          from[v] = {} \/ Unit \in DOMAIN index
    /\ Unit \in DOMAIN index => \E v \in Vertex : from[v] # {}

SCCInv == Ascending /\ TwoCalls /\ Single

LEMMA AppendPair ==
    ASSUME NEW x, NEW y
    PROVE  Append(<<x>>, y) = <<x, y>>
<1>1. <<x>> \in Seq({x, y}) /\ Len(<<x>>) = 1 /\ <<x>>[1] = x
  OBVIOUS
<1> DEFINE t == Append(<<x>>, y)
<1>2. t \in Seq({x, y}) /\ Len(t) = 2 /\ t[1] = x /\ t[2] = y
  BY <1>1, AppendProperties
<1> HIDE DEF t
<1>3. t = <<x, y>>
  BY <1>2
<1> QED BY <1>3 DEF t

LEMMA FirstOfTwo ==
    ASSUME NEW x, NEW y
    PROVE  SubSeq(<<x, y>>, 1, 1) = <<x>>
<1> DEFINE s == <<x, y>>
           t == SubSeq(s, 1, 1)
<1>1. s \in Seq({x, y}) /\ Len(s) = 2 /\ s[1] = x
  OBVIOUS
<1> HIDE DEF s
<1>2. t \in Seq({x, y}) /\ Len(t) = 1 /\ t[1] = x
  BY <1>1, SubSeqProperties
<1> HIDE DEF t
<1>3. t = <<x>>
  BY <1>2
<1> QED BY <1>3 DEF s, t

LEMMA SCCInit == SCC!Init => SCCInv
<1> SUFFICES ASSUME SCC!Init PROVE SCCInv
  OBVIOUS
<1> USE DEF SCC!Init
<1>1. DOMAIN index = {}
  OBVIOUS
<1>2. Ascending
  BY <1>1, FS_EmptySet DEF Ascending
<1>3. TwoCalls /\ Single
  BY <1>1 DEF TwoCalls, Single
<1> QED BY <1>2, <1>3 DEF SCCInv

\* What a call of strongConnect does to the numbers.
LEMMA Entered ==
    ASSUME Ascending, NEW v \in Vertex \cup {Unit}, v \notin DOMAIN index,
           NEW frames, SCC!Enter(v, frames)
    PROVE  /\ Ascending' /\ DOMAIN index' = DOMAIN index \cup {v}
           /\ stacked' = stacked \cup {v} /\ stack' = Append(stack, v)
           /\ calls' = Append(frames, Calling(v, IF v \in Vertex THEN from[v] ELSE {}))
           /\ from' = from /\ output' = output
           /\ \A x \in DOMAIN index : index'[x] = index[x] /\ index'[x] < index'[v]
<1> DEFINE n == Cardinality(DOMAIN index)
<1>1. /\ index' = SCC!With(index, v, n) /\ lowlink' = SCC!With(lowlink, v, n)
      /\ from' = from
  <2>1. SCC!Cardinality(DOMAIN index) = n
    BY DEF SCC!Cardinality, Cardinality, SCC!IsFiniteSet, IsFiniteSet
  <2> QED BY <2>1 DEF SCC!Enter
<1>2. index' = [u \in DOMAIN index \cup {v} |-> IF u = v THEN n ELSE index[u]]
  BY <1>1 DEF SCC!With
<1>3. lowlink' = index'
  BY <1>1 DEF Ascending
<1>4. /\ n \in Nat /\ DOMAIN index' = DOMAIN index \cup {v}
      /\ IsFiniteSet(DOMAIN index') /\ Cardinality(DOMAIN index') = n + 1
  BY <1>2, FS_AddElement, FS_CardinalityType DEF Ascending
<1>5. index' \in [DOMAIN index' -> Nat]
  BY <1>2, <1>4 DEF Ascending
<1>6. \A x \in DOMAIN index' : index'[x] < n + 1
  <2> TAKE x \in DOMAIN index'
  <2>1. CASE x = v
    BY <1>2, <1>4, <2>1
  <2>2. CASE x # v
    <3>1. x \in DOMAIN index /\ index'[x] = index[x] /\ index[x] \in Nat
      BY <1>2, <1>4, <2>2 DEF Ascending
    <3> QED BY <3>1, <1>4 DEF Ascending
  <2> QED BY <2>1, <2>2
<1>7. Ascending'
  BY <1>1, <1>3, <1>4, <1>5, <1>6 DEF Ascending
<1>8. ASSUME NEW x \in DOMAIN index
      PROVE  index'[x] = index[x] /\ index'[x] < index'[v]
  BY <1>2 DEF Ascending
<1> QED BY <1>4, <1>7, <1>8 DEF SCC!Enter, Calling

LEMMA SCCRoot ==
    ASSUME SCCInv, Unit \notin Vertex, NEW v \in Vertex, SCC!Root(v)
    PROVE  SCCInv'
<1>1. /\ calls = <<>> /\ v \notin DOMAIN index /\ SCC!Enter(v, <<>>)
      /\ stack = <<>> /\ stacked = {}
  BY DEF SCC!Root, SCCInv, TwoCalls
<1>2. /\ Ascending' /\ DOMAIN index' = DOMAIN index \cup {v}
      /\ stacked' = {v} /\ stack' = <<v>> /\ calls' = <<Calling(v, from[v])>>
      /\ from' = from /\ output' = output
  <2> DEFINE frame == Calling(v, IF v \in Vertex THEN from[v] ELSE {})
  <2>1. /\ Ascending' /\ DOMAIN index' = DOMAIN index \cup {v}
        /\ stacked' = stacked \cup {v} /\ stack' = Append(stack, v)
        /\ calls' = Append(<<>>, frame) /\ from' = from /\ output' = output
    BY <1>1, Entered DEF SCCInv
  <2>2. frame = Calling(v, from[v])
    OBVIOUS
  <2> HIDE DEF frame
  <2> QED BY <1>1, <2>1, <2>2
<1>3. TwoCalls'
  <2>1. from[v] \in SUBSET Vertex
    BY DEF SCCInv, Ascending
  <2> QED BY <1>2, <2>1 DEF TwoCalls
<1>4. Single'
  BY <1>1, <1>2 DEF Single, SCCInv
<1> QED BY <1>2, <1>3, <1>4 DEF SCCInv

LEMMA SCCRangeOver ==
    ASSUME SCCInv, Unit \notin Vertex, NEW u \in Vertex, SCC!RangeOver(u)
    PROVE  SCCInv'
<1>1. PICK v \in Vertex \cap DOMAIN index, left \in SUBSET Vertex :
         /\ calls = <<Calling(v, left)>> /\ stack = <<v>> /\ stacked = {v}
         /\ Unit \in DOMAIN index \/ left = from[v]
         /\ u \in left
  <2>1. calls # <<>> /\ u \in SCC!Last(calls).left
    BY DEF SCC!RangeOver
  <2>2. \A v, left : calls # <<Calling(v, left), Calling(Unit, {})>>
    <3> SUFFICES ASSUME NEW v, NEW left, calls = <<Calling(v, left), Calling(Unit, {})>>
                 PROVE  FALSE
      OBVIOUS
    <3>1. SCC!Last(calls) = Calling(Unit, {})
      BY DEF SCC!Last
    <3> QED BY <2>1, <3>1 DEF Calling
  <2>3. PICK v \in Vertex \cap DOMAIN index, left \in SUBSET Vertex :
           /\ calls = <<Calling(v, left)>> /\ stack = <<v>> /\ stacked = {v}
           /\ Unit \in DOMAIN index \/ left = from[v]
    BY <2>1, <2>2 DEF SCCInv, TwoCalls
  <2>4. SCC!Last(calls) = Calling(v, left)
    BY <2>3 DEF SCC!Last
  <2>5. u \in left
    BY <2>1, <2>4 DEF Calling
  <2> QED BY <2>3, <2>5
<1> DEFINE rest == <<Calling(v, left \ {u})>>
<1>2. Append(SCC!Front(calls), [SCC!Last(calls) EXCEPT !.left = @ \ {u}]) = rest
  <2>1. SCC!Last(calls) = Calling(v, left) /\ SCC!Front(calls) = <<>>
    BY <1>1 DEF SCC!Last, SCC!Front
  <2>2. [Calling(v, left) EXCEPT !.left = @ \ {u}] = Calling(v, left \ {u})
    BY DEF Calling
  <2> QED BY <2>1, <2>2
<1>3. \/ Unit \notin DOMAIN index /\ SCC!Enter(Unit, rest)
      \/ /\ Unit \in DOMAIN index /\ calls' = rest
         /\ lowlink' = IF Unit \in stacked
                         THEN SCC!Lower(SCC!Last(calls).v, index[Unit]) ELSE lowlink
         /\ UNCHANGED <<from, index, stacked, stack, output>>
  <2> HIDE DEF rest
  <2> QED BY <1>2 DEF SCC!RangeOver
<1>4. CASE Unit \notin DOMAIN index /\ SCC!Enter(Unit, rest)
  <2>1. /\ Ascending' /\ DOMAIN index' = DOMAIN index \cup {Unit}
        /\ stacked' = {v, Unit} /\ stack' = <<v, Unit>>
        /\ calls' = <<Calling(v, left \ {u}), Calling(Unit, {})>>
        /\ from' = from /\ output' = output /\ index'[v] < index'[Unit]
    <3> DEFINE frame == Calling(Unit, IF Unit \in Vertex THEN from[Unit] ELSE {})
    <3>1. /\ Ascending' /\ DOMAIN index' = DOMAIN index \cup {Unit}
          /\ stacked' = stacked \cup {Unit} /\ stack' = Append(stack, Unit)
          /\ calls' = Append(rest, frame) /\ from' = from /\ output' = output
          /\ \A x \in DOMAIN index : index'[x] < index'[Unit]
      <4> HIDE DEF rest
      <4> QED BY <1>4, Entered DEF SCCInv
    <3>2. frame = Calling(Unit, {})
      OBVIOUS
    <3>3. \A x, y : Append(<<x>>, y) = <<x, y>>
      BY AppendPair
    <3> HIDE DEF frame
    <3> QED BY <1>1, <3>1, <3>2, <3>3
  <2>2. TwoCalls'
    <3>1. left \ {u} \in SUBSET Vertex /\ v \in Vertex \cap DOMAIN index'
      BY <2>1
    <3> QED BY <2>1, <3>1 DEF TwoCalls
  <2>3. Single'
    <3>1. from[v] # {}
      BY <1>1, <1>4
    <3> QED BY <1>1, <1>4, <2>1, <3>1 DEF Single, SCCInv
  <2> QED BY <2>1, <2>2, <2>3 DEF SCCInv
<1>5. CASE /\ Unit \in DOMAIN index /\ calls' = rest
           /\ lowlink' = IF Unit \in stacked
                           THEN SCC!Lower(SCC!Last(calls).v, index[Unit]) ELSE lowlink
           /\ UNCHANGED <<from, index, stacked, stack, output>>
  <2>1. lowlink' = lowlink /\ UNCHANGED <<from, index, stacked, stack, output>>
    BY <1>1, <1>5
  <2>2. Ascending' /\ Single'
    BY <2>1 DEF SCCInv, Ascending, Single
  <2>3. TwoCalls'
    <3>1. left \ {u} \in SUBSET Vertex
      OBVIOUS
    <3> QED BY <1>1, <1>5, <3>1 DEF TwoCalls
  <2> QED BY <2>2, <2>3 DEF SCCInv
<1> QED BY <1>3, <1>4, <1>5

LEMMA SCCLeave ==
    ASSUME SCCInv, Unit \notin Vertex, SCC!Leave
    PROVE  SCCInv'
<1> DEFINE at == CHOOSE i \in DOMAIN stack : stack[i] = SCC!Last(calls).v
           component == {stack[i] : i \in at..Len(stack)}
<1>1. /\ calls # <<>> /\ calls' = SCC!Front(calls)
      /\ lowlink' = IF SCC!Front(calls) = <<>> THEN lowlink
                    ELSE SCC!Lower(SCC!Last(SCC!Front(calls)).v, lowlink[SCC!Last(calls).v])
      /\ \/ /\ lowlink[SCC!Last(calls).v] = index[SCC!Last(calls).v]
            /\ output' = output \cup {component}
            /\ stacked' = stacked \ component
            /\ stack' = SubSeq(stack, 1, at - 1)
         \/ lowlink[SCC!Last(calls).v] # index[SCC!Last(calls).v]
      /\ from' = from /\ index' = index
  BY DEF SCC!Leave
<1>2. /\ output' = output \cup {component}
      /\ stacked' = stacked \ component
      /\ stack' = SubSeq(stack, 1, at - 1)
  BY <1>1 DEF SCCInv, Ascending
<1>3. ASSUME NEW v \in Vertex \cap DOMAIN index, NEW left \in SUBSET Vertex,
             calls = <<Calling(v, left)>>, stack = <<v>>, stacked = {v},
             Unit \in DOMAIN index \/ left = from[v]
      PROVE  SCCInv'
  <2>1. SCC!Last(calls).v = v /\ SCC!Last(calls).left = left /\ SCC!Front(calls) = <<>>
    BY <1>3 DEF SCC!Last, SCC!Front, Calling
  <2>2. left = {}
    BY <2>1 DEF SCC!Leave
  <2>3. component = {v} /\ SubSeq(stack, 1, at - 1) = <<>>
    <3>1. DOMAIN stack = {1} /\ Len(stack) = 1 /\ stack[1] = v
      BY <1>3
    <3>2. at = 1
      BY <2>1, <3>1
    <3>3. {stack[i] : i \in 1..1} = {v} /\ SubSeq(stack, 1, 0) = <<>>
      BY <1>3
    <3> HIDE DEF at
    <3> QED BY <3>1, <3>2, <3>3
  <2> HIDE DEF at, component
  <2>4. /\ stacked' = {} /\ stack' = <<>> /\ calls' = <<>> /\ lowlink' = lowlink
        /\ output' = output \cup {{v}} /\ from' = from /\ index' = index
    BY <1>1, <1>2, <1>3, <2>1, <2>3
  <2>5. Ascending' /\ TwoCalls'
    BY <2>4 DEF SCCInv, Ascending, TwoCalls
  <2>6. Single'
    <3>1. output' = {{x} : x \in DOMAIN index}
      BY <1>3, <2>4 DEF SCCInv, Single
    <3> QED BY <1>3, <2>2, <2>4, <3>1 DEF SCCInv, Single
  <2> QED BY <2>5, <2>6 DEF SCCInv
<1>4. ASSUME NEW v \in Vertex \cap DOMAIN index, NEW left \in SUBSET Vertex,
             calls = <<Calling(v, left), Calling(Unit, {})>>,
             stack = <<v, Unit>>, stacked = {v, Unit}, Unit \in DOMAIN index,
             index[v] < index[Unit]
      PROVE  SCCInv'
  <2>1. /\ SCC!Last(calls).v = Unit /\ SCC!Front(calls) = <<Calling(v, left)>>
        /\ SCC!Last(SCC!Front(calls)).v = v
    <3> DEFINE f == Calling(v, left)
               g == Calling(Unit, {})
    <3>1. /\ calls \in Seq({f, g}) /\ Len(calls) = 2 /\ calls[1] = f /\ calls[2] = g
          /\ f.v = v /\ g.v = Unit
      BY <1>4 DEF Calling
    <3> HIDE DEF f, g
    <3>2. SubSeq(calls, 1, 1) = <<f>>
      BY <1>4, FirstOfTwo DEF f, g
    <3>3. SCC!Last(calls) = g /\ SCC!Front(calls) = <<f>> /\ SCC!Last(<<f>>) = f
      BY <3>1, <3>2 DEF SCC!Last, SCC!Front
    <3> QED BY <3>1, <3>3 DEF f
  <2>2. component = {Unit} /\ SubSeq(stack, 1, at - 1) = <<v>>
    <3>1. /\ DOMAIN stack = {1, 2} /\ Len(stack) = 2
          /\ stack[1] = v /\ stack[2] = Unit /\ v # Unit
      BY <1>4
    <3>2. at = 2
      BY <2>1, <3>1
    <3>3. {stack[i] : i \in 2..2} = {Unit}
      BY <3>1
    <3>4. SubSeq(stack, 1, 1) = <<v>>
      BY <1>4, FirstOfTwo
    <3> HIDE DEF at
    <3> QED BY <3>1, <3>2, <3>3, <3>4
  <2> HIDE DEF at, component
  <2>3. lowlink' = lowlink
    <3>1. lowlink' = SCC!Lower(v, lowlink[Unit])
      BY <1>1, <2>1
    <3>2. /\ lowlink[v] < lowlink[Unit] /\ lowlink \in [DOMAIN index -> Nat]
          /\ v \in DOMAIN index /\ Unit \in DOMAIN index
      BY <1>4 DEF SCCInv, Ascending
    <3>3. ~(lowlink[Unit] < lowlink[v])
      BY <3>2
    <3> QED BY <3>1, <3>2, <3>3 DEF SCC!Lower
  <2>4. /\ stacked' = {v} /\ stack' = <<v>> /\ calls' = <<Calling(v, left)>>
        /\ output' = output \cup {{Unit}} /\ from' = from /\ index' = index
    BY <1>1, <1>2, <1>4, <2>1, <2>2
  <2>5. Ascending' /\ TwoCalls'
    BY <1>4, <2>3, <2>4 DEF SCCInv, Ascending, TwoCalls
  <2>6. Single'
    <3>1. output' = {{x} : x \in DOMAIN index \ {v}}
      BY <1>4, <2>4 DEF SCCInv, Single
    <3> QED BY <1>4, <2>4, <3>1 DEF SCCInv, Single
  <2> QED BY <2>5, <2>6 DEF SCCInv
<1> QED BY <1>1, <1>3, <1>4 DEF SCCInv, TwoCalls

LEMMA SCCSafe == ASSUME Unit \notin Vertex PROVE SCC!Spec => []SCCInv
<1>1. SCC!Init => SCCInv
  BY SCCInit
<1>2. SCCInv /\ [SCC!Next]_SCC!vars => SCCInv'
  <2> SUFFICES ASSUME SCCInv, [SCC!Next]_SCC!vars
               PROVE  SCCInv'
    OBVIOUS
  <2>1. ASSUME NEW v \in Vertex, SCC!Root(v) PROVE SCCInv'
    BY <2>1, SCCRoot
  <2>2. ASSUME NEW v \in Vertex, SCC!RangeOver(v) PROVE SCCInv'
    BY <2>2, SCCRangeOver
  <2>3. CASE SCC!Leave
    BY <2>3, SCCLeave
  <2>4. CASE UNCHANGED SCC!vars
    BY <2>4 DEF SCC!vars, SCCInv, Ascending, TwoCalls, Single
  <2> QED BY <2>1, <2>2, <2>3, <2>4 DEF SCC!Next
<1> QED BY <1>1, <1>2, PTL DEF SCC!Spec

\* What SCC returns: every vertex by itself, and the set of struct{}{} as well
\* if the graph has an edge, whatever the order of the maps, for strongConnect
\* ranges over the values of a Set and not over its keys.  So it finds the
\* strongly connected components of the graphs without edges only (SCC).
Singletons ==
    IF \E v \in Vertex : from[v] # {}
      THEN output = {{x} : x \in Vertex \cup {Unit}} /\ ~SCC!SCCsFound
      ELSE output = {{x} : x \in Vertex} /\ SCC!SCCsFound

\* SCC returns Singletons, for every graph whose vertices are not struct{}{}
\* (SCC, strongConnect).
THEOREM SCCsAreSingle ==
    ASSUME Unit \notin Vertex
    PROVE  SCC!Spec => [](SCCDone => Singletons)
<1>1. SCCInv => (SCCDone => Singletons)
  <2> SUFFICES ASSUME SCCInv, SCCDone PROVE Singletons
    OBVIOUS
  <2>1. output = {{x} : x \in DOMAIN index} /\ Vertex \subseteq DOMAIN index
    <3>1. stacked = {}
      BY DEF SCCInv, TwoCalls, SCCDone
    <3> QED BY <3>1 DEF SCCInv, Single, SCCDone
  <2>2. CASE \E v \in Vertex : from[v] # {}
    <3>1. Unit \in DOMAIN index
      BY <2>2 DEF SCCInv, TwoCalls, Single, SCCDone
    <3>2. DOMAIN index = Vertex \cup {Unit}
      BY <2>1, <3>1 DEF SCCInv, Ascending
    <3>3. {Unit} \in output /\ output = {{x} : x \in Vertex \cup {Unit}}
      BY <2>1, <3>2
    <3>4. {Unit} \notin SCC!Components
      BY DEF SCC!Components
    <3>5. ~SCC!SCCsFound
      BY <3>3, <3>4 DEF SCC!SCCsFound, SCCDone
    <3> QED BY <2>2, <3>3, <3>5 DEF Singletons
  <2>3. CASE ~ \E v \in Vertex : from[v] # {}
    <3>1. DOMAIN index = Vertex
      BY <2>1, <2>3 DEF SCCInv, Ascending, Single
    <3>2. output = {{x} : x \in Vertex}
      BY <2>1, <3>1
    <3>3. ASSUME NEW v \in Vertex PROVE SCC!ReachedFrom(v) = {v}
      <4>1. {v} \in SUBSET Vertex /\ \A w \in {v} : from[w] \subseteq {v}
        BY <2>3
      <4> QED BY <4>1 DEF SCC!ReachedFrom
    <3>4. SCC!Components = {{x} : x \in Vertex}
      BY <3>3 DEF SCC!Components
    <3> QED BY <2>3, <3>2, <3>4 DEF Singletons, SCC!SCCsFound
  <2> QED BY <2>2, <2>3
<1>2. SCC!Spec => []SCCInv
  BY SCCSafe
<1> QED BY <1>1, <1>2, PTL
=============================================================================
