------------------------------- MODULE Graph --------------------------------
(***************************************************************************)
(* The directed graph of src/lib/graph.go, kept as the adjacency maps from *)
(* and to, and its searches.  A search visits Go maps, in any order: it is  *)
(* one step per iteration of its loop.  Nothing changes the graph meanwhile *)
(* (the type has no lock and its users hold the graph alone).               *)
(***************************************************************************)
EXTENDS Integers, FiniteSets, Sequences, SequencesExt

CONSTANT Vertex   \* what a caller may add

VARIABLES
    vertices, from, to,  \* the graph
    op,                  \* the search that runs, or "none"
    pending,             \* the queue of BFS, the stack of DFS, the frames of visit
    visited, result,
    color                \* of each vertex, while visit runs

graph     == <<vertices, from, to>>
search    == <<op, pending, visited, result, color>>
graphVars == <<graph, search>>

Idle == /\ op = "none" /\ pending = <<>> /\ visited = {}
        /\ result = <<>> /\ color = <<>>

NewGraph == /\ vertices = {} /\ from = <<>> /\ to = <<>>
            /\ Idle

-----------------------------------------------------------------------------
(* The graph *)

\* g[v], the empty set for what is not in the map.
Adjacent(g, v) == IF v \in DOMAIN g THEN g[v] ELSE {}

\* The map g with an empty set for each of vs it lacks.
WithVertices(g, vs) == [v \in DOMAIN g \cup vs |-> Adjacent(g, v)]

Add(v) ==
    /\ op = "none"
    /\ vertices' = vertices \cup {v}
    /\ from' = WithVertices(from, {v}) /\ to' = WithVertices(to, {v})
    /\ UNCHANGED search

\* The map g after Remove(v).
Forgotten(g, v) == [u \in DOMAIN g \ {v} |-> g[u] \ {v}]

RemoveVertex(v) ==
    /\ op = "none" /\ v \in vertices
    /\ vertices' = vertices \ {v}
    /\ from' = Forgotten(from, v) /\ to' = Forgotten(to, v)
    /\ UNCHANGED search

\* An edge from a vertex to itself makes AddEdge panic.
AddEdge(u, v) ==
    /\ op = "none" /\ u # v
    /\ vertices' = vertices \cup {u, v}
    /\ from' = [WithVertices(from, {u, v}) EXCEPT ![u] = @ \cup {v}]
    /\ to' = [WithVertices(to, {u, v}) EXCEPT ![v] = @ \cup {u}]
    /\ UNCHANGED search

RemoveEdge(u, v) ==
    /\ op = "none" /\ {u, v} \subseteq vertices
    /\ from' = [from EXCEPT ![u] = @ \ {v}]
    /\ to' = [to EXCEPT ![v] = @ \ {u}]
    /\ UNCHANGED <<vertices, search>>

\* The caller goes on with the graph Transpose returns.
Transpose ==
    /\ op = "none"
    /\ from' = to /\ to' = from
    /\ UNCHANGED <<vertices, search>>

-----------------------------------------------------------------------------
(* BFS, BFSReverse and DFS *)

\* Where the search that runs can go from s.
Onward(s) == Adjacent(IF op = "BFSReverse" THEN to ELSE from, s)

BeginBFS(o, v) ==
    /\ op = "none" /\ o \in {"BFS", "BFSReverse"}
    /\ op' = o /\ pending' = <<v>> /\ visited' = {v}
    /\ UNCHANGED <<graph, result, color>>

StepBFS ==
    LET s == Head(pending) new == Onward(s) \ visited
    IN /\ op \in {"BFS", "BFSReverse"} /\ pending # <<>>
       /\ result' = Append(result, s)
       /\ visited' = visited \cup new
       /\ \E order \in SetToSeqs(new) : pending' = Tail(pending) \o order
       /\ UNCHANGED <<graph, op, color>>

BeginDFS(v) ==
    /\ op = "none"
    /\ op' = "DFS" /\ pending' = <<v>>
    /\ UNCHANGED <<graph, visited, result, color>>

\* A vertex may be on the stack more than once; what it leads to is pushed
\* again each time.
StepDFS ==
    LET s == Last(pending) seen == visited \cup {s}
    IN /\ op = "DFS" /\ pending # <<>>
       /\ visited' = seen
       /\ result' = IF s \in visited THEN result ELSE Append(result, s)
       /\ \E order \in SetToSeqs(Onward(s) \ seen) :
            pending' = Front(pending) \o order
       /\ UNCHANGED <<graph, op, color>>

-----------------------------------------------------------------------------
(* Cyclic and Cycle: the calls of visit are frames of a stack *)

BeginCyclic ==
    /\ op = "none"
    /\ op' = "Cyclic" /\ color' = [v \in vertices |-> "white"]
    /\ UNCHANGED <<graph, pending, visited, result>>

\* visit(v) begins: v turns gray, and what follows it is still to be looked at.
Visit(v, frames) ==
    /\ color[v] = "white"
    /\ color' = [color EXCEPT ![v] = "gray"]
    /\ pending' = Append(frames, [v |-> v, left |-> from[v]])
    /\ UNCHANGED result

VisitRoot(v) ==
    /\ op = "Cyclic" /\ pending = <<>> /\ result = <<>>
    /\ Visit(v, <<>>)
    /\ UNCHANGED <<graph, op, visited>>

\* An iteration of visit's loop: a white successor is visited in turn, a black
\* one is passed over, a gray one ends all calls with TRUE.
VisitEdge(u) ==
    LET top  == Last(pending)
        rest == Append(Front(pending), [top EXCEPT !.left = @ \ {u}])
    IN /\ op = "Cyclic" /\ pending # <<>>
       /\ u \in top.left
       /\ \/ /\ color[u] = "gray"
             /\ result' = <<TRUE>> /\ pending' = <<>>
             /\ UNCHANGED color
          \/ Visit(u, rest)
          \/ /\ color[u] = "black"
             /\ pending' = rest
             /\ UNCHANGED <<color, result>>
       /\ UNCHANGED <<graph, op, visited>>

\* mutant: a vertex stays gray
VisitEndGray ==
    /\ op = "Cyclic" /\ pending # <<>> /\ Last(pending).left = {}
    /\ pending' = Front(pending)
    /\ UNCHANGED <<graph, op, visited, result, color>>

VisitEnd ==
    /\ op = "Cyclic" /\ pending # <<>> /\ Last(pending).left = {}
    /\ color' = [color EXCEPT ![Last(pending).v] = "black"]
    /\ pending' = Front(pending)
    /\ UNCHANGED <<graph, op, visited, result>>

-----------------------------------------------------------------------------
\* What Cycle returns when visit answers TRUE: a cycle and the way to it.
Cycle == {v \in vertices : color[v] = "gray"}

\* The search is over: its loop has ended, or visit has returned.
Over == /\ op # "none" /\ pending = <<>>
        /\ op = "Cyclic" => result # <<>> \/ \A v \in vertices : color[v] # "white"

Return == /\ Over
          /\ op' = "none" /\ visited' = {} /\ result' = <<>> /\ color' = <<>>
          /\ UNCHANGED <<graph, pending>>

Edit == \/ \E v \in Vertex : Add(v) \/ RemoveVertex(v)
        \/ \E u, v \in Vertex : AddEdge(u, v) \/ RemoveEdge(u, v)
        \/ Transpose

Search == \/ \E v \in Vertex : BeginDFS(v) \/ \E o \in {"BFS", "BFSReverse"} : BeginBFS(o, v)
          \/ StepBFS \/ StepDFS
          \/ BeginCyclic \/ VisitEnd
          \/ \E v \in vertices : VisitRoot(v) \/ VisitEdge(v)
          \/ Return

GraphNext == Edit \/ Search

GraphSpec == NewGraph /\ [][GraphNext]_graphVars

-----------------------------------------------------------------------------
(* Properties *)

\* The maps from and to describe the same edges, between vertices of the graph
\* (Add, Remove, AddEdge, RemoveEdge, Transpose).
Mirrored == /\ DOMAIN from = vertices /\ DOMAIN to = vertices
            /\ \A u \in vertices : from[u] \subseteq vertices /\ to[u] \subseteq vertices
            /\ \A u, v \in vertices : v \in from[u] <=> u \in to[v]

\* What follows v: along the edges, or against them in BFSReverse.
Successors(v) == IF op = "BFSReverse" THEN {u \in vertices : v \in from[u]}
                                      ELSE Adjacent(from, v)

\* The vertices that s leads to by one edge or more inside S: those in every set
\* that has what follows s and what follows its own elements.
Leads(S, s) ==
    {v \in S : \A C \in SUBSET S :
        (\A u \in C \cup {s} : Successors(u) \cap S \subseteq C) => v \in C}

\* The vertices a search from s can reach.
Reachable(s) == {s} \cup Leads(vertices, s)

\* Each vertex of the sequence r other than the first is reached from an earlier
\* one; breadth first takes the earliest there is, depth first the latest: when
\* a leads to c but not to b, which is visited between them, b is reached from a
\* vertex before a (breadth first) or between a and b (depth first).
InOrder(r, breadthFirst) ==
    \A i, j, m \in DOMAIN r :
        i < j /\ j < m /\ r[m] \in Onward(r[i]) /\ r[j] \notin Onward(r[i]) =>
            \E x \in IF breadthFirst THEN 1..(i - 1) ELSE (i + 1)..(j - 1) :
                r[j] \in Onward(r[x])

\* A search that is over has visited what can be reached, each vertex once and
\* in its order, though DFS puts vertices on its stack again and again; Cyclic
\* answers TRUE exactly for a graph with a cycle, and the gray vertices that
\* Cycle returns contain one, whatever the order of the maps (BFS, DFS,
\* BFSReverse, Cyclic, Cycle).
SearchesRight ==
    Over => IF op = "Cyclic"
            THEN /\ (result = <<TRUE>>) = (\E v \in vertices : v \in Leads(vertices, v))
                 /\ (result = <<TRUE>>) = (\E v \in Cycle : v \in Leads(Cycle, v))
            ELSE /\ ToSet(result) = Reachable(result[1])
                 /\ Len(result) = Cardinality(ToSet(result))
                 /\ InOrder(result, op # "DFS")
=============================================================================
