----------------------------- MODULE GraphSCC -------------------------------
(***************************************************************************)
(* SCC of src/lib/graph_scc.go, Tarjan's algorithm on the map from of a    *)
(* graph (see Graph): one step per iteration of a loop, in any order of    *)
(* the maps; the calls of strongConnect are frames of a stack.             *)
(***************************************************************************)
EXTENDS Integers, Sequences, SequencesExt, FiniteSets

CONSTANTS
    Vertex,
    Unit       \* struct{}{}, the value of every element of a Set

VARIABLES
    from,      \* the graph; constant
    index, lowlink,
    stacked,   \* the vertices whose node is stacked
    stack,
    calls,     \* frames of strongConnect: its v, what it still ranges over
    output

vars == <<from, index, lowlink, stacked, stack, calls, output>>

Init == /\ from \in {f \in [Vertex -> SUBSET Vertex] : \A v \in Vertex : v \notin f[v]}
        /\ index = <<>> /\ lowlink = <<>> /\ stacked = {}
        /\ stack = <<>> /\ calls = <<>> /\ output = {}

With(f, v, x) == [u \in DOMAIN f \cup {v} |-> IF u = v THEN x ELSE f[u]]

\* strongConnect(v) begins, called from the frames below.
Enter(v, frames) ==
    LET i == Cardinality(DOMAIN index)
    IN /\ index' = With(index, v, i) /\ lowlink' = With(lowlink, v, i)
       /\ stacked' = stacked \cup {v} /\ stack' = Append(stack, v)
       /\ calls' = Append(frames,
                     [v |-> v, left |-> IF v \in Vertex THEN from[v] ELSE {}])
       /\ UNCHANGED <<from, output>>

\* The loop of SCC.
Root(v) == /\ calls = <<>> /\ v \notin DOMAIN index
           /\ Enter(v, <<>>)

Lower(v, i) == [lowlink EXCEPT ![v] = IF i < @ THEN i ELSE @]

\* An iteration of "for _, w := range data.graph[v]", where w is the value of
\* the map and not the key u.
RangeOver(u) ==
    LET top  == Last(calls)
        w    == Unit
        rest == Append(Front(calls), [top EXCEPT !.left = @ \ {u}])
    IN /\ calls # <<>> /\ u \in top.left
       /\ \/ /\ w \notin DOMAIN index
             /\ Enter(w, rest)
          \/ /\ w \in DOMAIN index
             /\ lowlink' = IF w \in stacked THEN Lower(top.v, index[w]) ELSE lowlink
             /\ calls' = rest
             /\ UNCHANGED <<from, index, stacked, stack, output>>

\* strongConnect returns: the root of a component takes it from the stack, and
\* the caller takes over the lowlink.
Leave ==
    LET v == Last(calls).v
        caller == Front(calls)
        at == CHOOSE i \in DOMAIN stack : stack[i] = v
        component == {stack[i] : i \in at..Len(stack)}
    IN /\ calls # <<>> /\ Last(calls).left = {}
       /\ calls' = caller
       /\ lowlink' = IF caller = <<>> THEN lowlink ELSE Lower(Last(caller).v, lowlink[v])
       /\ \/ /\ lowlink[v] = index[v]
             /\ output' = output \cup {component}
             /\ stacked' = stacked \ component
             /\ stack' = SubSeq(stack, 1, at - 1)
          \/ /\ lowlink[v] # index[v]
             /\ UNCHANGED <<output, stacked, stack>>
       /\ UNCHANGED <<from, index>>

Next == (\E v \in Vertex : Root(v) \/ RangeOver(v)) \/ Leave

Spec == Init /\ [][Next]_vars

-----------------------------------------------------------------------------
(* Properties *)

\* What can be reached from v: the least set with v and all its successors.
ReachedFrom(v) ==
    {u \in Vertex : \A C \in SUBSET Vertex :
        v \in C /\ (\A w \in C : from[w] \subseteq C) => u \in C}

\* The strongly connected components of the graph.
Components ==
    {{u \in Vertex : u \in ReachedFrom(v) /\ v \in ReachedFrom(u)} : v \in Vertex}

\* "SCC find SCCs using Tarjan's algorithm" (src/lib/graph_scc.go:3): what SCC
\* returns are the strongly connected components (SCC, strongConnect).
SCCsFound == calls = <<>> /\ Vertex \subseteq DOMAIN index => output = Components
=============================================================================
