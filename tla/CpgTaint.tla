------------------------------- MODULE CpgTaint -------------------------------
(*****************************************************************************)
(* CPGTaintEngine.find_taint_paths (cpg/taint_engine.py): a search of the     *)
(* graph from every source, last found first, that remembers a node and the    *)
(* tags it was reached with, and ends each path at the first sink.             *)
(*                                                                             *)
(* The memory layout is left out: assignments write it, and every answer that  *)
(* is read from it leads to the same state.                                    *)
(*****************************************************************************)
EXTENDS Integers, Sequences, Functions

CONSTANTS
    SourceCalls,            \* calls that return tainted data
    SinkCalls,              \* calls that must not get any
    SanitizerCalls          \* calls that sanitize, type casts among them

VARIABLES
    cpg,                    \* the graph
    worklist,               \* (node, tags, path) still to be visited
    visited,                \* visited_states
    nodeTaint,              \* _node_taint: the tags each node was reached with
    paths                   \* the TaintPaths found

searchVars == <<cpg, worklist, visited, nodeTaint, paths>>

-------------------------------------------------------------------------------
(* EdgeKind, in the order in which the edges of a node are listed. *)
KindOrder == <<"CFG_NEXT", "CFG_BRANCH_TRUE", "CFG_BRANCH_FALSE", "CFG_EXCEPT",
               "DATA_DEPENDENCY">>
EdgeKinds == Range(KindOrder)

NodeKinds ==
    {"assign", "annassign", "augassign", "expr", "with", "return", "raise", "break", "continue",
     "test", "loop", "try", "except", "def", "phi"}

(* What a node is, its line, the call it consists of and the variables it uses. *)
NodeType ==
    [op : NodeKinds, line : Nat, call : STRING \cup {"none"}, uses : SUBSET STRING]

(* A graph: a node is its number, its edges of each kind are listed. *)
IsCpg(g) ==
    /\ g.nodes \in Seq(NodeType)
    /\ g.edges \in [DOMAIN g.nodes -> [EdgeKinds -> Seq(DOMAIN g.nodes)]]

Nodes == DOMAIN cpg.nodes
OpOf(n) == cpg.nodes[n].op
CallOf(n) == cpg.nodes[n].call

IsSource(n) == OpOf(n) \in {"assign", "annassign", "expr"} /\ CallOf(n) \in SourceCalls
IsSink(n) == OpOf(n) \in {"assign", "expr", "test"} /\ CallOf(n) \in SinkCalls

(* USER_CONTROLLED with _source_tag added. *)
Tags(n) == {"user_controlled"} \cup (IF OpOf(n) = "assign" THEN {CallOf(n)} ELSE {})

TagNames == {"user_controlled"} \cup {CallOf(n) : n \in Nodes}

(* An isinstance() guard on the variable that the next test consists of. *)
GuardStrips(from, to) ==
    /\ OpOf(from) = "test" /\ CallOf(from) = "isinstance" /\ cpg.nodes[from].uses # {}
    /\ OpOf(to) = "test" /\ CallOf(to) = "name" /\ cpg.nodes[to].uses = cpg.nodes[from].uses

(* _propagate: whether taint goes along an edge.  Only the test of an if is a
   node that is a call, so only there a sanitizer stops it. *)
Propagates(from, kind, to) ==
    CASE kind \in {"CFG_EXCEPT", "DATA_DEPENDENCY"} -> TRUE
      [] kind = "CFG_BRANCH_TRUE" /\ GuardStrips(from, to) -> FALSE
      [] OTHER -> ~(OpOf(to) = "test" /\ CallOf(to) \in SanitizerCalls)

(* The elements of s that are in S, in order. *)
Kept(s, S) ==
    LET kept[i \in 0 .. Len(s)] ==
          IF i = 0 THEN <<>>
          ELSE IF s[i] \in S THEN Append(kept[i - 1], s[i]) ELSE kept[i - 1]
    IN  kept[Len(s)]

(* What taint at n goes to along edges of a kind. *)
PropagatedAlong(n, kind) == {m \in Range(cpg.edges[n][kind]) : Propagates(n, kind, m)}

(* The successors of n in the order in which they are pushed. *)
PropagatedTo(n) ==
    LET Along(kind) == Kept(cpg.edges[n][kind], PropagatedAlong(n, kind))
    IN  Along(KindOrder[1]) \o Along(KindOrder[2]) \o Along(KindOrder[3])
            \o Along(KindOrder[4]) \o Along(KindOrder[5])

-------------------------------------------------------------------------------
Sources == {n \in Nodes : IsSource(n)}

(* The worklist is seeded with the sources in the order of their nodes. *)
Seeds ==
    LET sources == Kept([n \in Nodes |-> n], Sources)
    IN  [i \in DOMAIN sources |->
            [node |-> sources[i], tags |-> Tags(sources[i]), path |-> <<sources[i]>>]]

Untainted == [n \in Nodes |-> {}]

SearchStart == worklist = Seeds /\ visited = {} /\ nodeTaint = Untainted /\ paths = <<>>

Searched == worklist = <<>>

Popped == worklist[Len(worklist)]
Remaining == SubSeq(worklist, 1, Len(worklist) - 1)

(* Mutant: a state without its tags. *)
StateKeyNoTags(item) == <<item.node>>

(* state_key: what is visited once, whichever source it came from. *)
StateKey(item) == <<item.node, item.tags>>

SkipVisited ==
    /\ worklist # <<>>
    /\ StateKey(Popped) \in visited
    /\ worklist' = Remaining
    /\ UNCHANGED <<cpg, visited, nodeTaint, paths>>

(* A node reached with these tags for the first time: the end of a path if it is
   a sink, else on to its successors. *)
VisitNode ==
    /\ worklist # <<>>
    /\ LET item == Popped
           n == item.node
           next == PropagatedTo(n)
       IN  /\ StateKey(item) \notin visited
           /\ visited' = visited \cup {StateKey(item)}
           /\ nodeTaint' = [nodeTaint EXCEPT ![n] = @ \cup item.tags]
           /\ IF IsSink(n)
              THEN /\ paths' = Append(paths, [source |-> item.path[1], sink |-> n,
                                              tags |-> item.tags, path |-> item.path])
                   /\ worklist' = Remaining
              ELSE /\ worklist' = Remaining \o
                        [i \in DOMAIN next |->
                            [node |-> next[i], tags |-> item.tags, path |-> Append(item.path, next[i])]]
                   /\ UNCHANGED paths
    /\ UNCHANGED cpg

SearchStep == SkipVisited \/ VisitNode

SearchSpec == IsCpg(cpg) /\ SearchStart /\ [][SearchStep]_searchVars

-------------------------------------------------------------------------------
(* The search keeps to the nodes of a graph. *)
SearchTypeOK ==
    /\ IsCpg(cpg)
    /\ worklist \in Seq([node : Nodes, tags : SUBSET TagNames, path : Seq(Nodes)])
    /\ visited \subseteq Nodes \X SUBSET TagNames
    /\ nodeTaint \in [Nodes -> SUBSET TagNames]
    /\ paths \in Seq([source : Nodes, sink : Nodes, tags : SUBSET TagNames, path : Seq(Nodes)])

(* Reference: where taint at n goes next, and the nodes taint from a source can
   come to without crossing a sink, by the number of steps. *)
Successors(n) == UNION {PropagatedAlong(n, k) : k \in EdgeKinds}

Expanded(ns) == ns \cup UNION {Successors(n) : n \in {m \in ns : ~IsSink(m)}}

ReachedFrom(s) ==
    LET reached[i \in 0 .. Len(cpg.nodes)] == IF i = 0 THEN {s} ELSE Expanded(reached[i - 1])
    IN  reached[Len(cpg.nodes)]

Flows == {f \in Sources \X Nodes : IsSink(f[2]) /\ f[2] \in ReachedFrom(f[1])}

(* A path of the graph from a source along which nothing stops the taint. *)
IsTaintPath(q) ==
    /\ q # <<>> /\ IsSource(q[1])
    /\ \A i \in 1 .. Len(q) - 1 : q[i + 1] \in Successors(q[i]) /\ ~IsSink(q[i])

IsFlow(p) ==
    /\ IsTaintPath(p.path) /\ IsSink(p.sink)
    /\ p.path[1] = p.source /\ p.path[Len(p.path)] = p.sink /\ p.tags = Tags(p.source)

(* In whatever order the search meets them, it reports each sink exactly once for
   each kind of source that comes to it, along a path that is there. *)
ReportsExact ==
    /\ \A i \in DOMAIN paths : IsFlow(paths[i])
    /\ \A i, j \in DOMAIN paths :
          paths[i].sink = paths[j].sink /\ paths[i].tags = paths[j].tags => i = j
    /\ Searched => \A f \in Flows : \E i \in DOMAIN paths :
                      paths[i].sink = f[2] /\ paths[i].tags = Tags(f[1])

(* What the docstring of find_taint_paths says: all source-to-sink paths, so every
   source that comes to a sink is named by one. *)
EverySourceNamed ==
    Searched => \A f \in Flows : \E i \in DOMAIN paths :
                    <<paths[i].source, paths[i].sink>> = f
===============================================================================
