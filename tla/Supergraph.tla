------------------------------ MODULE Supergraph ------------------------------
(***************************************************************************)
(* The exploded graph of guardmarly/v2/ifds.py: what a client registers    *)
(* with an IFDSSolver before solving, and the facts that one known fact    *)
(* leads to.                                                               *)
(*                                                                         *)
(* A point <<n, c, f>> says that fact f is known at node n in calling      *)
(* context c.  A context is the sequence of call sites on the stack,       *)
(* newest last, cut to the newest MaxDepth.                                *)
(***************************************************************************)
EXTENDS Naturals, Sequences

CONSTANTS
    Nodes,       \* CFGNode values
    CallNodes,   \* the nodes whose label starts with "call:"
    ExitNodes,   \* the nodes whose label starts with "exit:"
    Functions,   \* function ids
    FunctionOf,  \* FunctionOf[n] is the function_id of node n
    Facts,       \* DataFlowFact values, ZERO_FACT among them
    Zero,        \* ZERO_FACT
    MaxDepth     \* Context.push's max_depth (3 in the code)

ASSUME GraphAssumption ==
    /\ CallNodes \subseteq Nodes
    /\ ExitNodes \subseteq Nodes
    /\ FunctionOf \in [Nodes -> Functions]
    /\ Zero \in Facts
    /\ MaxDepth \in Nat \ {0}

VARIABLES
    edgeFlows,   \* _edge_flows:  (from, to, context) -> flow function
    callSites,   \* _call_sites:  call node -> <<caller, callee>>
    entryNodes,  \* _entry_nodes: function -> entry node
    exitNodes,   \* _exit_nodes:  function -> exit node
    returnNodes  \* _return_nodes: call site -> return node

graphVars == <<edgeFlows, callSites, entryNodes, exitNodes, returnNodes>>

CallSite == [node : Nodes, caller : Functions, callee : Functions]
Context == Seq(CallSite)
Point == Nodes \X Context \X Facts

Key(p) == <<p[1], p[2]>>

-------------------------------------------------------------------------------
(* Flow functions: the three classes the module offers. *)
FlowFunction ==
    [kind : {"identity", "kill"}] \cup [kind : {"generate"}, fact : Facts]

Apply(fn, f) ==
    CASE fn.kind = "identity" -> {f}
      [] fn.kind = "kill"     -> {}
      [] fn.kind = "generate" -> IF f = Zero THEN {fn.fact} ELSE {f, fn.fact}

(* Mutant: the oldest call site is dropped one call late. *)
PushLate(c, site) ==
    LET s == Append(c, site)
    IN  IF Len(s) > MaxDepth + 1 THEN SubSeq(s, Len(s) - MaxDepth, Len(s)) ELSE s

(* Context.push and Context.pop. *)
Push(c, site) ==
    LET s == Append(c, site)
    IN  IF Len(s) > MaxDepth THEN SubSeq(s, Len(s) - MaxDepth + 1, Len(s)) ELSE s

Pop(c) == IF c = <<>> THEN c ELSE SubSeq(c, 1, Len(c) - 1)

-------------------------------------------------------------------------------
(* The three kinds of edge that _propagate_fact follows from a point. *)
EdgeSucc(p) ==
    UNION { {<<e[2], e[3], g>> : g \in Apply(edgeFlows[e], p[3])} :
            e \in {d \in DOMAIN edgeFlows : d[1] = p[1] /\ d[3] = p[2]} }

SiteOf(n) == [node |-> n, caller |-> callSites[n][1], callee |-> callSites[n][2]]

CallSucc(p) ==
    IF /\ p[1] \in CallNodes \cap DOMAIN callSites
       /\ callSites[p[1]][2] \in DOMAIN entryNodes
    THEN {<<entryNodes[callSites[p[1]][2]], Push(p[2], SiteOf(p[1])), p[3]>>}
    ELSE {}

(* The membership test compares a function id with (caller, callee) pairs. *)
ReturnSucc(p) ==
    IF p[1] \in ExitNodes
    THEN {<<e[2], Pop(p[2]), p[3]>> :
            e \in {d \in DOMAIN edgeFlows :
                     /\ FunctionOf[d[1]] \in {callSites[n] : n \in DOMAIN callSites}
                     /\ d[3] = p[2]}}
    ELSE {}

Succ(p) == EdgeSucc(p) \cup CallSucc(p) \cup ReturnSucc(p)

-------------------------------------------------------------------------------
(* Registration: each call overwrites what was registered under its key. *)
Store(f, k, v) == [x \in DOMAIN f \cup {k} |-> IF x = k THEN v ELSE f[x]]

GraphInit ==
    /\ edgeFlows = <<>>
    /\ callSites = <<>>
    /\ entryNodes = <<>>
    /\ exitNodes = <<>>
    /\ returnNodes = <<>>

SetEntryExitNodes(f, entry, exit) ==
    /\ entryNodes' = Store(entryNodes, f, entry)
    /\ exitNodes' = Store(exitNodes, f, exit)
    /\ UNCHANGED <<edgeFlows, callSites, returnNodes>>

SetCallSite(n, caller, callee, ret) ==
    /\ callSites' = Store(callSites, n, <<caller, callee>>)
    /\ returnNodes' =
         Store(returnNodes, [node |-> n, caller |-> caller, callee |-> callee], ret)
    /\ UNCHANGED <<edgeFlows, entryNodes, exitNodes>>

AddEdgeFlow(from, to, c, fn) ==
    /\ edgeFlows' = Store(edgeFlows, <<from, to, c>>, fn)
    /\ UNCHANGED <<callSites, entryNodes, exitNodes, returnNodes>>

-------------------------------------------------------------------------------
GraphTypeOK ==
    /\ DOMAIN edgeFlows \subseteq Nodes \X Nodes \X Context
    /\ edgeFlows \in [DOMAIN edgeFlows -> FlowFunction]
    /\ DOMAIN callSites \subseteq Nodes
    /\ callSites \in [DOMAIN callSites -> Functions \X Functions]
    /\ DOMAIN entryNodes \subseteq Functions
    /\ entryNodes \in [DOMAIN entryNodes -> Nodes]
    /\ DOMAIN exitNodes \subseteq Functions
    /\ exitNodes \in [DOMAIN exitNodes -> Nodes]
    /\ DOMAIN returnNodes \subseteq CallSite
    /\ returnNodes \in [DOMAIN returnNodes -> Nodes]
===============================================================================
