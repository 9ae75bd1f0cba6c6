---------------------------- MODULE ReachingFacts ----------------------------
(***************************************************************************)
(* What IFDSSolver promises: the known points only ever grow, each is      *)
(* either a seed the client gave or follows from a known point along one   *)
(* edge of the graph.  Nothing is said of the order: no worklist here.     *)
(***************************************************************************)
EXTENDS Supergraph

CONSTANTS
    EntryChoices,  \* <<function, entry, exit>> a client may register
    CallChoices,   \* <<node, caller, callee, return node>>
    EdgeChoices,   \* <<from, to, context, flow function>>
    SeedChoices    \* points a client may seed

ASSUME ChoicesAssumption ==
    /\ EntryChoices \subseteq Functions \X Nodes \X Nodes
    /\ CallChoices \subseteq Nodes \X Functions \X Functions \X Nodes
    /\ EdgeChoices \subseteq Nodes \X Nodes \X Context \X FlowFunction
    /\ SeedChoices \subseteq Point

VARIABLE result    \* _result_facts, as the set of known points

reachVars == <<edgeFlows, callSites, entryNodes, exitNodes, returnNodes, result>>

RegisterEntryExit == \E x \in EntryChoices : SetEntryExitNodes(x[1], x[2], x[3])
RegisterCall      == \E x \in CallChoices : SetCallSite(x[1], x[2], x[3], x[4])
RegisterEdge      == \E x \in EdgeChoices : AddEdgeFlow(x[1], x[2], x[3], x[4])

Register == RegisterEntryExit \/ RegisterCall \/ RegisterEdge

ReachInit == GraphInit /\ result = {}

Seed ==
    /\ \E p \in SeedChoices : result' = result \cup {p}
    /\ UNCHANGED graphVars

Derive ==
    /\ \E p \in result : \E q \in Succ(p) : result' = result \cup {q}
    /\ UNCHANGED graphVars

ReachNext ==
    \/ Register /\ UNCHANGED result
    \/ Seed
    \/ Derive

ReachSpec == ReachInit /\ [][ReachNext]_reachVars
==============================================================================
