------------------------------ MODULE IFDSSolver ------------------------------
(***************************************************************************)
(* guardmarly/v2/ifds.py, class IFDSSolver: tabulation with a FIFO         *)
(* worklist of (node, context) keys.                                       *)
(*                                                                         *)
(* solve() pops a key and walks over the facts known there when it was     *)
(* popped (todo).  _propagate_fact computes the successors of one of them  *)
(* (adds), and _add_fact_at_node stores each, queueing its key when it is  *)
(* new.  A frozenset has no order, so neither have todo and adds here.     *)
(*                                                                         *)
(* Clients (v2_java_bridge.py) register the graph and the seeds, then      *)
(* solve; more seeds and another solve() may follow.  Registering an edge  *)
(* after solve() is not part of the protocol modelled: the solver would    *)
(* not look at it until its source is queued again.                        *)
(***************************************************************************)
EXTENDS ReachingFacts

VARIABLES
    worklist,  \* _worklist
    todo,      \* the facts of the popped key not yet propagated
    adds,      \* successors of the fact in hand not yet added
    phase,     \* "setup", "solving" or "solved"
    seeds      \* history: every point set_seed_fact was given

solverVars == <<worklist, todo, adds, phase, seeds>>
vars == <<graphVars, result, solverVars>>

Queued(k) == \E i \in 1..Len(worklist) : worklist[i] = k

Init ==
    /\ ReachInit
    /\ worklist = <<>>
    /\ todo = {}
    /\ adds = {}
    /\ phase = "setup"
    /\ seeds = {}

SetUp ==
    /\ phase = "setup"
    /\ Register
    /\ UNCHANGED <<result, solverVars>>

(* set_seed_fact queues the key even when the fact was known. *)
SetSeedFact(p) ==
    /\ phase \in {"setup", "solved"}
    /\ result' = result \cup {p}
    /\ worklist' = Append(worklist, Key(p))
    /\ seeds' = seeds \cup {p}
    /\ UNCHANGED <<graphVars, todo, adds, phase>>

Solve ==
    /\ phase \in {"setup", "solved"}
    /\ phase' = "solving"
    /\ UNCHANGED <<graphVars, result, worklist, todo, adds, seeds>>

(* Mutant: only one of the facts of the popped key is propagated. *)
PopKeyOneFact ==
    /\ phase = "solving"
    /\ todo = {} /\ adds = {}
    /\ worklist # <<>>
    /\ todo' = {CHOOSE p \in result : Key(p) = Head(worklist)}
    /\ worklist' = Tail(worklist)
    /\ UNCHANGED <<graphVars, result, adds, phase, seeds>>

(* Mutant: facts are looked up by node alone, whatever the context. *)
PopKeyAnyContext ==
    /\ phase = "solving"
    /\ todo = {} /\ adds = {}
    /\ worklist # <<>>
    /\ todo' = {<<p[1], Head(worklist)[2], p[3]>> :
                  p \in {q \in result : q[1] = Head(worklist)[1]}}
    /\ worklist' = Tail(worklist)
    /\ UNCHANGED <<graphVars, result, adds, phase, seeds>>

PopKey ==
    /\ phase = "solving"
    /\ todo = {} /\ adds = {}
    /\ worklist # <<>>
    /\ todo' = {p \in result : Key(p) = Head(worklist)}
    /\ worklist' = Tail(worklist)
    /\ UNCHANGED <<graphVars, result, adds, phase, seeds>>

(* Mutant: the edge's source is replaced by its successors. *)
PropagateFactReplace(p) ==
    /\ adds = {}
    /\ adds' = Succ(p)
    /\ todo' = todo \ {p}
    /\ result' = IF Succ(p) = {} THEN result ELSE result \ {p}
    /\ UNCHANGED <<graphVars, worklist, phase, seeds>>

PropagateFact(p) ==
    /\ adds = {}
    /\ adds' = Succ(p)
    /\ todo' = todo \ {p}
    /\ UNCHANGED <<graphVars, result, worklist, phase, seeds>>

(* Mutant: the key is queued even when the fact was known. *)
AddFactAlwaysQueue(p) ==
    /\ adds' = adds \ {p}
    /\ result' = result \cup {p}
    /\ worklist' = Append(worklist, Key(p))
    /\ UNCHANGED <<graphVars, todo, phase, seeds>>

AddFactAtNode(p) ==
    /\ adds' = adds \ {p}
    /\ result' = result \cup {p}
    /\ worklist' = IF p \in result THEN worklist ELSE Append(worklist, Key(p))
    /\ UNCHANGED <<graphVars, todo, phase, seeds>>

SolveReturns ==
    /\ phase = "solving"
    /\ todo = {} /\ adds = {}
    /\ worklist = <<>>
    /\ phase' = "solved"
    /\ UNCHANGED <<graphVars, result, worklist, todo, adds, seeds>>

SolveStep ==
    \/ PopKey
    \/ \E p \in todo : PropagateFact(p)
    \/ \E p \in adds : AddFactAtNode(p)
    \/ SolveReturns

Next ==
    \/ SetUp
    \/ \E p \in SeedChoices : SetSeedFact(p)
    \/ Solve
    \/ SolveStep

(* solve() is one thread running to its end. *)
Spec == Init /\ [][Next]_vars /\ WF_vars(SolveStep)

-------------------------------------------------------------------------------
TypeOK ==
    /\ GraphTypeOK
    /\ result \subseteq Point
    /\ worklist \in Seq(Nodes \X Context)
    /\ todo \subseteq result
    /\ adds \subseteq Point
    /\ phase \in {"setup", "solving", "solved"}
    /\ seeds \subseteq result

(* The worklist discipline: a known point is queued, in hand, or all its   *)
(* successors are known (or about to be).  Losing one here is losing a     *)
(* taint flow for good, since nothing else would queue it again.           *)
NoneLost ==
    \A p \in result :
        \/ Queued(Key(p))
        \/ p \in todo
        \/ Succ(p) \subseteq result \cup adds

(* When solve() has returned and nothing was seeded since, the answers of  *)
(* query() are a fixed point: following any edge adds nothing.             *)
FixedPoint ==
    (phase = "solved" /\ worklist = <<>>) => \A p \in result : Succ(p) \subseteq result

(* No answer comes from nowhere: a set of points that holds the seeds and  *)
(* is closed under the edges taken is everything.  With FixedPoint this    *)
(* makes the answers the LEAST fixed point above the seeds.                *)
Grounded ==
    \A C \in SUBSET (result \cup adds) :
        /\ seeds \subseteq C
        /\ \A p \in C : Succ(p) \cap (result \cup adds) \subseteq C
        => C = result \cup adds

(* No context grows by itself, however deep the recursion of the analysed  *)
(* program: it has at most MaxDepth call sites, or is no longer than one   *)
(* the client gave with an edge or a seed.  A program has finitely many    *)
(* call sites, so finitely many points can become known.                   *)
ContextsCut ==
    \A p \in result \cup adds :
        \/ Len(p[2]) <= MaxDepth
        \/ \E e \in DOMAIN edgeFlows : Len(p[2]) <= Len(e[3])
        \/ \E s \in seeds : Len(p[2]) <= Len(s[2])

(* Every step of solve() is a step towards its end: a point becomes known  *)
(* that was not, or else the worklist gets shorter, or what was popped is  *)
(* used up.  A known point put back on the worklist would undo this.       *)
SolveAdvances ==
    [][phase = "solving" =>
        \/ result \subseteq result' /\ result' # result
        \/ UNCHANGED result /\ Len(worklist') < Len(worklist)
        \/ UNCHANGED <<result, worklist>> /\ todo' \subseteq todo /\ todo' # todo
        \/ UNCHANGED <<result, worklist, todo>> /\ adds' \subseteq adds /\ adds' # adds
        \/ UNCHANGED <<result, worklist, todo, adds>> /\ phase' = "solved"]_vars

(* solve() returns, recursion in the analysed program included: contexts   *)
(* are cut at MaxDepth.                                                    *)
SolveTerminates == (phase = "solving") ~> (phase = "solved")

(* The module's header promises call and return edges, and the comment in  *)
(* _propagate_fact "Propagate back to return node": what is known at the   *)
(* exit of a callee is known at the return node of the call.               *)
ReturnsFlow ==
    (phase = "solved" /\ worklist = <<>>) =>
        \A s \in DOMAIN returnNodes : \A p \in result :
            (/\ s.callee \in DOMAIN exitNodes
             /\ p[1] = exitNodes[s.callee]
             /\ p[2] = Append(Pop(p[2]), s))
            => <<returnNodes[s], Pop(p[2]), p[3]>> \in result

(* The worklist algorithm implements the order-free specification. *)
Abstract == INSTANCE ReachingFacts WITH result <- result
ReachSpecHolds == Abstract!ReachSpec
===============================================================================
