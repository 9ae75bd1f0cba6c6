--------------------------- MODULE IFDSSolverProofs ---------------------------
(***************************************************************************)
(* For every program graph, every set of seeds and every context depth:    *)
(* the worklist loses no known fact (NoneLost), what solve() leaves is a   *)
(* fixed point (FixedPoint), the solver implements ReachingFacts, contexts *)
(* stay bounded, and no step of solve() goes back.                         *)
(***************************************************************************)
EXTENDS IFDSSolver, SequenceTheorems, TLAPS

(* Cutting the context to MaxDepth leaves a context. *)
LEMMA PushType ==
    ASSUME NEW c \in Context, NEW s \in CallSite
    PROVE  Push(c, s) \in Context
<1> DEFINE t == Append(c, s)
<1>1. t \in Seq(CallSite) /\ Len(t) \in Nat /\ \A i \in 1..Len(t) : t[i] \in CallSite
  BY DEF Context
<1>2. CASE Len(t) > MaxDepth
  <2>1. Len(t) - MaxDepth + 1 \in Int /\ Len(t) \in Int
    BY <1>1, GraphAssumption
  <2>2. \A i \in (Len(t) - MaxDepth + 1)..Len(t) : t[i] \in CallSite
    BY <1>1, <1>2, GraphAssumption
  <2>3. SubSeq(t, Len(t) - MaxDepth + 1, Len(t)) \in Seq(CallSite)
    BY <2>1, <2>2, SubSeqProperties
  <2> QED BY <2>3, <1>2 DEF Push, Context
<1>3. CASE ~(Len(t) > MaxDepth)
  BY <1>1, <1>3 DEF Push, Context
<1> QED BY <1>2, <1>3

(* Returning from a call leaves a context. *)
LEMMA PopType ==
    ASSUME NEW c \in Context
    PROVE  Pop(c) \in Context
<1>1. CASE c = <<>>
  BY <1>1 DEF Pop
<1>2. CASE c # <<>>
  <2>1. Len(c) \in Nat /\ \A i \in 1..Len(c) : c[i] \in CallSite
    BY DEF Context
  <2>2. SubSeq(c, 1, Len(c) - 1) \in Seq(CallSite)
    BY <2>1, SubSeqProperties
  <2> QED BY <1>2, <2>2 DEF Pop, Context
<1> QED BY <1>1, <1>2

(* A flow function maps facts to sets of facts. *)
LEMMA ApplyType ==
    ASSUME NEW fn \in FlowFunction, NEW f \in Facts
    PROVE  Apply(fn, f) \subseteq Facts
BY DEF Apply, FlowFunction

(* Every edge leads from a point to points. *)
LEMMA SuccType ==
    ASSUME GraphTypeOK, NEW p \in Point
    PROVE  Succ(p) \subseteq Point
<1>1. p[1] \in Nodes /\ p[2] \in Context /\ p[3] \in Facts
  BY DEF Point
<1>2. EdgeSucc(p) \subseteq Point
  <2> SUFFICES ASSUME NEW e \in DOMAIN edgeFlows,
                      NEW g \in Apply(edgeFlows[e], p[3])
               PROVE  <<e[2], e[3], g>> \in Point
    BY DEF EdgeSucc
  <2>1. e[2] \in Nodes /\ e[3] \in Context
    BY DEF GraphTypeOK
  <2>2. edgeFlows[e] \in FlowFunction
    BY DEF GraphTypeOK
  <2>3. g \in Facts
    BY <1>1, <2>2, ApplyType
  <2> QED BY <2>1, <2>3 DEF Point
<1>3. CallSucc(p) \subseteq Point
  <2> SUFFICES ASSUME p[1] \in DOMAIN callSites,
                      callSites[p[1]][2] \in DOMAIN entryNodes
               PROVE  <<entryNodes[callSites[p[1]][2]], Push(p[2], SiteOf(p[1])), p[3]>>
                        \in Point
    BY DEF CallSucc
  <2>1. callSites[p[1]] \in Functions \X Functions
    BY DEF GraphTypeOK
  <2>2. SiteOf(p[1]) \in CallSite
    BY <1>1, <2>1 DEF SiteOf, CallSite
  <2>3. Push(p[2], SiteOf(p[1])) \in Context
    BY <1>1, <2>2, PushType
  <2>4. entryNodes[callSites[p[1]][2]] \in Nodes
    BY DEF GraphTypeOK
  <2> QED BY <1>1, <2>3, <2>4 DEF Point
<1>4. ReturnSucc(p) \subseteq Point
  <2>1. Pop(p[2]) \in Context
    BY <1>1, PopType
  <2>2. \A e \in DOMAIN edgeFlows : e[2] \in Nodes
    BY DEF GraphTypeOK
  <2> QED BY <1>1, <2>1, <2>2 DEF ReturnSucc, Point
<1> QED BY <1>2, <1>3, <1>4 DEF Succ

(* Registration keeps the graph well typed. *)
LEMMA RegisterType ==
    ASSUME GraphTypeOK, Register
    PROVE  GraphTypeOK'
<1> USE ChoicesAssumption DEF GraphTypeOK, Store
<1>1. CASE RegisterEntryExit
  BY <1>1 DEF RegisterEntryExit, SetEntryExitNodes
<1>2. CASE RegisterCall
  <2> PICK x \in CallChoices : SetCallSite(x[1], x[2], x[3], x[4])
    BY <1>2 DEF RegisterCall
  <2>1. x[1] \in Nodes /\ x[2] \in Functions /\ x[3] \in Functions /\ x[4] \in Nodes
    OBVIOUS
  <2>2. [node |-> x[1], caller |-> x[2], callee |-> x[3]] \in CallSite
    BY <2>1 DEF CallSite
  <2> QED BY <2>1, <2>2 DEF SetCallSite
<1>3. CASE RegisterEdge
  <2> PICK x \in EdgeChoices : AddEdgeFlow(x[1], x[2], x[3], x[4])
    BY <1>3 DEF RegisterEdge
  <2>1. /\ <<x[1], x[2], x[3]>> \in Nodes \X Nodes \X Context
        /\ x[4] \in FlowFunction
    OBVIOUS
  <2> QED BY <2>1 DEF AddEdgeFlow
<1> QED BY <1>1, <1>2, <1>3 DEF Register

(* The key of a point is a worklist entry. *)
LEMMA KeyType == ASSUME NEW p \in Point PROVE Key(p) \in Nodes \X Context
BY DEF Point, Key

(* The solver's state stays well typed. *)
THEOREM TypeCorrect == Spec => []TypeOK
<1>1. Init => TypeOK
  BY DEF Init, ReachInit, GraphInit, TypeOK, GraphTypeOK
<1>2. TypeOK /\ [Next]_vars => TypeOK'
  <2> SUFFICES ASSUME TypeOK, [Next]_vars PROVE TypeOK'
    OBVIOUS
  <2> USE DEF TypeOK
  <2>1. ASSUME UNCHANGED graphVars PROVE GraphTypeOK'
    BY <2>1 DEF graphVars, GraphTypeOK
  <2>2. CASE SetUp
    BY <2>2, RegisterType DEF SetUp, solverVars
  <2>3. ASSUME NEW p \in SeedChoices, SetSeedFact(p) PROVE TypeOK'
    <3>1. p \in Point /\ Key(p) \in Nodes \X Context
      BY ChoicesAssumption, KeyType
    <3>2. worklist' \in Seq(Nodes \X Context)
      BY <2>3, <3>1, AppendProperties DEF SetSeedFact
    <3> QED BY <2>1, <2>3, <3>1, <3>2 DEF SetSeedFact
  <2>4. CASE Solve
    BY <2>1, <2>4 DEF Solve
  <2>5. CASE PopKey
    <3>1. worklist' \in Seq(Nodes \X Context)
      BY <2>5, HeadTailProperties DEF PopKey
    <3> QED BY <2>1, <2>5, <3>1 DEF PopKey
  <2>6. ASSUME NEW p \in todo, PropagateFact(p) PROVE TypeOK'
    BY <2>1, <2>6, SuccType DEF PropagateFact
  <2>7. ASSUME NEW p \in adds, AddFactAtNode(p) PROVE TypeOK'
    <3>1. worklist' \in Seq(Nodes \X Context)
      BY <2>7, KeyType, AppendProperties DEF AddFactAtNode
    <3> QED BY <2>1, <2>7, <3>1 DEF AddFactAtNode
  <2>8. CASE SolveReturns
    BY <2>1, <2>8 DEF SolveReturns
  <2>9. CASE UNCHANGED vars
    BY <2>1, <2>9 DEF vars, solverVars
  <2> QED BY <2>2, <2>3, <2>4, <2>5, <2>6, <2>7, <2>8, <2>9 DEF Next, SolveStep
<1> QED BY <1>1, <1>2, PTL DEF Spec

-------------------------------------------------------------------------------
(* Successors depend on the registered graph only. *)
LEMMA SuccUnchanged ==
    ASSUME UNCHANGED graphVars, NEW p
    PROVE  Succ(p)' = Succ(p)
BY DEF graphVars, Succ, EdgeSucc, CallSucc, ReturnSucc, SiteOf

(* Between calls of solve() nothing is in hand; before the first one every *)
(* known point is a queued seed; and what is being added was derived.      *)
InHand ==
    /\ phase # "solving" => todo = {} /\ adds = {}
    /\ phase = "setup" => result = seeds /\ \A p \in result : Queued(Key(p))
    /\ adds \subseteq UNION {Succ(p) : p \in result}

IInv == TypeOK /\ InHand /\ NoneLost

(* What was queued stays queued when a key is appended. *)
LEMMA QueuedAppend ==
    ASSUME worklist \in Seq(Nodes \X Context),
           NEW k \in Nodes \X Context, worklist' = Append(worklist, k)
    PROVE  /\ Queued(k)'
           /\ \A j : Queued(j) => Queued(j)'
<1>1. /\ Len(worklist') = Len(worklist) + 1
      /\ \A i \in 1..Len(worklist) : worklist'[i] = worklist[i]
      /\ worklist'[Len(worklist) + 1] = k
      /\ Len(worklist) \in Nat
  BY AppendProperties
<1> QED BY <1>1 DEF Queued

(* Popping removes no key but the first. *)
LEMMA QueuedTail ==
    ASSUME worklist \in Seq(Nodes \X Context), worklist # <<>>,
           worklist' = Tail(worklist), NEW j, Queued(j), j # Head(worklist)
    PROVE  Queued(j)'
<1>1. PICK i \in 1..Len(worklist) : worklist[i] = j
  BY DEF Queued
<1>2. i # 1 /\ Len(worklist) \in Nat
  BY <1>1
<1>3. /\ Len(worklist') = Len(worklist) - 1
      /\ \A n \in 1..Len(worklist') : worklist'[n] = worklist[n + 1]
  BY HeadTailProperties
<1>4. i - 1 \in 1..Len(worklist') /\ worklist'[i - 1] = j
  BY <1>1, <1>2, <1>3
<1> QED BY <1>4 DEF Queued

(* The strengthened invariant is inductive. *)
LEMMA IInvStep == TypeOK' /\ IInv /\ [Next]_vars => IInv'
<1> SUFFICES ASSUME TypeOK', IInv, [Next]_vars PROVE InHand' /\ NoneLost'
  BY DEF IInv
<1> USE DEF IInv
<1>1. CASE SetUp
  <2>1. /\ phase = "setup" /\ phase' = phase /\ result' = result /\ seeds' = seeds
        /\ worklist' = worklist /\ todo' = todo /\ adds' = adds
    BY <1>1 DEF SetUp, solverVars
  <2>2. adds' = {}
    BY <2>1 DEF InHand
  <2>3. \A p \in result' : Queued(Key(p))'
    BY <2>1 DEF InHand, Queued
  <2> QED BY <2>1, <2>2, <2>3 DEF InHand, NoneLost
<1>2. ASSUME NEW p \in SeedChoices, SetSeedFact(p) PROVE InHand' /\ NoneLost'
  <2>1. Key(p) \in Nodes \X Context
    BY ChoicesAssumption, KeyType
  <2>2. Queued(Key(p))' /\ \A j : Queued(j) => Queued(j)'
    BY <1>2, <2>1, QueuedAppend DEF SetSeedFact, TypeOK
  <2>3. \A q : Succ(q)' = Succ(q)
    BY <1>2, SuccUnchanged DEF SetSeedFact
  <2>4. InHand'
    BY <1>2, <2>2, <2>3 DEF SetSeedFact, InHand
  <2>5. NoneLost'
    <3> SUFFICES ASSUME NEW q \in result'
                 PROVE Queued(Key(q))' \/ q \in todo' \/ Succ(q)' \subseteq result' \cup adds'
      BY DEF NoneLost
    <3>1. CASE q = p
      BY <3>1, <2>2 
    <3>2. CASE q \in result
      BY <3>2, <1>2, <2>2, <2>3 DEF NoneLost, SetSeedFact
    <3> QED BY <3>1, <3>2, <1>2 DEF SetSeedFact
  <2> QED BY <2>4, <2>5
<1>3. CASE Solve
  <2>1. \A q : Succ(q)' = Succ(q)
    BY <1>3, SuccUnchanged DEF Solve
  <2> QED BY <1>3, <2>1 DEF Solve, InHand, NoneLost, Queued
<1>4. CASE PopKey
  <2>1. \A q : Succ(q)' = Succ(q)
    BY <1>4, SuccUnchanged DEF PopKey
  <2>2. InHand'
    BY <1>4, <2>1 DEF PopKey, InHand
  <2>3. NoneLost'
    <3> SUFFICES ASSUME NEW q \in result'
                 PROVE Queued(Key(q))' \/ q \in todo' \/ Succ(q)' \subseteq result' \cup adds'
      BY DEF NoneLost
    <3>1. q \in result
      BY <1>4 DEF PopKey
    <3>2. CASE Key(q) = Head(worklist)
      BY <1>4, <3>1, <3>2 DEF PopKey
    <3>3. CASE Key(q) # Head(worklist) /\ Queued(Key(q))
      BY <1>4, <3>3, QueuedTail DEF PopKey, TypeOK
    <3>4. CASE ~Queued(Key(q))
      BY <1>4, <2>1, <3>1, <3>4 DEF PopKey, NoneLost
    <3> QED BY <3>2, <3>3, <3>4
  <2> QED BY <2>2, <2>3
<1>5. ASSUME NEW p \in todo, PropagateFact(p) PROVE InHand' /\ NoneLost'
  <2>1. \A q : Succ(q)' = Succ(q)
    BY <1>5, SuccUnchanged DEF PropagateFact
  <2>2. phase = "solving"
    BY <1>5 DEF InHand
  <2>3. InHand'
    BY <1>5, <2>1, <2>2 DEF PropagateFact, InHand, TypeOK
  <2>4. NoneLost'
    BY <1>5, <2>1 DEF PropagateFact, NoneLost, Queued
  <2> QED BY <2>3, <2>4
<1>6. ASSUME NEW p \in adds, AddFactAtNode(p) PROVE InHand' /\ NoneLost'
  <2>1. \A q : Succ(q)' = Succ(q)
    BY <1>6, SuccUnchanged DEF AddFactAtNode
  <2>2. phase = "solving"
    BY <1>6 DEF InHand
  <2>3. InHand'
    BY <1>6, <2>1, <2>2 DEF AddFactAtNode, InHand
  <2>4. p \notin result => Queued(Key(p))'
    BY <1>6, KeyType, QueuedAppend DEF AddFactAtNode, TypeOK
  <2>5. \A j : Queued(j) => Queued(j)'
    <3>1. CASE p \in result
      BY <1>6, <3>1 DEF AddFactAtNode, Queued
    <3>2. CASE p \notin result
      BY <1>6, <3>2, KeyType, QueuedAppend DEF AddFactAtNode, TypeOK
    <3> QED BY <3>1, <3>2
  <2>6. NoneLost'
    BY <1>6, <2>1, <2>4, <2>5 DEF AddFactAtNode, NoneLost
  <2> QED BY <2>3, <2>6
<1>7. CASE SolveReturns
  <2>1. \A q : Succ(q)' = Succ(q)
    BY <1>7, SuccUnchanged DEF SolveReturns
  <2> QED BY <1>7, <2>1 DEF SolveReturns, InHand, NoneLost, Queued
<1>8. CASE UNCHANGED vars
  <2>1. \A q : Succ(q)' = Succ(q)
    BY <1>8, SuccUnchanged DEF vars
  <2> QED BY <1>8, <2>1 DEF vars, solverVars, InHand, NoneLost, Queued
<1> QED BY <1>1, <1>2, <1>3, <1>4, <1>5, <1>6, <1>7, <1>8 DEF Next, SolveStep

(* The strengthened invariant holds throughout. *)
THEOREM Inductive == Spec => []IInv
<1>1. Init => IInv
  BY DEF Init, ReachInit, GraphInit, IInv, InHand, NoneLost, TypeOK, GraphTypeOK
<1>2. TypeOK' /\ IInv /\ [Next]_vars => IInv'
  BY IInvStep
<1> QED BY <1>1, <1>2, TypeCorrect, PTL DEF Spec

(* The worklist loses no known point. *)
THEOREM NothingLost == Spec => []NoneLost
<1>1. IInv => NoneLost
  BY DEF IInv
<1> QED BY <1>1, Inductive, PTL

(* When solve() has returned, following any edge adds nothing. *)
THEOREM SolvedIsFixedPoint == Spec => []FixedPoint
<1>1. IInv => FixedPoint
  <2> SUFFICES ASSUME IInv, phase = "solved", worklist = <<>>, NEW p \in result
               PROVE  Succ(p) \subseteq result
    BY DEF FixedPoint
  <2>1. todo = {} /\ adds = {}
    BY DEF IInv, InHand
  <2>2. ~Queued(Key(p))
    BY DEF Queued
  <2> QED BY <2>1, <2>2 DEF IInv, NoneLost
<1> QED BY <1>1, Inductive, PTL

(* The instance reads the same graph. *)
LEMMA SuccSame == \A p : Abstract!Succ(p) = Succ(p)
BY DEF Succ, EdgeSucc, CallSucc, ReturnSucc, SiteOf, Apply, Push, Pop,
       Abstract!Succ, Abstract!EdgeSucc, Abstract!CallSucc, Abstract!ReturnSucc,
       Abstract!SiteOf, Abstract!Apply, Abstract!Push, Abstract!Pop

(* No answer comes from nowhere: the answers are the least set above the   *)
(* seeds that is closed under the edges followed.                          *)
THEOREM AnswersGrounded == Spec => []Grounded
<1>1. Init => Grounded
  BY DEF Init, ReachInit, Grounded
<1>2. IInv /\ TypeOK' /\ Grounded /\ [Next]_vars => Grounded'
  <2> SUFFICES ASSUME IInv, TypeOK', Grounded, [Next]_vars,
                      NEW C \in SUBSET (result' \cup adds'),
                      seeds' \subseteq C,
                      \A p \in C : Succ(p)' \cap (result' \cup adds') \subseteq C
               PROVE  result' \cup adds' \subseteq C
    BY DEF Grounded
  <2> DEFINE known == result \cup adds
             D == C \cap known
  <2> USE DEF IInv, TypeOK
  \* While the known points stay and the graph stays, C itself was such a set.
  <2>1. ASSUME UNCHANGED graphVars, result' \cup adds' = known, seeds' = seeds
        PROVE  result' \cup adds' \subseteq C
    BY <2>1, SuccUnchanged DEF Grounded
  <2>2. CASE SetUp
    BY <2>2 DEF SetUp, solverVars, InHand
  <2>3. ASSUME NEW s \in SeedChoices, SetSeedFact(s)
        PROVE  result' \cup adds' \subseteq C
    <3>1. seeds \subseteq D /\ s \in C
      BY <2>3 DEF SetSeedFact
    <3>2. \A p \in D : Succ(p) \cap known \subseteq D
      BY <2>3, SuccUnchanged DEF SetSeedFact
    <3>3. D = known
      BY <3>1, <3>2 DEF Grounded
    <3> QED BY <2>3, <3>1, <3>3 DEF SetSeedFact
  <2>4. CASE Solve
    BY <2>1, <2>4 DEF Solve
  <2>5. CASE PopKey
    BY <2>1, <2>5 DEF PopKey
  <2>6. ASSUME NEW q \in todo, PropagateFact(q)
        PROVE  result' \cup adds' \subseteq C
    <3>1. adds = {} /\ known = result /\ adds' = Succ(q) /\ result' = result
      BY <2>6 DEF PropagateFact
    <3>2. seeds \subseteq D
      BY <2>6 DEF PropagateFact
    <3>3. \A p \in D : Succ(p) \cap known \subseteq D
      BY <2>6, <3>1, SuccUnchanged DEF PropagateFact
    <3>4. D = result
      BY <3>1, <3>2, <3>3 DEF Grounded
    <3>5. Succ(q)' = Succ(q) /\ q \in C
      BY <2>6, <3>4, SuccUnchanged DEF PropagateFact
    <3> QED BY <3>1, <3>4, <3>5
  <2>7. ASSUME NEW q \in adds, AddFactAtNode(q)
        PROVE  result' \cup adds' \subseteq C
    <3>1. result' \cup adds' = known
      BY <2>7 DEF AddFactAtNode
    <3> QED BY <2>1, <2>7, <3>1 DEF AddFactAtNode
  <2>8. CASE SolveReturns
    BY <2>1, <2>8 DEF SolveReturns
  <2>9. CASE UNCHANGED vars
    BY <2>1, <2>9 DEF vars, solverVars
  <2> QED BY <2>2, <2>3, <2>4, <2>5, <2>6, <2>7, <2>8, <2>9 DEF Next, SolveStep
<1> QED BY <1>1, <1>2, Inductive, TypeCorrect, PTL DEF Spec

(* The worklist algorithm implements ReachingFacts: every step of it is a  *)
(* registration, a seed, one derivation along an edge, or invisible.       *)
THEOREM Refinement == Spec => ReachSpecHolds
<1>1. Init => Abstract!ReachInit
  BY DEF Init, ReachInit, GraphInit, Abstract!ReachInit, Abstract!GraphInit
<1>2. IInv /\ [Next]_vars => [Abstract!ReachNext]_(Abstract!reachVars)
  <2> SUFFICES ASSUME IInv, [Next]_vars
               PROVE  Abstract!ReachNext \/ UNCHANGED Abstract!reachVars
    OBVIOUS
  <2> DEFINE stutter == UNCHANGED Abstract!reachVars
  <2>1. ASSUME UNCHANGED graphVars, result' = result PROVE stutter
    BY <2>1 DEF graphVars, Abstract!reachVars
  <2>2. CASE SetUp
    <3>1. Register => Abstract!Register
      BY DEF Register, RegisterEntryExit, RegisterCall, RegisterEdge,
             SetEntryExitNodes, SetCallSite, AddEdgeFlow, Store,
             Abstract!Register, Abstract!RegisterEntryExit, Abstract!RegisterCall,
             Abstract!RegisterEdge, Abstract!SetEntryExitNodes,
             Abstract!SetCallSite, Abstract!AddEdgeFlow, Abstract!Store
    <3> QED BY <2>2, <3>1 DEF SetUp, Abstract!ReachNext
  <2>3. ASSUME NEW p \in SeedChoices, SetSeedFact(p) PROVE Abstract!Seed
    BY <2>3 DEF SetSeedFact, graphVars, Abstract!Seed, Abstract!graphVars
  <2>4. CASE Solve
    BY <2>1, <2>4 DEF Solve
  <2>5. CASE PopKey
    BY <2>1, <2>5 DEF PopKey
  <2>6. ASSUME NEW p \in todo, PropagateFact(p) PROVE stutter
    BY <2>1, <2>6 DEF PropagateFact
  <2>7. ASSUME NEW p \in adds, AddFactAtNode(p) PROVE Abstract!Derive
    <3>1. PICK q \in result : p \in Succ(q)
      BY DEF IInv, InHand
    <3>2. p \in Abstract!Succ(q)
      BY <3>1, SuccSame
    <3> QED BY <2>7, <3>1, <3>2
            DEF AddFactAtNode, graphVars, Abstract!Derive, Abstract!graphVars
  <2>8. CASE SolveReturns
    BY <2>1, <2>8 DEF SolveReturns
  <2>9. CASE UNCHANGED vars
    BY <2>1, <2>9 DEF vars
  <2> QED BY <2>2, <2>3, <2>4, <2>5, <2>6, <2>7, <2>8, <2>9
          DEF Next, SolveStep, Abstract!ReachNext
<1> QED BY <1>1, <1>2, Inductive, PTL DEF Spec, ReachSpecHolds, Abstract!ReachSpec
-------------------------------------------------------------------------------
(* What is pushed is cut to MaxDepth, and what is popped is no longer. *)
LEMMA PushCut ==
    ASSUME NEW c \in Context, NEW s \in CallSite
    PROVE  Len(Push(c, s)) <= MaxDepth
<1> DEFINE t == Append(c, s)
<1>1. t \in Seq(CallSite) /\ Len(t) \in Nat /\ \A i \in 1..Len(t) : t[i] \in CallSite
  BY DEF Context
<1>2. CASE Len(t) > MaxDepth
  <2>1. /\ Len(t) - MaxDepth + 1 \in Int /\ Len(t) \in Int /\ MaxDepth \in Nat
        /\ Len(t) - MaxDepth + 1 <= Len(t) + 1
    BY <1>1, GraphAssumption
  <2>2. \A i \in (Len(t) - MaxDepth + 1)..Len(t) : t[i] \in CallSite
    BY <1>1, <1>2, GraphAssumption
  <2>3. Len(SubSeq(t, Len(t) - MaxDepth + 1, Len(t))) = Len(t) - (Len(t) - MaxDepth + 1) + 1
    BY <2>1, <2>2, SubSeqProperties
  <2> QED
    BY <1>2, <2>1, <2>3 DEF Push
<1>3. CASE ~(Len(t) > MaxDepth)
  BY <1>1, <1>3, GraphAssumption DEF Push
<1> QED BY <1>2, <1>3

LEMMA PopShorter ==
    ASSUME NEW c \in Context
    PROVE  Len(Pop(c)) <= Len(c)
<1>1. Len(c) \in Nat /\ \A i \in 1..Len(c) : c[i] \in CallSite
  BY DEF Context
<1>2. CASE c = <<>>
  BY <1>1, <1>2 DEF Pop
<1>3. CASE c # <<>>
  <2>1. 1 <= Len(c)
    BY <1>1, <1>3 DEF Context
  <2> DEFINE n == Len(c) - 1
  <2>2. n \in Int /\ 1 <= n + 1 /\ (\A i \in 1..n : c[i] \in CallSite) /\ n - 1 + 1 = n
    BY <1>1, <2>1
  <2> HIDE DEF n
  <2>3. Len(SubSeq(c, 1, n)) = IF 1 <= n THEN n - 1 + 1 ELSE 0
    BY <2>2, SubSeqProperties
  <2>4. Len(SubSeq(c, 1, n)) = n
    BY <2>2, <2>3
  <2> QED
    BY <1>1, <1>3, <2>4 DEF Pop, n
<1> QED BY <1>2, <1>3

(* The context of a point is cut, or one the client gave bounds it. *)
Bounded(c) ==
    \/ Len(c) <= MaxDepth
    \/ \E e \in DOMAIN edgeFlows : Len(c) <= Len(e[3])
    \/ \E s \in seeds : Len(c) <= Len(s[2])

(* A bound is a bound of what is shorter. *)
LEMMA ShorterBounded ==
    ASSUME TypeOK, NEW c \in Context, NEW d \in Context, Bounded(c), Len(d) <= Len(c)
    PROVE  Bounded(d)
<1>1. Len(c) \in Nat /\ Len(d) \in Nat /\ MaxDepth \in Nat
  BY GraphAssumption DEF Context
<1>2. \A e \in DOMAIN edgeFlows : Len(e[3]) \in Nat
  <2>1. \A e \in DOMAIN edgeFlows : e[3] \in Context
    BY DEF TypeOK, GraphTypeOK
  <2> QED
    BY <2>1 DEF Context
<1>3. \A s \in seeds : Len(s[2]) \in Nat
  <2>1. \A s \in seeds : s[2] \in Context
    BY DEF TypeOK, Point
  <2> QED
    BY <2>1 DEF Context
<1> QED
  BY <1>1, <1>2, <1>3 DEF Bounded

(* An edge of the graph leads from a bounded context to a bounded one. *)
LEMMA SuccBounded ==
    ASSUME TypeOK, NEW p \in Point, Bounded(p[2]), NEW q \in Succ(p)
    PROVE  Bounded(q[2])
<1>1. q \in Point /\ p[2] \in Context
  BY SuccType DEF TypeOK, Point
<1>2. CASE q \in EdgeSucc(p)
  <2>1. PICK e \in DOMAIN edgeFlows : q[2] = e[3]
    BY <1>2 DEF EdgeSucc
  <2>2. Len(q[2]) \in Nat
    BY <1>1 DEF Point, Context
  <2> QED
    BY <2>1, <2>2 DEF Bounded
<1>3. CASE q \in CallSucc(p)
  <2>1. p[1] \in DOMAIN callSites /\ q[2] = Push(p[2], SiteOf(p[1]))
    BY <1>3 DEF CallSucc
  <2>2. SiteOf(p[1]) \in CallSite
    BY <2>1 DEF SiteOf, CallSite, TypeOK, GraphTypeOK, Point
  <2> QED
    BY <1>1, <2>1, <2>2, PushCut DEF Bounded
<1>4. CASE q \in ReturnSucc(p)
  <2>1. q[2] = Pop(p[2])
    BY <1>4 DEF ReturnSucc
  <2> QED
    BY <1>1, <2>1, PopType, PopShorter, ShorterBounded
<1> QED BY <1>2, <1>3, <1>4 DEF Succ

LEMMA ContextsStep == IInv /\ ContextsCut /\ [Next]_vars => ContextsCut'
<1> SUFFICES ASSUME IInv, ContextsCut, [Next]_vars PROVE ContextsCut'
  OBVIOUS
<1> USE DEF IInv
<1>1. \A p \in result \cup adds : Bounded(p[2])
  BY DEF ContextsCut, Bounded
<1>2. SUFFICES \A p \in result' \cup adds' : Bounded(p[2])'
  BY DEF ContextsCut, Bounded
<1>3. ASSUME DOMAIN edgeFlows \subseteq DOMAIN edgeFlows', seeds \subseteq seeds', NEW c, Bounded(c)
      PROVE  Bounded(c)'
  BY <1>3 DEF Bounded
<1>4. CASE SetUp
  <2>1. DOMAIN edgeFlows \subseteq DOMAIN edgeFlows'
    BY <1>4 DEF SetUp, Register, RegisterEntryExit, RegisterCall, RegisterEdge,
                SetEntryExitNodes, SetCallSite, AddEdgeFlow, Store
  <2> QED
    BY <1>1, <1>3, <1>4, <2>1 DEF SetUp, solverVars
<1>5. ASSUME NEW p \in SeedChoices, SetSeedFact(p)
      PROVE  \A q \in result' \cup adds' : Bounded(q[2])'
  <2>1. Len(p[2]) \in Nat
    BY ChoicesAssumption DEF Point, Context
  <2>2. Bounded(p[2])'
    BY <1>5, <2>1 DEF SetSeedFact, Bounded
  <2> QED
    BY <1>1, <1>3, <1>5, <2>2 DEF SetSeedFact, graphVars
<1>6. ASSUME NEW p \in todo, PropagateFact(p)
      PROVE  \A q \in result' \cup adds' : Bounded(q[2])'
  <2>1. p \in result /\ p \in Point
    BY DEF TypeOK
  <2>2. \A q \in Succ(p) : Bounded(q[2])
    BY <1>1, <2>1, SuccBounded
  <2> QED
    BY <1>1, <1>3, <1>6, <2>2 DEF PropagateFact, graphVars
<1>7. ASSUME NEW p \in adds, AddFactAtNode(p)
      PROVE  \A q \in result' \cup adds' : Bounded(q[2])'
  BY <1>1, <1>3, <1>7 DEF AddFactAtNode, graphVars
<1>8. CASE Solve \/ PopKey \/ SolveReturns
  BY <1>1, <1>3, <1>8 DEF Solve, PopKey, SolveReturns, graphVars
<1>9. CASE UNCHANGED vars
  BY <1>1, <1>3, <1>9 DEF vars, graphVars, solverVars
<1> QED BY <1>4, <1>5, <1>6, <1>7, <1>8, <1>9 DEF Next, SolveStep

(* Recursion in the analysed program cannot make contexts grow for ever:   *)
(* MaxDepth, or the longest context the client gave, bounds them all.      *)
THEOREM ContextsBounded == Spec => []ContextsCut
<1>1. Init => ContextsCut
  BY DEF Init, ReachInit, ContextsCut
<1> QED BY <1>1, ContextsStep, Inductive, PTL DEF Spec

(* solve() never goes back: a step that makes no new point known uses up   *)
(* what is queued or in hand.                                              *)
THEOREM SolveGoesOn == Spec => SolveAdvances
<1> DEFINE Advance ==
      phase = "solving" =>
        \/ result \subseteq result' /\ result' # result
        \/ UNCHANGED result /\ Len(worklist') < Len(worklist)
        \/ UNCHANGED <<result, worklist>> /\ todo' \subseteq todo /\ todo' # todo
        \/ UNCHANGED <<result, worklist, todo>> /\ adds' \subseteq adds /\ adds' # adds
        \/ UNCHANGED <<result, worklist, todo, adds>> /\ phase' = "solved"
<1>1. IInv /\ [Next]_vars => [Advance]_vars
  <2> SUFFICES ASSUME TypeOK, phase = "solving", Next PROVE Advance
    BY DEF IInv
  <2>1. CASE PopKey
    <3>1. worklist' = Tail(worklist) /\ worklist # <<>> /\ worklist \in Seq(Nodes \X Context)
      BY <2>1 DEF PopKey, TypeOK
    <3>2. Len(worklist') = Len(worklist) - 1 /\ Len(worklist) \in Nat
      BY <3>1, HeadTailProperties
    <3>3. Len(worklist') < Len(worklist)
      BY <3>2
    <3> QED
      BY <2>1, <3>3 DEF PopKey
  <2>2. ASSUME NEW p \in todo, PropagateFact(p) PROVE Advance
    BY <2>2 DEF PropagateFact
  <2>3. ASSUME NEW p \in adds, AddFactAtNode(p) PROVE Advance
    BY <2>3 DEF AddFactAtNode
  <2>4. CASE SolveReturns
    BY <2>4 DEF SolveReturns
  <2>5. CASE SetUp \/ Solve \/ \E p \in SeedChoices : SetSeedFact(p)
    BY <2>5 DEF SetUp, Solve, SetSeedFact
  <2> QED BY <2>1, <2>2, <2>3, <2>4, <2>5 DEF Next, SolveStep
<1> QED BY <1>1, Inductive, PTL DEF Spec, SolveAdvances
===============================================================================
