---------------------------- MODULE SummaryProofs ----------------------------
(***************************************************************************)
(* The two kinds of function summaries, for any input.                     *)
(*                                                                         *)
(* Those of one Python file: no parameter that reaches a result is missed, *)
(* untrusted input is seen through any calls of earlier and three calls of *)
(* later functions, and is claimed of no function that leads to no source. *)
(*                                                                         *)
(* Those of the global graph, for any files, functions, calls, bridges and *)
(* spellings of paths: its index misses no caller, invalidation leaves no  *)
(* summary that depends on one it dropped.                                 *)
(***************************************************************************)
EXTENDS FunctionSummaries, SummaryGraph, TLAPS

-------------------------------------------------------------------------------
(* The summaries of one file. *)

(* The statements not yet walked are some of the body's. *)
WalkOK == walking => fn \in Funcs /\ left \subseteq DOMAIN Body
TypeInv == TypeOK /\ WalkOK

LEMMA ProgramType ==
    ASSUME TypeOK, NEW f \in Funcs
    PROVE  /\ prog.params[f] \in Seq(Vars)
           /\ prog.body[f] \in Seq(Statement)
           /\ \A i \in DOMAIN prog.body[f] :
                 /\ prog.body[f][i] \in Statement
                 /\ prog.body[f][i].value \in ValueType
                 /\ prog.body[f][i].target \in Vars
                 /\ i \in Nat \ {0}
<1>1. prog \in [params : [Funcs -> Seq(Vars)], body : [Funcs -> Seq(Statement)]]
    BY ProgramAssumption DEF TypeOK
<1>2. prog.params[f] \in Seq(Vars) /\ prog.body[f] \in Seq(Statement)
    BY <1>1
<1>3. ASSUME NEW i \in DOMAIN prog.body[f]
      PROVE  prog.body[f][i] \in Statement /\ i \in Nat \ {0}
    BY <1>2
<1> QED BY <1>2, <1>3 DEF Statement

(* What an expression depends on are variables. *)
LEMMA DepsAreVars ==
    ASSUME TypeOK, NEW e \in ValueType
    PROVE  Deps(e) \subseteq Vars
<1>1. ASSUME NEW names \in SUBSET Vars PROVE DepsOf(names) \subseteq Vars
    BY DEF DepsOf, TypeOK
<1>2. ASSUME NEW c \in CallType, NEW A \in SUBSET DOMAIN c.args
      PROVE  ArgDeps(c, A) \subseteq Vars
  <2>1. c.args \in Seq(SUBSET Vars) BY DEF CallType
  <2>2. \A a \in A : c.args[a] \in SUBSET Vars BY <2>1
  <2> QED BY <1>1, <2>2 DEF ArgDeps
<1>3. ASSUME NEW c \in CallType PROVE CallDeps(c) \subseteq Vars
  <2>1. Bound(c) \subseteq DOMAIN c.args BY DEF Bound
  <2>2. ArgDeps(c, Bound(c)) \subseteq Vars BY <1>2, <2>1
  <2>3. ArgDeps(c, DOMAIN c.args) \subseteq Vars BY <1>2
  <2> QED BY <2>2, <2>3 DEF CallDeps
<1>4. e.names \in SUBSET Vars /\ e.calls \subseteq CallType
    BY DEF ValueType
<1>5. DepsOf(e.names) \subseteq Vars BY <1>1, <1>4
<1>6. \A c \in e.calls : CallDeps(c) \subseteq Vars BY <1>3, <1>4
<1> QED BY <1>5, <1>6 DEF Deps

LEMMA TypeInit == Init => TypeInv
<1> SUFFICES ASSUME Init PROVE TypeInv
    OBVIOUS
<1>1. N \in Nat BY ProgramAssumption
<1>2. summaries \in [Funcs -> [tainted : SUBSET Vars, source : BOOLEAN]]
  <2>1. [tainted |-> {}, source |-> FALSE] \in [tainted : SUBSET Vars, source : BOOLEAN]
      OBVIOUS
  <2> QED BY <2>1 DEF Init
<1>3. depVars \in [Vars -> SUBSET Vars] BY DEF Init
<1>4. round \in 1..Rounds /\ fn \in 1..(N + 1) BY <1>1 DEF Init, Rounds
<1>5. changed \in BOOLEAN /\ walking \in BOOLEAN /\ done \in BOOLEAN /\ source \in BOOLEAN
    BY DEF Init
<1>6. left \subseteq Nat /\ sourceVars \subseteq Vars /\ tainted \subseteq Vars
    BY DEF Init
<1>7. TypeOK BY <1>2, <1>3, <1>4, <1>5, <1>6 DEF Init, TypeOK
<1> QED BY <1>7 DEF Init, TypeInv, WalkOK

LEMMA TypeStep == TypeInv /\ [Next]_vars => TypeInv'
<1> SUFFICES ASSUME TypeInv, [Next]_vars PROVE TypeInv'
    OBVIOUS
<1>0. N \in Nat BY ProgramAssumption
<1> USE DEF TypeInv
<1>1. CASE StartFunction
  <2>1. prog.body[fn] \in Seq(Statement) BY <1>1, ProgramType DEF StartFunction
  <2>2. prog.params[fn] \in Seq(Vars) BY <1>1, ProgramType DEF StartFunction
  <2>3. DOMAIN Body \subseteq Nat BY <2>1 DEF Body
  <2>4. depVars' \in [Vars -> SUBSET Vars] BY <1>1 DEF StartFunction
  <2>5. TypeOK' BY <1>1, <2>3, <2>4 DEF StartFunction, TypeOK, NoSources
  <2>6. WalkOK' BY <1>1 DEF StartFunction, WalkOK, Body
  <2> QED BY <2>5, <2>6
<1>2. ASSUME NEW i \in left, Walk(i) PROVE TypeInv'
  <2>1. fn \in Funcs /\ left \subseteq DOMAIN Body BY <1>2 DEF Walk, WalkOK
  <2>2. /\ Body[i].target \in Vars
        /\ Body[i].value \in ValueType
      BY <2>1, ProgramType DEF Body
  <2>3. Deps(Body[i].value) \subseteq Vars BY <2>2, DepsAreVars
  <2>4. WalkOK' BY <1>2 DEF Walk, WalkOK, Body
  <2>5. CASE Assign(i)
      BY <1>2, <2>2, <2>3, <2>4, <2>5 DEF Walk, Assign, TypeOK
  <2>6. CASE Augment(i)
      BY <1>2, <2>2, <2>3, <2>4, <2>6 DEF Walk, Augment, TypeOK
  <2>7. CASE Return(i)
    <3>1. source' \in BOOLEAN BY <2>7 DEF Return
    <3> QED BY <1>2, <2>3, <2>4, <2>7, <3>1 DEF Walk, Return, TypeOK
  <2> QED BY <1>2, <2>5, <2>6, <2>7 DEF Walk
<1>3. CASE EndFunction
  <2>1. fn \in Funcs BY <1>3 DEF EndFunction, WalkOK
  <2>2. fn' \in 1..(N + 1) BY <1>0, <1>3, <2>1 DEF EndFunction, Funcs
  <2>3. summaries' \in [Funcs -> [tainted : SUBSET Vars, source : BOOLEAN]]
      BY <1>3, <2>1 DEF EndFunction, TypeOK
  <2>4. changed' \in BOOLEAN BY <1>3 DEF EndFunction, TypeOK
  <2>5. TypeOK' BY <1>3, <2>2, <2>3, <2>4 DEF EndFunction, TypeOK, walkVars
  <2> QED BY <1>3, <2>5 DEF EndFunction, WalkOK
<1>4. CASE EndRound
  <2>1. round' \in 1..Rounds BY <1>4 DEF EndRound, TypeOK, Rounds
  <2>2. fn' \in 1..(N + 1) BY <1>0, <1>4 DEF EndRound, TypeOK
  <2>3. changed' \in BOOLEAN /\ done' \in BOOLEAN BY <1>4 DEF EndRound, TypeOK
  <2>4. TypeOK' BY <1>4, <2>1, <2>2, <2>3 DEF EndRound, TypeOK, walkVars
  <2> QED BY <1>4, <2>4 DEF EndRound, WalkOK
<1>5. CASE UNCHANGED vars
    BY <1>5 DEF vars, walkVars, TypeOK, WalkOK, Body
<1> QED BY <1>1, <1>2, <1>3, <1>4, <1>5 DEF Next

(* The summaries and the walk stay of their types, whatever the file. *)
THEOREM TypeCorrect == Spec => []TypeOK
<1>1. TypeInv => TypeOK BY DEF TypeInv
<1> QED BY <1>1, TypeInit, TypeStep, PTL DEF Spec

LEMMA TypeInvHolds == Spec => []TypeInv
BY TypeInit, TypeStep, PTL DEF Spec

-------------------------------------------------------------------------------
(* C holds every function that has a source or calls one of C. *)
ClosedUnderCalls(C) ==
    \A f \in Funcs : \A s \in Range(prog.body[f]) :
        s.value.source \/ (\E c \in s.value.calls : c.callee \in C) => f \in C
(* Neither the summaries nor the walk know of untrusted input outside of C. *)
RealInv ==
    \A C \in SUBSET Funcs : ClosedUnderCalls(C) =>
        /\ \A f \in Funcs : summaries[f].source => f \in C
        /\ walking /\ (sourceVars # {} \/ source) => fn \in C

LEMMA RealStep == TypeInv /\ RealInv /\ [Next]_vars => RealInv'
<1> SUFFICES ASSUME TypeInv, RealInv, [Next]_vars,
                    NEW C \in SUBSET Funcs, ClosedUnderCalls(C)'
             PROVE  /\ \A f \in Funcs : summaries'[f].source => f \in C
                    /\ walking' /\ (sourceVars' # {} \/ source') => fn' \in C
    BY DEF RealInv
<1>0. prog' = prog
    BY DEF Next, StartFunction, Walk, EndFunction, EndRound, vars
<1>1. ClosedUnderCalls(C) BY <1>0 DEF ClosedUnderCalls
<1>2. /\ \A f \in Funcs : summaries[f].source => f \in C
      /\ walking /\ (sourceVars # {} \/ source) => fn \in C
    BY <1>1 DEF RealInv
<1>3. CASE StartFunction
    BY <1>2, <1>3 DEF StartFunction, NoSources
<1>4. ASSUME NEW i \in left, Walk(i)
      PROVE  /\ \A f \in Funcs : summaries'[f].source => f \in C
             /\ walking' /\ (sourceVars' # {} \/ source') => fn' \in C
  <2>1. walking /\ fn \in Funcs /\ i \in DOMAIN prog.body[fn]
      BY <1>4 DEF Walk, TypeInv, WalkOK, Body
  <2>2. Body[i] \in Range(prog.body[fn]) BY <2>1 DEF Body, Range
  <2>3. Body[i].value.calls \subseteq CallType
      BY <2>1, ProgramType DEF TypeInv, Body, ValueType
  <2>4. HasSource(Body[i].value) => fn \in C
    <3>1. ASSUME NEW c \in Body[i].value.calls, summaries[c.callee].source
          PROVE  fn \in C
      <4>1. c.callee \in Funcs BY <2>3 DEF CallType
      <4>2. c.callee \in C BY <1>2, <3>1, <4>1
      <4> QED BY <1>1, <2>1, <2>2, <4>2 DEF ClosedUnderCalls
    <3>2. Body[i].value.source => fn \in C
        BY <1>1, <2>1, <2>2 DEF ClosedUnderCalls
    <3> QED BY <1>2, <2>1, <3>1, <3>2 DEF HasSource
  <2>5. sourceVars' # {} \/ source' =>
            sourceVars # {} \/ source \/ HasSource(Body[i].value)
      BY <1>4 DEF Walk, Assign, Augment, Return
  <2> QED BY <1>2, <1>4, <2>1, <2>4, <2>5 DEF Walk
<1>5. CASE EndFunction
    BY <1>2, <1>5 DEF EndFunction, TypeInv, TypeOK, WalkOK
<1>6. CASE EndRound
    BY <1>2, <1>6 DEF EndRound, walkVars
<1>7. CASE UNCHANGED vars
    BY <1>2, <1>7 DEF vars, walkVars
<1> QED BY <1>3, <1>4, <1>5, <1>6, <1>7 DEF Next

(* Untrusted input is claimed of no function whose calls lead to no source. *)
THEOREM ClaimsAreReal == Spec => []SourcesAreReal
<1>1. Init => RealInv BY DEF Init, RealInv
<1>2. RealInv => SourcesAreReal BY DEF RealInv, SourcesAreReal, ClosedUnderCalls
<1> QED BY <1>1, <1>2, RealStep, TypeInvHolds, PTL DEF Spec
-------------------------------------------------------------------------------
(* In plain functions the statements left are those from some place on. *)
LeftIsRest ==
    walking /\ Plain => \A i \in left : \A j \in DOMAIN Body : j >= i => j \in left

LEMMA PlainBody ==
    ASSUME TypeInv, Plain, walking, NEW i \in DOMAIN Body
    PROVE  /\ Body[i].depth = 1 /\ Body[i] \in Statement
           /\ \A c \in Body[i].value.calls : ~c.method
           /\ i \in Nat \ {0} /\ DOMAIN Body \subseteq Nat
           /\ Body[i].value \in ValueType /\ Body[i].target \in Vars
<1>1. fn \in Funcs BY DEF TypeInv, WalkOK
<1>2. Body[i] \in Range(prog.body[fn]) BY DEF Body, Range
<1>3. DOMAIN Body \subseteq Nat BY <1>1, ProgramType DEF TypeInv, Body
<1> QED BY <1>1, <1>2, <1>3, ProgramType DEF Plain, TypeInv, Body

(* There the next statement comes before all others left. *)
LEMMA UpcomingIsFirst ==
    ASSUME TypeInv, LeftIsRest, Plain, NEW i \in left, Walk(i)
    PROVE  /\ walking /\ i \in DOMAIN Body /\ left \subseteq DOMAIN Body
           /\ \A j \in DOMAIN Body : j \in left <=> i <= j
<1>1. walking /\ left \subseteq DOMAIN Body /\ Upcoming(i)
    BY DEF Walk, TypeInv, WalkOK
<1>2. i \in DOMAIN Body BY <1>1
<1>3. ASSUME NEW j \in DOMAIN Body, j \in left PROVE i <= j
    BY <1>1, <1>2, <1>3, PlainBody DEF Upcoming, Before
<1>4. ASSUME NEW j \in DOMAIN Body, i <= j PROVE j \in left
    BY <1>1, <1>2, <1>4, PlainBody DEF LeftIsRest
<1> QED BY <1>1, <1>2, <1>3, <1>4

LEMMA LeftStep == TypeInv /\ LeftIsRest /\ [Next]_vars => LeftIsRest'
<1> SUFFICES ASSUME TypeInv, LeftIsRest, [Next]_vars, walking', Plain'
             PROVE  \A i \in left' : \A j \in DOMAIN Body' : j >= i => j \in left'
    BY DEF LeftIsRest
<1>0. prog' = prog
    BY DEF Next, StartFunction, Walk, EndFunction, EndRound, vars
<1>1. Plain BY <1>0 DEF Plain
<1>2. CASE StartFunction BY <1>2 DEF StartFunction, Body
<1>3. ASSUME NEW n \in left, Walk(n)
      PROVE  \A i \in left' : \A j \in DOMAIN Body' : j >= i => j \in left'
  <2>1. /\ n \in DOMAIN Body /\ left \subseteq DOMAIN Body /\ walking
        /\ \A j \in DOMAIN Body : j \in left <=> n <= j
      BY <1>1, <1>3, UpcomingIsFirst
  <2>2. Body' = Body /\ left' = left \ {n} BY <1>3 DEF Walk, Body
  <2>3. DOMAIN Body \subseteq Nat BY <1>1, <2>1, PlainBody
  <2> QED BY <2>1, <2>2, <2>3
<1>4. CASE EndFunction BY <1>4 DEF EndFunction
<1>5. CASE EndRound BY <1>5 DEF EndRound
<1>6. CASE UNCHANGED vars
  <2>1. Body' = Body /\ left' = left /\ walking BY <1>6 DEF vars, walkVars, Body
  <2> QED BY <1>1, <2>1 DEF LeftIsRest
<1> QED BY <1>2, <1>3, <1>4, <1>5, <1>6 DEF Next

-------------------------------------------------------------------------------
(* By what is known now, statement j has untrusted input of its own. *)
Alive(j) ==
    Body[j].value.source \/ \E c \in Body[j].value.calls : summaries[c.callee].source
(* The value statement i assigned has since been replaced. *)
Replaced(v, i) ==
    \E k \in DOMAIN Body \ left : k > i /\ Body[k].op = "assign" /\ Body[k].target = v
(* What hands untrusted input on has been seen to, as far as the walk has come. *)
SourceWalk ==
    walking /\ Plain => \A P \in SUBSET DOMAIN Body :
        (\A j \in P : Alive(j) \/ \E i \in P : Handed(Body, i, j)) =>
            \A i \in P \ left :
                /\ Body[i].op = "return" => source
                /\ Body[i].op # "return" =>
                       Body[i].target \in sourceVars \/ Replaced(Body[i].target, i)

(* Killed is Replaced, when the walk is at j. *)
LEMMA ReplacedIsKilled ==
    ASSUME TypeInv, Plain, walking, NEW n \in DOMAIN Body, NEW i \in Nat, NEW v,
           \A j \in DOMAIN Body : j \in left <=> n <= j, Replaced(v, i)
    PROVE  Killed(Body, v, i, n)
<1>1. PICK k \in DOMAIN Body \ left : k > i /\ Body[k].op = "assign" /\ Body[k].target = v
    BY DEF Replaced
<1>2. k \in Nat /\ n \in Nat /\ Body[k].depth = 1 BY <1>1, PlainBody
<1>3. k < n BY <1>1, <1>2
<1>4. k \in (i + 1)..(n - 1) BY <1>1, <1>2, <1>3
<1> QED BY <1>1, <1>2, <1>4 DEF Killed

LEMMA SourceWalkStep ==
    TypeInv /\ LeftIsRest /\ SourceWalk /\ [Next]_vars => SourceWalk'
<1> SUFFICES ASSUME TypeInv, LeftIsRest, SourceWalk, [Next]_vars, walking', Plain',
                    NEW P \in SUBSET DOMAIN Body',
                    \A j \in P : Alive(j)' \/ \E i \in P : Handed(Body', i, j),
                    NEW i \in P \ left'
             PROVE  /\ Body'[i].op = "return" => source'
                    /\ Body'[i].op # "return" =>
                           Body'[i].target \in sourceVars' \/ Replaced(Body[i].target, i)'
    BY DEF SourceWalk
<1>0. prog' = prog
    BY DEF Next, StartFunction, Walk, EndFunction, EndRound, vars
<1>1. Plain BY <1>0 DEF Plain
<1>2. CASE StartFunction BY <1>2 DEF StartFunction, Body
<1>3. ASSUME NEW n \in left, Walk(n)
      PROVE  /\ Body'[i].op = "return" => source'
             /\ Body'[i].op # "return" =>
                    Body'[i].target \in sourceVars' \/ Replaced(Body[i].target, i)'
  <2>1. /\ n \in DOMAIN Body /\ left \subseteq DOMAIN Body /\ walking
        /\ \A j \in DOMAIN Body : j \in left <=> n <= j
      BY <1>1, <1>3, UpcomingIsFirst
  <2>2. Body' = Body /\ left' = left \ {n} /\ summaries' = summaries
      BY <1>3 DEF Walk, Body
  <2>3. \A j \in P : Alive(j) \/ \E h \in P : Handed(Body, h, j)
      BY <2>2 DEF Alive
  <2>4. ASSUME NEW h \in P \ left
        PROVE  /\ Body[h].op = "return" => source
               /\ Body[h].op # "return" =>
                      Body[h].target \in sourceVars \/ Replaced(Body[h].target, h)
      BY <1>1, <2>1, <2>2, <2>3, <2>4 DEF SourceWalk
  <2>5. \A j \in DOMAIN Body : j \in Nat BY <1>1, <2>1, PlainBody
  <2>6. CASE i = n
    <3>1. HasSource(Body[n].value)
      <4>1. CASE Alive(n) BY <4>1 DEF Alive, HasSource
      <4>2. ASSUME NEW h \in P, Handed(Body, h, n) PROVE HasSource(Body[n].value)
        <5>1. h \in DOMAIN Body /\ h \in Nat /\ h < n BY <2>2, <2>5, <4>2 DEF Handed
        <5>2. h \notin left BY <2>1, <2>5, <5>1
        <5>3. ~Replaced(Body[h].target, h)
            BY <1>1, <2>1, <4>2, <5>1, ReplacedIsKilled DEF Handed
        <5>4. Body[h].target \in sourceVars BY <2>4, <4>2, <5>2, <5>3 DEF Handed
        <5> QED BY <4>2, <5>4 DEF Handed, HasSource, Mentioned
      <4> QED BY <2>3, <2>6, <4>1, <4>2
    <3>2. Body[n].op = "return" => source'
        BY <1>3, <3>1 DEF Walk, Assign, Augment, Return
    <3>3. Body[n].op # "return" => Body[n].target \in sourceVars'
        BY <1>3, <3>1 DEF Walk, Assign, Augment, Return
    <3> QED BY <2>2, <2>6, <3>2, <3>3
  <2>7. CASE i # n
    <3>1. i \in P \ left /\ i \in DOMAIN Body BY <2>2, <2>7
    <3>2. i < n BY <2>1, <2>5, <3>1
    <3>3. Body[i].op = "return" => source'
      <4>1. source => source'
          BY <1>3 DEF Walk, Assign, Augment, Return
      <4> QED BY <2>4, <3>1, <4>1
    <3>4. ASSUME Body[i].op # "return", Replaced(Body[i].target, i)
          PROVE  Replaced(Body[i].target, i)'
        BY <2>2, <3>4 DEF Replaced
    <3>5. ASSUME Body[i].op # "return", Body[i].target \in sourceVars,
                 Body[i].target \notin sourceVars'
          PROVE  Replaced(Body[i].target, i)'
      <4>1. Body[n].op = "assign" /\ Body[n].target = Body[i].target
          BY <1>3, <3>5 DEF Walk, Assign, Augment, Return
      <4>2. n \in DOMAIN Body' \ left' /\ n > i BY <2>1, <2>2, <2>5, <3>1, <3>2
      <4> QED BY <2>2, <4>1, <4>2 DEF Replaced
    <3> QED BY <2>2, <2>4, <3>1, <3>3, <3>4, <3>5
  <2> QED BY <2>6, <2>7
<1>4. CASE EndFunction BY <1>4 DEF EndFunction
<1>5. CASE EndRound BY <1>5 DEF EndRound
<1>6. CASE UNCHANGED vars
  <2>1. /\ Body' = Body /\ left' = left /\ walking /\ summaries' = summaries
        /\ source' = source /\ sourceVars' = sourceVars
      BY <1>6 DEF vars, walkVars, Body
  <2>2. \A j \in P : Alive(j) \/ \E h \in P : Handed(Body, h, j)
      BY <2>1 DEF Alive
  <2>3. \A v : Replaced(v, i) <=> Replaced(v, i)' BY <2>1 DEF Replaced
  <2> QED BY <1>1, <2>1, <2>2, <2>3 DEF SourceWalk
<1> QED BY <1>2, <1>3, <1>4, <1>5, <1>6 DEF Next

-------------------------------------------------------------------------------
(* A function all of whose statements are walked has source set, if untrusted
   input is handed on to its result. *)
LEMMA SourceAtEnd ==
    ASSUME TypeInv, SourceWalk, Plain, walking, left = {}, NEW rank \in [Funcs -> 0..4],
           NEW P \in SUBSET DOMAIN Body, SourcePath(fn, P, rank),
           \A g \in Funcs :
               rank[g] < rank[fn] \/ (rank[g] = rank[fn] /\ g < fn) => summaries[g].source
    PROVE  source
<1>1. fn \in Funcs BY DEF TypeInv, WalkOK
<1>2. ASSUME NEW j \in P PROVE Alive(j) \/ \E i \in P : Handed(Body, i, j)
  <2>1. Backed(Body[j], fn, rank) \/ \E i \in P : Handed(Body, i, j)
      BY DEF SourcePath, Body
  <2>2. Body[j].value.calls \subseteq CallType
      BY <1>1, ProgramType DEF TypeInv, Body, ValueType
  <2>3. \A c \in Body[j].value.calls : c.callee \in Funcs BY <2>2 DEF CallType
  <2> QED BY <2>1, <2>3 DEF Backed, Alive
<1>3. PICK j \in P : Body[j].op = "return" BY DEF SourcePath, Body
<1> QED BY <1>2, <1>3 DEF SourceWalk

(* The functions whose untrusted input the finished rounds, and this one so far,
   have brought to light. *)
Known(rank, f) == rank[f] < round - 1 \/ (rank[f] = round - 1 /\ f < fn)
KnownInv ==
    Plain => \A rank \in [Funcs -> 0..4] : Ranked(rank) =>
        \A f \in Funcs : rank[f] < 4 /\ Known(rank, f) => summaries[f].source
(* In a round without a change a function knows what its callees know. *)
SettledInv ==
    Plain /\ ~changed => \A rank \in [Funcs -> 0..4] : Ranked(rank) =>
        \A K \in 0..3 : (\A g \in Funcs : rank[g] < K => summaries[g].source) =>
            \A f \in Funcs : f < fn /\ rank[f] <= K => summaries[f].source
DoneInv == done => fn = N + 1 /\ (~changed \/ round = Rounds)
SourceInv == KnownInv /\ SettledInv /\ DoneInv

LEMMA KnownStep == TypeInv /\ SourceWalk /\ KnownInv /\ [Next]_vars => KnownInv'
<1> SUFFICES ASSUME TypeInv, SourceWalk, KnownInv, [Next]_vars, Plain',
                    NEW rank \in [Funcs -> 0..4], Ranked(rank)',
                    NEW f \in Funcs, rank[f] < 4, Known(rank, f)'
             PROVE  summaries'[f].source
    BY DEF KnownInv
<1>0. prog' = prog
    BY DEF Next, StartFunction, Walk, EndFunction, EndRound, vars
<1>1. Plain /\ Ranked(rank) BY <1>0 DEF Plain, Ranked, SourcePath
<1>2. \A g \in Funcs : rank[g] < 4 /\ Known(rank, g) => summaries[g].source
    BY <1>1 DEF KnownInv
<1>3. N \in Nat /\ round \in Nat \ {0} /\ fn \in 1..(N + 1) /\ Funcs \subseteq Nat
    BY ProgramAssumption DEF TypeInv, TypeOK, Funcs, Rounds
<1>4. \A g \in Funcs : rank[g] \in 0..4 OBVIOUS
<1>5. CASE StartFunction BY <1>2, <1>5 DEF StartFunction, Known
<1>6. ASSUME NEW i \in left, Walk(i) PROVE summaries'[f].source
    BY <1>2, <1>6 DEF Walk, Known
<1>7. CASE EndFunction
  <2>1. /\ walking /\ left = {} /\ fn' = fn + 1 /\ round' = round
        /\ summaries' = [summaries EXCEPT ![fn] = [tainted |-> tainted, source |-> source]]
      BY <1>7 DEF EndFunction
  <2>2. fn \in Funcs BY <2>1 DEF TypeInv, WalkOK
  <2>3. CASE f = fn
    <3>1. rank[fn] <= round - 1
        BY <1>3, <1>4, <2>1, <2>2, <2>3 DEF Known
    <3>2. PICK P \in SUBSET DOMAIN Body : SourcePath(fn, P, rank)
        BY <1>1, <2>2, <2>3 DEF Ranked, Body
    <3>3. ASSUME NEW g \in Funcs, rank[g] < rank[fn] \/ (rank[g] = rank[fn] /\ g < fn)
          PROVE  summaries[g].source
      <4>1. rank[g] < 4 /\ Known(rank, g)
          BY <1>3, <1>4, <2>2, <2>3, <3>1, <3>3 DEF Known
      <4> QED BY <1>2, <4>1
    <3>4. source BY <1>1, <2>1, <3>2, <3>3, SourceAtEnd
    <3> QED BY <2>1, <2>2, <2>3, <3>4 DEF TypeInv, TypeOK
  <2>4. CASE f # fn
    <3>1. Known(rank, f) BY <1>3, <1>4, <2>1, <2>2, <2>4 DEF Known
    <3> QED BY <1>2, <2>1, <2>4, <3>1 DEF TypeInv, TypeOK
  <2> QED BY <2>3, <2>4
<1>8. CASE EndRound
  <2>1. summaries' = summaries /\ fn = N + 1 BY <1>8 DEF EndRound
  <2>2. CASE round' = round + 1 /\ fn' = 1
    <3>1. rank[f] <= round - 1 /\ f < fn
        BY <1>3, <1>4, <2>1, <2>2 DEF Known, Funcs
    <3>2. Known(rank, f) BY <1>3, <1>4, <3>1 DEF Known
    <3> QED BY <1>2, <2>1, <3>2
  <2>3. CASE UNCHANGED <<round, fn>> BY <1>2, <2>1, <2>3 DEF Known
  <2> QED BY <1>8, <2>2, <2>3 DEF EndRound
<1>9. CASE UNCHANGED vars BY <1>2, <1>9 DEF vars, Known
<1> QED BY <1>5, <1>6, <1>7, <1>8, <1>9 DEF Next

LEMMA SettledStep == TypeInv /\ SourceWalk /\ SettledInv /\ [Next]_vars => SettledInv'
<1> SUFFICES ASSUME TypeInv, SourceWalk, SettledInv, [Next]_vars, Plain', ~changed',
                    NEW rank \in [Funcs -> 0..4], Ranked(rank)', NEW K \in 0..3,
                    \A g \in Funcs : rank[g] < K => summaries'[g].source,
                    NEW f \in Funcs, f < fn', rank[f] <= K
             PROVE  summaries'[f].source
    BY DEF SettledInv
<1>0. prog' = prog
    BY DEF Next, StartFunction, Walk, EndFunction, EndRound, vars
<1>1. Plain /\ Ranked(rank) BY <1>0 DEF Plain, Ranked, SourcePath
<1>2. ASSUME ~changed, \A g \in Funcs : rank[g] < K => summaries[g].source,
             NEW h \in Funcs, h < fn, rank[h] <= K
      PROVE  summaries[h].source
    BY <1>1, <1>2 DEF SettledInv
<1>3. N \in Nat /\ fn \in 1..(N + 1) /\ Funcs \subseteq Nat
    BY ProgramAssumption DEF TypeInv, TypeOK, Funcs
<1>4. \A g \in Funcs : rank[g] \in 0..4 OBVIOUS
<1>5. CASE StartFunction BY <1>2, <1>5 DEF StartFunction
<1>6. ASSUME NEW i \in left, Walk(i) PROVE summaries'[f].source
    BY <1>2, <1>6 DEF Walk
<1>7. CASE EndFunction
  <2>1. /\ walking /\ left = {} /\ fn' = fn + 1 /\ summaries' = summaries /\ ~changed
        /\ summaries' = [summaries EXCEPT ![fn] = [tainted |-> tainted, source |-> source]]
      BY <1>7 DEF EndFunction
  <2>2. fn \in Funcs BY <2>1 DEF TypeInv, WalkOK
  <2>3. CASE f = fn
    <3>1. PICK P \in SUBSET DOMAIN Body : SourcePath(fn, P, rank)
        BY <1>1, <1>4, <2>2, <2>3 DEF Ranked, Body
    <3>2. ASSUME NEW g \in Funcs, rank[g] < rank[fn] \/ (rank[g] = rank[fn] /\ g < fn)
          PROVE  summaries[g].source
      <4>1. rank[g] < K \/ (rank[g] <= K /\ g < fn)
          BY <1>3, <1>4, <2>2, <2>3, <3>2
      <4> QED BY <1>2, <2>1, <4>1
    <3>3. source BY <1>1, <2>1, <3>1, <3>2, SourceAtEnd
    <3> QED BY <2>1, <2>2, <2>3, <3>3 DEF TypeInv, TypeOK
  <2>4. CASE f # fn
    <3>1. f < fn BY <1>3, <2>1, <2>4
    <3> QED BY <1>2, <2>1, <3>1
  <2> QED BY <2>3, <2>4
<1>8. CASE EndRound
  <2>1. summaries' = summaries BY <1>8 DEF EndRound
  <2>2. CASE fn' = 1 BY <1>3, <2>2 DEF Funcs
  <2>3. CASE UNCHANGED <<changed, fn>> BY <1>2, <2>1, <2>3
  <2> QED BY <1>8, <2>2, <2>3 DEF EndRound
<1>9. CASE UNCHANGED vars BY <1>2, <1>9 DEF vars
<1> QED BY <1>5, <1>6, <1>7, <1>8, <1>9 DEF Next

LEMMA DoneStep == TypeInv /\ DoneInv /\ [Next]_vars => DoneInv'
<1> SUFFICES ASSUME TypeInv, DoneInv, [Next]_vars PROVE DoneInv'
    OBVIOUS
<1>1. CASE StartFunction BY <1>1 DEF StartFunction, DoneInv
<1>2. ASSUME NEW i \in left, Walk(i) PROVE DoneInv' BY <1>2 DEF Walk, DoneInv
<1>3. CASE EndFunction BY <1>3 DEF EndFunction, DoneInv
<1>4. CASE EndRound
  <2>1. CASE changed /\ round < Rounds BY <1>4, <2>1 DEF EndRound, DoneInv
  <2>2. CASE ~(changed /\ round < Rounds)
    <3>1. ~changed \/ round = Rounds
      <4>1. round \in 1..Rounds BY DEF TypeInv, TypeOK
      <4>2. ~(round < Rounds) => round = Rounds BY <4>1 DEF Rounds
      <4> QED BY <2>2, <4>2
    <3>2. fn' = N + 1 /\ UNCHANGED <<changed, round>> BY <1>4, <2>2 DEF EndRound
    <3> QED BY <3>1, <3>2 DEF DoneInv
  <2> QED BY <2>1, <2>2
<1>5. CASE UNCHANGED vars BY <1>5 DEF vars, DoneInv
<1> QED BY <1>1, <1>2, <1>3, <1>4, <1>5 DEF Next

LEMMA KnownWhenDone == TypeInv /\ SourceInv => NearSourcesFound
<1> SUFFICES ASSUME TypeInv, SourceInv, Plain, done,
                    NEW rank \in [Funcs -> 0..4], Ranked(rank),
                    NEW f \in Funcs, rank[f] < 4
             PROVE  summaries[f].source
    BY DEF NearSourcesFound, SourcesFound
<1>1. N \in Nat /\ fn = N + 1 /\ \A g \in Funcs : g < fn
    BY ProgramAssumption DEF SourceInv, DoneInv, Funcs
<1>2. \A g \in Funcs : rank[g] \in 0..4 OBVIOUS
<1>3. CASE round = Rounds
  <2>1. Known(rank, f) BY <1>1, <1>2, <1>3 DEF Known, Rounds
  <2> QED BY <2>1 DEF SourceInv, KnownInv
<1>4. CASE ~changed
  <2>0. ASSUME NEW K \in 0..3, \A g \in Funcs : rank[g] < K => summaries[g].source
        PROVE  \A g \in Funcs : rank[g] <= K => summaries[g].source
      BY <1>1, <1>4, <2>0 DEF SourceInv, SettledInv
  <2>1. \A g \in Funcs : rank[g] <= 0 => summaries[g].source
    <3>1. \A g \in Funcs : ~(rank[g] < 0) BY <1>2
    <3> QED BY <2>0, <3>1
  <2>2. \A g \in Funcs : rank[g] <= 1 => summaries[g].source
    <3>1. \A g \in Funcs : rank[g] < 1 => rank[g] <= 0 BY <1>2
    <3> QED BY <2>0, <2>1, <3>1
  <2>3. \A g \in Funcs : rank[g] <= 2 => summaries[g].source
    <3>1. \A g \in Funcs : rank[g] < 2 => rank[g] <= 1 BY <1>2
    <3> QED BY <2>0, <2>2, <3>1
  <2>4. \A g \in Funcs : rank[g] <= 3 => summaries[g].source
    <3>1. \A g \in Funcs : rank[g] < 3 => rank[g] <= 2 BY <1>2
    <3> QED BY <2>0, <2>3, <3>1
  <2>5. rank[f] <= 3 BY <1>2
  <2> QED BY <2>4, <2>5
<1> QED BY <1>3, <1>4 DEF SourceInv, DoneInv

(* Untrusted input is seen through any calls of earlier functions and three calls of
   later ones, whether the rounds end early or at their bound. *)
THEOREM SourcesAreFound == Spec => []NearSourcesFound
<1>1. Init => LeftIsRest /\ SourceWalk BY DEF Init, LeftIsRest, SourceWalk
<1>2. Init => SourceInv
  <2> SUFFICES ASSUME Init PROVE SourceInv
      OBVIOUS
  <2>1. \A f \in Funcs : f \in Nat /\ ~(f < 1) BY ProgramAssumption DEF Funcs
  <2>2. \A rank \in [Funcs -> 0..4] : \A f \in Funcs : ~Known(rank, f)
    <3> SUFFICES ASSUME NEW rank \in [Funcs -> 0..4], NEW f \in Funcs
                 PROVE  ~Known(rank, f)
        OBVIOUS
    <3>1. rank[f] \in 0..4 OBVIOUS
    <3> QED BY <2>1, <3>1 DEF Init, Known
  <2> QED BY <2>1, <2>2 DEF Init, SourceInv, KnownInv, SettledInv, DoneInv
<1>3. TypeInv /\ LeftIsRest /\ SourceWalk /\ SourceInv /\ [Next]_vars
          => (LeftIsRest /\ SourceWalk /\ SourceInv)'
    BY LeftStep, SourceWalkStep, KnownStep, SettledStep, DoneStep DEF SourceInv
<1> QED BY <1>1, <1>2, <1>3, KnownWhenDone, TypeInvHolds, PTL DEF Spec

-------------------------------------------------------------------------------
(* Whether a function has been summarised at all. *)
Seen(f) == round > 1 \/ f < fn
(* Nothing that flows is missing from a summary once there is one; before, it is
   empty, and a call depends on all it is given. *)
ParamInv ==
    /\ \A f \in Funcs : ~Seen(f) => summaries[f].tainted = {}
    /\ Plain => \A flows \in SUBSET Params : Flowing(flows) =>
           \A q \in flows : Seen(q[1]) => q[2] \in summaries[q[1]].tainted
(* In the walk, what parameter p enters depends on it, unless replaced. *)
ParamWalk ==
    walking /\ Plain => \A flows \in SUBSET Params : Flowing(flows) =>
        \A p \in Range(prog.params[fn]) :
            /\ p \in depVars[p] \/ Replaced(p, 0)
            /\ \A P \in SUBSET DOMAIN Body :
                  (\A j \in P :
                      \/ Enters(p, Body[j].value, flows) /\ ~Killed(Body, p, 0, j)
                      \/ \E i \in P : /\ i < j /\ Body[i].op # "return"
                                     /\ Enters(Body[i].target, Body[j].value, flows)
                                     /\ ~Killed(Body, Body[i].target, i, j)) =>
                  \A i \in P \ left :
                      /\ Body[i].op = "return" => p \in tainted
                      /\ Body[i].op # "return" =>
                             p \in depVars[Body[i].target] \/ Replaced(Body[i].target, i)

(* What a variable depends on passes to every expression it enters. *)
LEMMA DepsPassOn ==
    ASSUME TypeInv, ParamInv, Plain, walking, NEW flows \in SUBSET Params, Flowing(flows),
           NEW j \in DOMAIN Body, NEW v \in Vars, Enters(v, Body[j].value, flows),
           NEW p \in depVars[v]
    PROVE  p \in Deps(Body[j].value)
<1> DEFINE e == Body[j].value
<1>1. e \in ValueType /\ \A c \in e.calls : ~c.method BY PlainBody
<1>2. CASE v \in e.names BY <1>2 DEF Deps, DepsOf
<1>3. ASSUME NEW c \in e.calls, NEW a \in DOMAIN c.args, v \in c.args[a],
             a \in DOMAIN prog.params[c.callee],
             <<c.callee, prog.params[c.callee][a]>> \in flows
      PROVE  p \in Deps(e)
  <2>1. c \in CallType BY <1>1 DEF ValueType
  <2>2. c.callee \in Funcs BY <2>1 DEF CallType
  <2>3. ASSUME NEW A \in SUBSET DOMAIN c.args, a \in A PROVE p \in ArgDeps(c, A)
      BY <1>3, <2>3 DEF ArgDeps, DepsOf
  <2>4. p \in CallDeps(c)
    <3>1. CASE Seen(c.callee)
      <4>1. prog.params[c.callee][a] \in summaries[c.callee].tainted
          BY <1>3, <3>1 DEF ParamInv
      <4>2. a \in Bound(c) BY <1>3, <4>1 DEF Bound
      <4>3. Bound(c) \subseteq DOMAIN c.args BY DEF Bound
      <4> QED BY <2>3, <4>2, <4>3 DEF CallDeps
    <3>2. CASE ~Seen(c.callee)
      <4>1. Bound(c) = {} BY <2>2, <3>2 DEF ParamInv, Bound
      <4>2. ArgDeps(c, Bound(c)) = {} BY <4>1 DEF ArgDeps
      <4> QED BY <2>3, <4>2 DEF CallDeps
    <3> QED BY <3>1, <3>2
  <2> QED BY <2>4 DEF Deps
<1> QED BY <1>1, <1>2, <1>3 DEF Enters

LEMMA ParamStep ==
    TypeInv /\ ParamInv /\ ParamWalk /\ [Next]_vars => ParamInv'
<1> SUFFICES ASSUME TypeInv, ParamInv, ParamWalk, [Next]_vars PROVE ParamInv'
    OBVIOUS
<1>0. prog' = prog
    BY DEF Next, StartFunction, Walk, EndFunction, EndRound, vars
<1>1. N \in Nat /\ round \in Nat \ {0} /\ fn \in 1..(N + 1) /\ Funcs \subseteq Nat
    BY ProgramAssumption DEF TypeInv, TypeOK, Funcs, Rounds
<1>2. Params' = Params /\ Plain' = Plain BY <1>0 DEF Params, Plain
<1>3. \A flows : Flowing(flows)' <=> Flowing(flows)
    BY <1>0 DEF Flowing, ParamPath, Enters
<1>4. ASSUME summaries' = summaries, \A f \in Funcs : Seen(f)' <=> Seen(f) PROVE ParamInv'
    BY <1>2, <1>3, <1>4 DEF ParamInv, Params
<1>5. CASE StartFunction BY <1>4, <1>5 DEF StartFunction, Seen
<1>6. ASSUME NEW i \in left, Walk(i) PROVE ParamInv' BY <1>4, <1>6 DEF Walk, Seen
<1>7. CASE EndFunction
  <2>1. /\ walking /\ left = {} /\ fn' = fn + 1 /\ round' = round
        /\ summaries' = [summaries EXCEPT ![fn] = [tainted |-> tainted, source |-> source]]
      BY <1>7 DEF EndFunction
  <2>2. fn \in Funcs BY <2>1 DEF TypeInv, WalkOK
  <2>3. ASSUME NEW f \in Funcs, ~Seen(f)' PROVE summaries'[f].tainted = {}
    <3>1. ~Seen(f) /\ f # fn BY <1>1, <2>1, <2>3 DEF Seen
    <3> QED BY <2>1, <3>1 DEF ParamInv, TypeInv, TypeOK
  <2>5. \A f \in Funcs : f # fn /\ Seen(f)' => Seen(f)
      BY <1>1, <2>1, <2>2 DEF Seen
  <2>4. ASSUME Plain, NEW flows \in SUBSET Params, Flowing(flows), NEW q \in flows,
               Seen(q[1])'
        PROVE  q[2] \in summaries'[q[1]].tainted
    <3>1. q[1] \in Funcs /\ q[2] \in Range(prog.params[q[1]]) BY DEF Params
    <3>2. CASE q[1] = fn
      <4>1. PICK P \in SUBSET DOMAIN Body : ParamPath(fn, q[2], P, flows)
          BY <2>4, <3>2 DEF Flowing, Body
      <4>2. PICK j \in P : Body[j].op = "return" BY <4>1 DEF ParamPath, Body
      <4>3. \A i \in P : Body[i].op = "return" => q[2] \in tainted
        <5>1. q[2] \in Range(prog.params[fn]) BY <3>1, <3>2
        <5>2. \A i \in P :
                \/ Enters(q[2], Body[i].value, flows) /\ ~Killed(Body, q[2], 0, i)
                \/ \E h \in P : /\ h < i /\ Body[h].op # "return"
                               /\ Enters(Body[h].target, Body[i].value, flows)
                               /\ ~Killed(Body, Body[h].target, h, i)
            BY <4>1 DEF ParamPath, Body
        <5>3. P \ left = P BY <2>1
        <5> QED BY <2>1, <2>4, <5>1, <5>2, <5>3 DEF ParamWalk
      <4>4. q[2] \in tainted BY <4>2, <4>3
      <4> QED BY <2>1, <2>2, <3>2, <4>4 DEF TypeInv, TypeOK
    <3>3. CASE q[1] # fn
      <4>1. Seen(q[1]) BY <2>4, <2>5, <3>1, <3>3
      <4> QED BY <2>1, <2>4, <3>1, <3>3, <4>1 DEF ParamInv, TypeInv, TypeOK
    <3> QED BY <3>2, <3>3
  <2> QED BY <1>2, <1>3, <2>3, <2>4 DEF ParamInv
<1>8. CASE EndRound
  <2>1. summaries' = summaries /\ fn = N + 1 BY <1>8 DEF EndRound
  <2>2. \A f \in Funcs : Seen(f) BY <1>1, <2>1 DEF Seen, Funcs
  <2>3. \A f \in Funcs : Seen(f)' BY <1>1, <1>8, <2>2 DEF EndRound, Seen, Funcs
  <2> QED BY <1>4, <2>1, <2>2, <2>3
<1>9. CASE UNCHANGED vars BY <1>4, <1>9 DEF vars, Seen
<1> QED BY <1>5, <1>6, <1>7, <1>8, <1>9 DEF Next

LEMMA ParamWalkStep ==
    TypeInv /\ LeftIsRest /\ ParamInv /\ ParamWalk /\ [Next]_vars => ParamWalk'
<1> SUFFICES ASSUME TypeInv, LeftIsRest, ParamInv, ParamWalk, [Next]_vars, walking', Plain',
                    NEW flows \in SUBSET Params', Flowing(flows)',
                    NEW p \in Range(prog'.params[fn'])
             PROVE
        /\ p \in depVars'[p] \/ Replaced(p, 0)'
        /\ \A P \in SUBSET DOMAIN Body' :
              (\A j \in P :
                  \/ Enters(p, Body[j].value, flows)' /\ ~Killed(Body', p, 0, j)
                  \/ \E i \in P : /\ i < j /\ Body'[i].op # "return"
                                 /\ Enters(Body[i].target, Body[j].value, flows)'
                                 /\ ~Killed(Body', Body'[i].target, i, j)) =>
              \A i \in P \ left' :
                  /\ Body'[i].op = "return" => p \in tainted'
                  /\ Body'[i].op # "return" =>
                         p \in depVars'[Body'[i].target] \/ Replaced(Body[i].target, i)'
    BY DEF ParamWalk
<1>0. prog' = prog
    BY DEF Next, StartFunction, Walk, EndFunction, EndRound, vars
<1>1. Plain /\ Params' = Params /\ Flowing(flows)
  <2>1. Plain /\ Params' = Params BY <1>0 DEF Plain, Params
  <2>2. Flowing(flows)' <=> Flowing(flows) BY <1>0 DEF Flowing, ParamPath, Enters
  <2> QED BY <2>1, <2>2
<1>2. CASE StartFunction
  <2>1. fn' = fn /\ fn \in Funcs /\ Body' = Body /\ left' = DOMAIN Body
      BY <1>2 DEF StartFunction, Body
  <2>2. p \in Range(prog.params[fn]) /\ p \in Vars
      BY <1>0, <2>1, ProgramType DEF TypeInv, Range
  <2>3. p \in depVars'[p] BY <1>2, <2>2 DEF StartFunction
  <2> QED BY <2>1, <2>3
<1>3. ASSUME NEW n \in left, Walk(n)
      PROVE
        /\ p \in depVars'[p] \/ Replaced(p, 0)'
        /\ \A P \in SUBSET DOMAIN Body' :
              (\A j \in P :
                  \/ Enters(p, Body[j].value, flows)' /\ ~Killed(Body', p, 0, j)
                  \/ \E i \in P : /\ i < j /\ Body'[i].op # "return"
                                 /\ Enters(Body[i].target, Body[j].value, flows)'
                                 /\ ~Killed(Body', Body'[i].target, i, j)) =>
              \A i \in P \ left' :
                  /\ Body'[i].op = "return" => p \in tainted'
                  /\ Body'[i].op # "return" =>
                         p \in depVars'[Body'[i].target] \/ Replaced(Body[i].target, i)'
  <2>1. /\ n \in DOMAIN Body /\ left \subseteq DOMAIN Body /\ walking
        /\ \A j \in DOMAIN Body : j \in left <=> n <= j
      BY <1>1, <1>3, UpcomingIsFirst
  <2>2. Body' = Body /\ left' = left \ {n} /\ fn' = fn BY <1>3 DEF Walk, Body
  <2>3. \A j \in DOMAIN Body : j \in Nat \ {0} BY <1>1, <2>1, PlainBody
  <2>4. p \in Range(prog.params[fn]) /\ p \in Vars
      BY <1>0, <2>1, <2>2, ProgramType DEF TypeInv, WalkOK, Range
  <2>5. p \in depVars[p] \/ Replaced(p, 0)
      BY <1>1, <2>1, <2>4 DEF ParamWalk
  <2>6. depVars \in [Vars -> SUBSET Vars] /\ Body[n].target \in Vars
      BY <1>1, <2>1, PlainBody DEF TypeInv, TypeOK
  <2>7. ASSUME NEW v \in Vars, NEW h \in Nat, h < n, p \in depVars[v] \/ Replaced(v, h)
        PROVE  p \in depVars'[v] \/ Replaced(v, h)'
    <3>1. CASE Replaced(v, h) BY <2>2, <3>1 DEF Replaced
    <3>2. CASE p \in depVars[v] /\ p \notin depVars'[v]
      <4>1. Body[n].op = "assign" /\ Body[n].target = v
          BY <1>3, <2>6, <3>2 DEF Walk, Assign, Augment, Return
      <4>2. n \in DOMAIN Body' \ left' /\ n > h BY <2>1, <2>2, <2>3, <2>7
      <4> QED BY <2>2, <4>1, <4>2 DEF Replaced
    <3> QED BY <2>7, <3>1, <3>2
  <2>8. p \in depVars'[p] \/ Replaced(p, 0)' BY <2>1, <2>3, <2>4, <2>5, <2>7
  <2>9. ASSUME NEW P \in SUBSET DOMAIN Body,
               \A j \in P :
                  \/ Enters(p, Body[j].value, flows) /\ ~Killed(Body, p, 0, j)
                  \/ \E i \in P : /\ i < j /\ Body[i].op # "return"
                                 /\ Enters(Body[i].target, Body[j].value, flows)
                                 /\ ~Killed(Body, Body[i].target, i, j),
               NEW i \in P \ left'
        PROVE  /\ Body[i].op = "return" => p \in tainted'
               /\ Body[i].op # "return" =>
                      p \in depVars'[Body[i].target] \/ Replaced(Body[i].target, i)'
    <3>1. ASSUME NEW h \in P \ left
          PROVE  /\ Body[h].op = "return" => p \in tainted
                 /\ Body[h].op # "return" =>
                        p \in depVars[Body[h].target] \/ Replaced(Body[h].target, h)
        BY <1>1, <2>1, <2>4, <2>9, <3>1 DEF ParamWalk
    <3>2. CASE i = n
      <4>1. p \in Deps(Body[n].value)
        <5>1. CASE Enters(p, Body[n].value, flows) /\ ~Killed(Body, p, 0, n)
          <6>1. ~Replaced(p, 0) BY <1>1, <2>1, <5>1, ReplacedIsKilled
          <6> QED BY <1>1, <2>1, <2>4, <2>5, <5>1, <6>1, DepsPassOn
        <5>2. ASSUME NEW h \in P, h < n, Body[h].op # "return",
                     Enters(Body[h].target, Body[n].value, flows),
                     ~Killed(Body, Body[h].target, h, n)
              PROVE  p \in Deps(Body[n].value)
          <6>1. h \in DOMAIN Body /\ h \in Nat /\ h \notin left BY <2>1, <2>3, <5>2
          <6>2. ~Replaced(Body[h].target, h)
              BY <1>1, <2>1, <5>2, <6>1, ReplacedIsKilled
          <6>3. p \in depVars[Body[h].target] BY <3>1, <5>2, <6>1, <6>2
          <6>4. Body[h].target \in Vars BY <1>1, <2>1, <6>1, PlainBody
          <6> QED BY <1>1, <2>1, <5>2, <6>3, <6>4, DepsPassOn
        <5> QED BY <2>9, <3>2, <5>1, <5>2
      <4>2. Body[n].op = "return" => p \in tainted'
          BY <1>3, <4>1 DEF Walk, Assign, Augment, Return
      <4>3. Body[n].op # "return" => p \in depVars'[Body[n].target]
          BY <1>3, <2>6, <4>1 DEF Walk, Assign, Augment, Return
      <4> QED BY <3>2, <4>2, <4>3
    <3>3. CASE i # n
      <4>1. i \in P \ left /\ i \in DOMAIN Body /\ i \in Nat BY <2>2, <2>3, <3>3
      <4>2. i < n BY <2>1, <2>3, <4>1
      <4>3. Body[i].target \in Vars BY <1>1, <2>1, <4>1, PlainBody
      <4>4. tainted \subseteq tainted' BY <1>3 DEF Walk, Assign, Augment, Return
      <4>5. ASSUME Body[i].op # "return"
            PROVE  p \in depVars'[Body[i].target] \/ Replaced(Body[i].target, i)'
        <5>1. p \in depVars[Body[i].target] \/ Replaced(Body[i].target, i)
            BY <3>1, <4>1, <4>5
        <5>2. PICK v \in Vars : v = Body[i].target BY <4>3
        <5>3. p \in depVars'[v] \/ Replaced(v, i)' BY <2>7, <4>1, <4>2, <5>1, <5>2
        <5> QED BY <2>2, <5>2, <5>3 DEF Replaced
      <4> QED BY <3>1, <4>1, <4>4, <4>5
    <3> QED BY <3>2, <3>3
  <2>10. \A e, v : Enters(v, e, flows)' <=> Enters(v, e, flows) BY <1>0 DEF Enters
  <2>11. \A j : Enters(p, Body[j].value, flows)' <=> Enters(p, Body[j].value, flows)
      BY <1>0, <2>2 DEF Enters
  <2>12. \A i, j : Enters(Body[i].target, Body[j].value, flows)'
                   <=> Enters(Body[i].target, Body[j].value, flows)
      BY <1>0, <2>2 DEF Enters
  <2> QED BY <2>2, <2>8, <2>9, <2>11, <2>12
<1>4. CASE EndFunction BY <1>4 DEF EndFunction
<1>5. CASE EndRound BY <1>5 DEF EndRound
<1>6. CASE UNCHANGED vars
  <2>1. /\ Body' = Body /\ left' = left /\ walking /\ fn' = fn
        /\ tainted' = tainted /\ depVars' = depVars
      BY <1>6 DEF vars, walkVars, Body
  <2>2. \A v, i : Replaced(v, i) => Replaced(v, i)' BY <2>1 DEF Replaced
  <2>3. \A j : Enters(p, Body[j].value, flows)' <=> Enters(p, Body[j].value, flows)
      BY <1>0, <2>1 DEF Enters
  <2>4. \A i, j : Enters(Body[i].target, Body[j].value, flows)'
                  <=> Enters(Body[i].target, Body[j].value, flows)
      BY <1>0, <2>1 DEF Enters
  <2>5. p \in Range(prog.params[fn]) BY <1>0, <2>1
  <2>6. \A i : Replaced(Body[i].target, i) => Replaced(Body[i].target, i)'
      BY <2>1 DEF Replaced
  <2> QED BY <1>1, <2>1, <2>2, <2>3, <2>4, <2>5, <2>6 DEF ParamWalk
<1> QED BY <1>2, <1>3, <1>4, <1>5, <1>6 DEF Next

(* No parameter that reaches its function's result is missing from its summary. *)
THEOREM ParamsAreFound == Spec => []ParamsFound
<1>1. Init => LeftIsRest /\ ParamWalk BY DEF Init, LeftIsRest, ParamWalk
<1>2. Init => ParamInv
  <2>1. Init => \A f \in Funcs : ~Seen(f) /\ summaries[f].tainted = {}
    <3>1. \A f \in Funcs : ~(f < 1) BY ProgramAssumption DEF Funcs
    <3> QED BY <3>1 DEF Init, Seen
  <2> QED BY <2>1 DEF ParamInv, Params
<1>3. TypeInv /\ LeftIsRest /\ ParamInv /\ ParamWalk /\ [Next]_vars
          => (LeftIsRest /\ ParamInv /\ ParamWalk)'
    BY LeftStep, ParamStep, ParamWalkStep
<1>4. Init => DoneInv BY DEF Init, DoneInv
<1>5. TypeInv /\ ParamInv /\ DoneInv => ParamsFound
  <2> SUFFICES ASSUME TypeInv, ParamInv, DoneInv, done, Plain,
                      NEW flows \in SUBSET Params, Flowing(flows), NEW q \in flows
               PROVE  q[2] \in summaries[q[1]].tainted
      BY DEF ParamsFound
  <2>1. q[1] \in Funcs BY DEF Params
  <2>2. Seen(q[1]) BY <2>1, ProgramAssumption DEF DoneInv, Seen, Funcs
  <2> QED BY <2>2 DEF ParamInv
<1> QED BY <1>1, <1>2, <1>3, <1>4, <1>5, DoneStep, TypeInvHolds, PTL DEF Spec

-------------------------------------------------------------------------------
(* The summaries of the global graph. *)

LEMMA KeysAreLabels == Keys \subseteq Labels /\ \A l \in Labels : KeyOf(l) \in Keys
BY SummaryAssumption DEF Keys, KeyOf, Labels

LEMMA CalleesAreLabels == \A k : Callees(k) \subseteq Labels \cup Bare
BY SummaryAssumption DEF Callees

-----------------------------------------------------------------------------
(* Dictionaries: what setting and removing entries does to their types. *)
LEMMA WithType ==
    ASSUME NEW m, DOMAIN m \subseteq Keys, m \in [DOMAIN m -> SUBSET Labels],
           NEW k \in Keys, NEW deps \in SUBSET Labels
    PROVE  /\ DOMAIN With(m, k, deps) = DOMAIN m \cup {k}
           /\ DOMAIN With(m, k, deps) \subseteq Keys
           /\ With(m, k, deps) \in [DOMAIN With(m, k, deps) -> SUBSET Labels]
BY DEF With

LEMMA WithoutType ==
    ASSUME NEW m, DOMAIN m \subseteq Keys, m \in [DOMAIN m -> SUBSET Labels],
           NEW gone
    PROVE  /\ DOMAIN Without(m, gone) = DOMAIN m \ gone
           /\ DOMAIN Without(m, gone) \subseteq Keys
           /\ Without(m, gone) \in [DOMAIN Without(m, gone) -> SUBSET Labels]
BY DEF Without

LEMMA ReindexedType ==
    ASSUME NEW r \in [Labels -> SUBSET Keys], NEW c \in Keys, NEW deps
    PROVE  Reindexed(r, c, deps) \in [Labels -> SUBSET Keys]
BY DEF Reindexed

(* The index r lists every function of m under what its summary depends on. *)
Indexed(m, r) == \A k \in DOMAIN m : \A l \in m[k] : k \in r[l]

(* Setting a summary and rebuilding its entries keeps the index complete.  *)
LEMMA ReindexedComplete ==
    ASSUME NEW m, DOMAIN m \subseteq Keys, m \in [DOMAIN m -> SUBSET Labels],
           NEW r \in [Labels -> SUBSET Keys], Indexed(m, r),
           NEW k \in Keys, NEW deps \in SUBSET Labels
    PROVE  Indexed(With(m, k, deps), Reindexed(r, k, deps))
<1> SUFFICES ASSUME NEW c \in DOMAIN With(m, k, deps), NEW l \in With(m, k, deps)[c]
             PROVE  c \in Reindexed(r, k, deps)[l]
  BY DEF Indexed
<1>1. CASE c = k
  BY <1>1 DEF With, Reindexed
<1>2. CASE c # k
  <2>1. c \in DOMAIN m /\ l \in m[c] /\ l \in Labels
    BY <1>2 DEF With
  <2>2. c \in r[l]
    BY <2>1 DEF Indexed
  <2> QED
    BY <1>2, <2>1, <2>2 DEF Reindexed
<1> QED
  BY <1>1, <1>2

(* record_call_dependency keeps types and the index, on any summaries.     *)
LEMMA DependencyStep ==
    ASSUME NEW m, DOMAIN m \subseteq Keys, m \in [DOMAIN m -> SUBSET Labels],
           NEW r \in [Labels -> SUBSET Keys], Indexed(m, r),
           NEW caller \in Keys, NEW callee \in Keys,
           Dependency(m, r, caller, callee)
    PROVE  /\ DOMAIN m \subseteq DOMAIN mem'
           /\ DOMAIN mem' \subseteq Keys /\ mem' \in [DOMAIN mem' -> SUBSET Labels]
           /\ rev' \in [Labels -> SUBSET Keys]
           /\ Indexed(mem', rev')
<1> DEFINE old == IF caller \in DOMAIN m THEN m[caller] ELSE {}
<1> DEFINE deps == old \cup {callee}
<1>1. old \in SUBSET Labels /\ deps \in SUBSET Labels
  BY KeysAreLabels
<1>2. CASE callee \in old
  BY <1>2 DEF Dependency
<1>3. CASE callee \notin old
  <2>1. mem' = With(m, caller, deps) /\ rev' = Reindexed(r, caller, deps)
    BY <1>3 DEF Dependency
  <2> HIDE DEF deps
  <2>2. /\ DOMAIN mem' = DOMAIN m \cup {caller} /\ DOMAIN mem' \subseteq Keys
        /\ mem' \in [DOMAIN mem' -> SUBSET Labels]
    BY <2>1, <1>1, WithType
  <2>3. rev' \in [Labels -> SUBSET Keys]
    BY <2>1, ReindexedType
  <2>4. Indexed(mem', rev')
    BY <2>1, <1>1, ReindexedComplete
  <2> QED
    BY <2>2, <2>3, <2>4
<1> QED
  BY <1>2, <1>3

-----------------------------------------------------------------------------
(* GraphTypeOK and DependenciesIndexed are inductive together: the index of a   *)
(* summary read from the cache is rebuilt on the way in.                   *)
GraphIInv == GraphTypeOK /\ DependenciesIndexed

LEMMA IndexStep == GraphIInv /\ [GraphNext]_graphVars => GraphIInv'
<1> SUFFICES ASSUME GraphIInv, [GraphNext]_graphVars PROVE GraphIInv'
  OBVIOUS
<1> USE DEF GraphIInv, GraphTypeOK
<1>0. Indexed(mem, rev) /\ (Indexed(mem', rev') <=> DependenciesIndexed')
  BY DEF Indexed, DependenciesIndexed
<1>1. ASSUME NEW k \in Keys, NEW called \in SUBSET Callees(k), Record(k, called)
      PROVE  GraphIInv'
  <2>1. called \cap Labels \in SUBSET Labels
    OBVIOUS
  <2> QED
    BY <1>0, <1>1, <2>1, WithType, ReindexedType, ReindexedComplete DEF Record, cache
<1>2. ASSUME NEW caller \in Keys, NEW callee \in Keys, CallKnown(caller, callee)
      PROVE  GraphIInv'
  BY <1>0, <1>2, DependencyStep DEF CallKnown, cache
<1>3. ASSUME NEW caller \in Keys, NEW callee \in Keys, CallUnknown(caller, callee)
      PROVE  GraphIInv'
  BY <1>3 DEF CallUnknown, cache, DependenciesIndexed
<1>4. ASSUME NEW caller \in Keys, NEW callee \in Keys, CallLoaded(caller, callee)
      PROVE  GraphIInv'
  <2> DEFINE m == With(mem, callee, disk[callee])
             indexed == Reindexed(rev, callee, disk[callee])
             r == [indexed EXCEPT ![callee] = @ \cup diskRev[callee]]
  <2>1. disk[callee] \in SUBSET Labels /\ callee \in Labels
    BY <1>4, KeysAreLabels DEF CallLoaded
  <2>2. DOMAIN m \subseteq Keys /\ m \in [DOMAIN m -> SUBSET Labels]
    BY <2>1, WithType
  <2>3. indexed \in [Labels -> SUBSET Keys] /\ Indexed(m, indexed)
    BY <1>0, <2>1, ReindexedType, ReindexedComplete
  <2>4. Dependency(m, r, caller, callee)
    BY <1>4 DEF CallLoaded
  <2> HIDE DEF m, indexed
  <2>5. r \in [Labels -> SUBSET Keys] /\ \A l \in Labels : indexed[l] \subseteq r[l]
    BY <2>1, <2>3
  <2> HIDE DEF r
  <2>6. Indexed(m, r)
    BY <2>2, <2>3, <2>5 DEF Indexed
  <2>7. /\ DOMAIN mem' \subseteq Keys /\ mem' \in [DOMAIN mem' -> SUBSET Labels]
        /\ rev' \in [Labels -> SUBSET Keys] /\ Indexed(mem', rev')
    BY <2>2, <2>4, <2>5, <2>6, DependencyStep
  <2> QED
    BY <1>0, <1>4, <2>7 DEF CallLoaded, cache
<1>5. ASSUME NEW bridge \in Bridges, Bridge(bridge[1], bridge[2]) PROVE GraphIInv'
  <2>1. bridge[1] \in Keys /\ bridge[2] \in Keys
    BY SummaryAssumption
  <2>2. rev' \in [Labels -> SUBSET Keys] /\ \A l \in Labels : rev[l] \subseteq rev'[l]
    BY <1>5, <2>1, KeysAreLabels DEF Bridge
  <2> QED
    BY <1>5, <2>2 DEF Bridge, cache, DependenciesIndexed
<1>6. CASE Save
  <2>1. DOMAIN disk' \subseteq Keys /\ disk' \in [DOMAIN disk' -> SUBSET Labels]
    BY <1>6 DEF Save
  <2>2. diskRev' \in [Keys -> SUBSET Keys]
    BY <1>6 DEF Save
  <2> QED
    BY <1>6, <2>1, <2>2 DEF Save, memory, DependenciesIndexed
<1>7. ASSUME NEW files \in SUBSET Files, Invalidate(files) PROVE GraphIInv'
  <2> DEFINE gone == Impacted(files)
  <2>1. /\ mem' = Without(mem, gone) /\ disk' = Without(disk, gone)
        /\ rev' = [l \in Labels |-> rev[l] \ gone]
        /\ missing' = missing \ gone
        /\ diskRev' = [k \in Keys |-> IF k \in gone THEN {} ELSE diskRev[k]]
    BY <1>7 DEF Invalidate
  <2> HIDE DEF gone
  <2>2. GraphTypeOK'
    BY <2>1, WithoutType
  <2>3. DependenciesIndexed'
    BY <2>1 DEF DependenciesIndexed, Without
  <2> QED
    BY <2>2, <2>3
<1>8. CASE NewGraph
  BY <1>8 DEF NewGraph, cache, Empty, DependenciesIndexed
<1>9. CASE UNCHANGED graphVars
  BY <1>9 DEF graphVars, memory, cache, DependenciesIndexed
<1> QED
  BY <1>1, <1>2, <1>3, <1>4, <1>5, <1>6, <1>7, <1>8, <1>9 DEF GraphNext

LEMMA IndexInit == GraphInit => GraphIInv
BY DEF GraphInit, GraphIInv, GraphTypeOK, DependenciesIndexed, Empty

(* Summaries, index and cache keep their shape. *)
THEOREM GraphTypeCorrect == GraphSpec => []GraphTypeOK
<1>1. GraphIInv => GraphTypeOK
  BY DEF GraphIInv
<1> QED
  BY <1>1, IndexInit, IndexStep, PTL DEF GraphSpec

(* The index from callee to callers is complete after any sequence of      *)
(* recordings, calls, loads, bridges, saves and invalidations.             *)
THEOREM IndexComplete == GraphSpec => []DependenciesIndexed
<1>1. GraphIInv => DependenciesIndexed
  BY DEF GraphIInv
<1> QED
  BY <1>1, IndexInit, IndexStep, PTL DEF GraphSpec

(* No summary that depends on an invalidated one survives: the work list   *)
(* follows an index that misses no caller.                                 *)
THEOREM NoDependentSurvives == GraphSpec => InvalidationReachesCallers
<1>1. ASSUME GraphIInv, NEW files \in SUBSET Files, Invalidate(files),
             NEW k \in DOMAIN mem'
      PROVE  mem'[k] \cap (DOMAIN mem \ DOMAIN mem') = {}
  <2> DEFINE gone == Impacted(files)
  <2>1. mem' = Without(mem, gone)
    BY <1>1 DEF Invalidate
  <2>2. DOMAIN mem' = DOMAIN mem \ gone /\ mem'[k] = mem[k]
    BY <1>1, <2>1 DEF Without
  <2>3. SUFFICES ASSUME NEW l \in mem[k], l \in gone PROVE FALSE
    BY <2>2
  <2>4. k \in Keys /\ k \in DOMAIN mem /\ k \notin gone
    BY <1>1, <2>2 DEF GraphIInv, GraphTypeOK
  <2>5. k \in rev[l]
    BY <1>1, <2>3, <2>4 DEF GraphIInv, DependenciesIndexed
  <2>6. PICK S \in SUBSET Keys :
          /\ {x \in DOMAIN mem : x[1] \in files} \subseteq S
          /\ ClosedUnderCallers(S) /\ k \notin S
    BY <2>4 DEF Impacted
  <2>7. l \in S
    BY <2>3, <2>6 DEF Impacted
  <2> QED
    BY <2>5, <2>6, <2>7 DEF ClosedUnderCallers
<1>2. GraphIInv /\ [GraphNext]_graphVars =>
        [\A files \in SUBSET Files : Invalidate(files) =>
           \A k \in DOMAIN mem' : mem'[k] \cap (DOMAIN mem \ DOMAIN mem') = {}]_graphVars
  BY <1>1
<1> QED
  BY <1>2, IndexInit, IndexStep, PTL DEF GraphSpec, InvalidationReachesCallers

-----------------------------------------------------------------------------
(* While the cache can be read, a function is remembered as missing only   *)
(* if the cache has no summary of it that memory lacks.                    *)
THEOREM MissingIsTrue ==
    ASSUME ~Contended
    PROVE  GraphSpec => []MissingIsMissing
<1>1. GraphInit => MissingIsMissing
  BY DEF GraphInit, MissingIsMissing
<1>2. GraphIInv /\ MissingIsMissing /\ [GraphNext]_graphVars => MissingIsMissing'
  <2> SUFFICES ASSUME GraphIInv, MissingIsMissing, [GraphNext]_graphVars PROVE MissingIsMissing'
    OBVIOUS
  <2> USE DEF MissingIsMissing
  <2>1. ASSUME NEW k \in Keys, NEW called \in SUBSET Callees(k), Record(k, called)
        PROVE  MissingIsMissing'
    BY <2>1 DEF Record, With, cache
  <2>2. ASSUME NEW caller \in Keys, NEW callee \in Keys, CallKnown(caller, callee)
        PROVE  MissingIsMissing'
    <3>1. DOMAIN mem \subseteq DOMAIN mem'
      BY <2>2, DependencyStep DEF CallKnown, GraphIInv, GraphTypeOK, DependenciesIndexed, Indexed
    <3> QED
      BY <2>2, <3>1 DEF CallKnown, cache
  <2>3. ASSUME NEW caller \in Keys, NEW callee \in Keys, CallUnknown(caller, callee)
        PROVE  MissingIsMissing'
    BY <2>3 DEF CallUnknown, cache
  <2>4. ASSUME NEW caller \in Keys, NEW callee \in Keys, CallLoaded(caller, callee)
        PROVE  MissingIsMissing'
    <3>1. DOMAIN mem \subseteq DOMAIN mem'
      BY <2>4 DEF CallLoaded, Dependency, With
    <3> QED
      BY <2>4, <3>1 DEF CallLoaded, cache
  <2>5. ASSUME NEW bridge \in Bridges, Bridge(bridge[1], bridge[2])
        PROVE  MissingIsMissing'
    BY <2>5 DEF Bridge, cache
  <2>6. CASE Save
    BY <2>6 DEF Save, memory
  <2>7. ASSUME NEW files \in SUBSET Files, Invalidate(files) PROVE MissingIsMissing'
    BY <2>7 DEF Invalidate, Without
  <2>8. CASE NewGraph
    BY <2>8 DEF NewGraph, cache, Empty
  <2>9. CASE UNCHANGED graphVars
    BY <2>9 DEF graphVars, memory, cache
  <2> QED
    BY <2>1, <2>2, <2>3, <2>4, <2>5, <2>6, <2>7, <2>8, <2>9 DEF GraphNext
<1> QED
  BY <1>1, <1>2, IndexInit, IndexStep, PTL DEF GraphSpec
===============================================================================
