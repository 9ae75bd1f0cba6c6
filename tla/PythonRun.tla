------------------------------ MODULE PythonRun ------------------------------
(*****************************************************************************)
(* A module from its text to its execution: CpgBuilder makes its graph,        *)
(* CpgTaint searches it, and then the statements are executed one by one, tests *)
(* turn out either way, statements in a try may raise, and the origins of each  *)
(* variable's value are followed: through assignments, into the parameters of a *)
(* function and back with its result, and with an exception to its handler.     *)
(* What Python does is outside the repository; it is the measure of what the    *)
(* graph and the search should cover.  A function of the module is run where a  *)
(* simple statement calls it; elsewhere a call is one of a library.             *)
(*****************************************************************************)
EXTENDS CpgBuilder, CpgTaint

VARIABLES
    todo,                   \* what is left to do, innermost last
    jump,                   \* the break, continue, return or raise under way
    at,                     \* the node executed last
    ordinary,               \* control goes on from there without a detour
    scope,                  \* the function that is executed, 0 for the module
    env, local,             \* the values of module and local variables
    functions,              \* the functions defined so far
    carried,                \* the origins of what is returned or raised
    hits                    \* the origins of values that came to a sink, and the sink

runVars == <<todo, jump, at, ordinary, scope, env, local, functions, carried, hits>>
vars == <<buildVars, searchVars, runVars>>

Jumps == {"break", "continue", "return", "raise"}

(* The frames: the statements of a block from one line to another, and what is
   resumed after a block. *)
Block(first, last) == [kind |-> "block", first |-> first, last |-> last]
InLoop(l) == [kind |-> "loop", stmt |-> l]
InTry(l, part, caught) == [kind |-> "try", stmt |-> l, part |-> part, caught |-> caught]
InFinal == [kind |-> "final", then |-> jump, carried |-> carried]
InCall(l, own) == [kind |-> "call", stmt |-> l, own |-> own, scope |-> scope, saved |-> local]

Unknown == [def |-> 0, from |-> {}]

EmptyCpg == [nodes |-> <<>>, edges |-> <<>>]

Init ==
    /\ BuildStart
    /\ cpg = EmptyCpg /\ SearchStart
    /\ todo = <<>> /\ jump = "none" /\ at = 0 /\ ordinary = TRUE /\ scope = 0
    /\ env = [v \in Vars |-> Unknown] /\ local = <<>> /\ functions = <<>>
    /\ carried = {} /\ hits = {}

(* find_taint_paths is given the graph; when it is done, the module is run. *)
StartSearch ==
    /\ Built /\ cpg = EmptyCpg
    /\ cpg' = [nodes |-> builder.nodes, edges |-> builder.edges]
    /\ worklist' = Seeds' /\ visited' = {} /\ nodeTaint' = Untainted' /\ paths' = <<>>
    /\ todo' = <<Block(1, Len(prog))>>
    /\ UNCHANGED <<buildVars, jump, at, ordinary, scope, env, local, functions, carried, hits>>

-------------------------------------------------------------------------------
NodeOf(l) == CHOOSE n \in Nodes : cpg.nodes[n].line = l /\ OpOf(n) # "phi"

Read(v) == IF v \in DOMAIN local THEN local[v] ELSE env[v]

Simple == {"assign", "annassign", "augassign", "expr"}

(* x += y reads both. *)
Own(s) == IF s.op = "augassign" THEN s.def ELSE {}
Reads(s) == s.uses \cup Own(s)

(* The origin of a value: the node of a source, and what there is on the way from it
   but assignments that are read below them: calls, exceptions, sinks, and reads of
   a variable at or above its assignment, in another round of a loop or in a function
   that stands above it. *)
From(n) == [source |-> n, detours |-> {}]
Via(detour, origins) ==
    {[source |-> o.source, detours |-> o.detours \cup {detour}] : o \in origins}

Origins(names, n) ==
    UNION {IF Read(v).def < n THEN Read(v).from ELSE Via("back", Read(v).from) : v \in names}

Written(values, names, value) ==
    [v \in DOMAIN values |-> IF v \in names THEN value ELSE values[v]]

(* In the scope whose local variables have these values. *)
Assign(values, names, value) ==
    /\ local' = Written(values, names, value)
    /\ env' = Written(env, names \ DOMAIN values, value)

Visit(n) == at' = n /\ ordinary' = TRUE

(* Evaluate a statement at its node. *)
Evaluate(l) ==
    LET n == NodeOf(l)
        got == Origins(Reads(prog[l]), n) \cup (IF IsSource(n) THEN {From(n)} ELSE {})
    IN  /\ Visit(n)
        /\ hits' = IF IsSink(n) THEN hits \cup {[origin |-> o, sink |-> n] : o \in got} ELSE hits
        /\ Assign(local, prog[l].def,
                  [def |-> n, from |-> IF IsSink(n) THEN Via("sink", got) ELSE got])

(* The local names of a function. *)
LocalsOf(f) == UNION {prog[l].def : l \in f .. prog[f].final}

-------------------------------------------------------------------------------
Innermost == todo[Len(todo)]
Outer == SubSeq(todo, 1, Len(todo) - 1)
InTryBody == \E i \in DOMAIN todo : todo[i].kind = "try" /\ todo[i].part = "body"

(* What an exception of a statement takes along: of its variables, and of the
   exceptions that are being handled. *)
Raised(l) ==
    Origins(Reads(prog[l]), NodeOf(l))
        \cup UNION {todo[i].caught : i \in {k \in DOMAIN todo : todo[k].kind = "try"}}

Running == Searched /\ todo # <<>>
Ready == Running /\ jump = "none" /\ Innermost.kind = "block" /\ Innermost.first <= Innermost.last
Here == Innermost.first
Statement == prog[Here]
Then(frames) == todo' = Append(Outer, Block(Statement.final + 1, Innermost.last)) \o frames

Body(l) == Block(l + 1, prog[l].body)
Orelse(l) == Block(prog[l].handlers + 1, prog[l].orelse)
Final(l) == Block(prog[l].orelse + 1, prog[l].final)

Complete ==
    /\ Ready /\ Statement.op \in Simple
    /\ Statement.call \notin DOMAIN functions
    /\ Evaluate(Here)
    /\ Then(<<>>)
    /\ UNCHANGED <<jump, scope, functions, carried>>

Fail ==
    /\ Ready /\ Statement.op \in Simple /\ InTryBody
    /\ at' = NodeOf(Here) /\ ordinary' = FALSE
    /\ jump' = "raise" /\ carried' = Raised(Here)
    /\ Then(<<>>)
    /\ UNCHANGED <<scope, env, local, functions, hits>>

(* A parameter is made of any of the variables in the arguments. *)
CallFunction ==
    /\ Ready /\ Statement.op \in Simple /\ Statement.call \in DOMAIN functions
    /\ LET f == functions[Statement.call]
           n == NodeOf(Here)
       IN
         /\ \E given \in [prog[f].def -> SUBSET Statement.uses] :
               local' = [v \in LocalsOf(f) |->
                           IF v \in prog[f].def
                           THEN [def |-> NodeOf(f), from |-> Via("call", Origins(given[v], n))]
                           ELSE Unknown]
         /\ Then(<<InCall(Here, Origins(Own(Statement), n)), Body(f)>>)
         /\ scope' = f
         /\ at' = n /\ ordinary' = FALSE
    /\ UNCHANGED <<jump, env, functions, carried, hits>>

Define ==
    /\ Ready /\ Statement.op = "def"
    /\ Visit(NodeOf(Here))
    /\ functions' = [name \in DOMAIN functions \cup {Statement.call} |->
                        IF name = Statement.call THEN Here ELSE functions[name]]
    /\ Then(<<>>)
    /\ UNCHANGED <<jump, scope, env, local, carried, hits>>

Choose ==
    /\ Ready /\ Statement.op = "if"
    /\ Evaluate(Here)
    /\ \E branch \in {Body(Here), Orelse(Here)} : Then(<<branch>>)
    /\ UNCHANGED <<jump, scope, functions, carried>>

Begin ==
    /\ Ready /\ Statement.op \in {"with", "try"}
    /\ Evaluate(Here)
    /\ Then(IF Statement.op = "try" THEN <<InTry(Here, "body", {}), Body(Here)>> ELSE <<Body(Here)>>)
    /\ UNCHANGED <<jump, scope, functions, carried>>

Leap ==
    /\ Ready /\ Statement.op \in Jumps
    /\ at' = NodeOf(Here) /\ ordinary' = (Statement.op = "break")
    /\ jump' = Statement.op
    /\ carried' = CASE jump' = "return" -> Origins(Statement.uses, at')
                   [] jump' = "raise" -> Raised(Here)
                   [] OTHER -> {}
    /\ Then(<<>>)
    /\ UNCHANGED <<scope, env, local, functions, hits>>

(* The header: once more round the body, or on to the else clause. *)
Iterate ==
    /\ Running /\ jump = "none"
    /\ \E l \in IF Innermost.kind = "loop" THEN {Innermost.stmt}
                ELSE IF Ready THEN {Here} ELSE {} :
         /\ prog[l].op = "loop"
         /\ LET rest == IF Innermost.kind = "loop" THEN Outer
                        ELSE Append(Outer, Block(Statement.final + 1, Innermost.last))
            IN  todo' \in {rest \o <<InLoop(l), Body(l)>>, Append(rest, Orelse(l))}
         /\ Evaluate(l)
    /\ UNCHANGED <<jump, scope, functions, carried>>

-------------------------------------------------------------------------------
(* Steps between statements. *)
EndBlock ==
    /\ Running /\ jump = "none" /\ Innermost.kind = "block" /\ Innermost.first > Innermost.last
    /\ todo' = Outer
    /\ UNCHANGED <<jump, at, ordinary, scope, env, local, functions, carried, hits>>

LeaveBlock ==
    /\ Running /\ jump # "none" /\ Innermost.kind \in {"block", "final"}
    /\ todo' = Outer
    /\ UNCHANGED <<jump, at, ordinary, scope, env, local, functions, carried, hits>>

LeaveLoop ==
    /\ Running /\ jump # "none" /\ Innermost.kind = "loop"
    /\ todo' = IF jump = "continue" THEN todo ELSE Outer
    /\ jump' = IF jump \in {"break", "continue"} THEN "none" ELSE jump
    /\ UNCHANGED <<at, ordinary, scope, env, local, functions, carried, hits>>

HandlersOf(l) == {h \in prog[l].body + 1 .. prog[l].handlers : IsChild(prog, l, h)}

Handle ==
    /\ Running /\ jump = "raise" /\ Innermost.kind = "try" /\ Innermost.part = "body"
    /\ \E h \in HandlersOf(Innermost.stmt) :
         LET last == prog[h].final = prog[Innermost.stmt].handlers
             part == IF last THEN "last handler" ELSE "handler"
         IN  /\ todo' = Outer \o <<InTry(Innermost.stmt, part, carried), Body(h)>>
             /\ Visit(NodeOf(h))
             /\ Assign(local, prog[h].def, [def |-> NodeOf(h), from |-> Via("raise", carried)])
    /\ jump' = "none" /\ carried' = {}
    /\ UNCHANGED <<scope, functions, hits>>

(* Out of a try, normally or not: through its finally clause if it has one. *)
LeaveTry ==
    /\ Running /\ Innermost.kind = "try"
    /\ LET l == Innermost.stmt
           toElse == jump = "none" /\ Innermost.part = "body" /\ prog[l].orelse > prog[l].handlers
           toFinal == ~toElse /\ prog[l].final > prog[l].orelse
       IN  /\ todo' = Outer \o (IF toElse THEN <<InTry(l, "else", {}), Orelse(l)>>
                                ELSE IF toFinal THEN <<InFinal, Final(l)>> ELSE <<>>)
           /\ jump' = IF toFinal THEN "none" ELSE jump
           /\ carried' = IF toFinal THEN {} ELSE carried
           /\ ordinary' = (ordinary /\ Innermost.part # "handler" /\ ~(toFinal /\ jump # "none"))
    /\ UNCHANGED <<at, scope, env, local, functions, hits>>

EndFinal ==
    /\ Running /\ jump = "none" /\ Innermost.kind = "final"
    /\ todo' = Outer
    /\ jump' = Innermost.then /\ carried' = Innermost.carried
    /\ ordinary' = (ordinary /\ Innermost.then = "none")
    /\ UNCHANGED <<at, scope, env, local, functions, hits>>

(* The caller's statement gets the result, unless there is none. *)
Return ==
    /\ Running /\ Innermost.kind = "call"
    /\ todo' = Outer /\ scope' = Innermost.scope
    /\ Assign(Innermost.saved, IF jump = "raise" THEN {} ELSE prog[Innermost.stmt].def,
              [def |-> NodeOf(Innermost.stmt), from |-> Innermost.own \cup Via("call", carried)])
    /\ jump' = IF jump = "raise" THEN "raise" ELSE "none"
    /\ carried' = IF jump = "raise" THEN carried ELSE {}
    /\ ordinary' = FALSE
    /\ UNCHANGED <<at, functions, hits>>

RunStep ==
    \/ Complete \/ Fail \/ CallFunction \/ Define \/ Choose \/ Begin \/ Leap \/ Iterate
    \/ EndBlock \/ LeaveBlock \/ LeaveLoop \/ Handle \/ LeaveTry \/ EndFinal \/ Return

Next ==
    \/ BuildStep /\ UNCHANGED <<searchVars, runVars>>
    \/ StartSearch
    \/ SearchStep /\ UNCHANGED <<buildVars, runVars>>
    \/ RunStep /\ UNCHANGED <<buildVars, searchVars>>

Spec == Init /\ [][Next]_vars

-------------------------------------------------------------------------------
CfgKinds == Kinds \ {"DATA_DEPENDENCY"}
CfgNext(n) == UNION {Range(cpg.edges[n][k]) : k \in CfgKinds}

(* What control comes to from n, over any number of phi nodes. *)
OverPhi(n) ==
    LET phis == {p \in Nodes : OpOf(p) = "phi"}
        over[i \in 0 .. Cardinality(phis)] ==
          IF i = 0 THEN CfgNext(n)
          ELSE over[i - 1] \cup UNION {CfgNext(p) : p \in over[i - 1] \cap phis}
    IN  over[Cardinality(phis)]

(* Control flow: whenever the program goes on from one statement to the next
   without an exception, a continue, a call or a detour through a finally clause,
   the graph has an edge, or edges over phi nodes. *)
StepsAreEdges ==
    [][at' # at /\ at # 0 /\ ordinary => at' \in OverPhi(at)]_vars

(* Data flow: when a source's value comes to a sink through variables alone, each
   assigned above where it is read, the sink is reported for that source or one like
   it, whatever branches, rounds, exceptions and calls control went through between. *)
ValuesReachSinks ==
    Searched => \A h \in hits : h.origin.detours = {} =>
                    \E i \in DOMAIN paths :
                        paths[i].sink = h.sink /\ paths[i].tags = Tags(h.origin.source)

(* What taint_engine.py says of calls: TaintState goes along CALL edges. *)
CallsCarryValues ==
    Searched => \A h \in hits : h.origin.detours \subseteq {"call"} =>
                    \E i \in DOMAIN paths :
                        paths[i].sink = h.sink /\ paths[i].tags = Tags(h.origin.source)

(* What builder.py says of try: every statement of its body has an exception edge
   to each handler. *)
ExceptionsAreEdges ==
    [][jump = "raise" /\ jump' = "none" /\ at' # at /\ at # 0
          => at' \in Range(cpg.edges[at]["CFG_EXCEPT"])]_vars
===============================================================================
