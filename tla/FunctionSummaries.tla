-------------------------- MODULE FunctionSummaries --------------------------
(***************************************************************************)
(* _build_function_taint_summaries (python_analyzer.py): for each function  *)
(* of one file, the parameters that reach its result and whether untrusted *)
(* input does.  The summaries are computed in place, function by function  *)
(* in the order of the file, for at most four rounds.                      *)
(*                                                                         *)
(* A function is its position in the file.  Its body lists its statements  *)
(* in the order of the text; depth 1 is the function's own block, and a    *)
(* deeper statement stands alone in its branch or loop.  Of an expression  *)
(* the source of untrusted input in it, the variables and the calls of     *)
(* functions of the file count; what other calls are given counts as the   *)
(* expression's own.                                                       *)
(***************************************************************************)
EXTENDS Integers, Sequences, Functions

CONSTANTS N,          \* the number of functions
          Vars,
          Programs    \* the files considered

Funcs == 1..N
CallType == [callee : Funcs, method : BOOLEAN, args : Seq(SUBSET Vars)]
ValueType == [source : BOOLEAN, names : SUBSET Vars, calls : SUBSET CallType]
Statement == [op : {"assign", "augment", "return"}, depth : Nat \ {0}, target : Vars,
              value : ValueType]

ASSUME ProgramAssumption ==
    /\ N \in Nat
    /\ Programs \subseteq [params : [Funcs -> Seq(Vars)], body : [Funcs -> Seq(Statement)]]

VARIABLES
    prog,        \* the file
    summaries,   \* what is known of each function
    round,       \* the round of the outer loop
    changed,     \* changed: whether a summary was replaced in this round
    fn,          \* the function at hand, N + 1 after the last one
    walking,     \* whether its body is being walked
    left,        \* its statements not yet walked
    depVars,     \* dep_vars: the parameters a variable depends on
    sourceVars,  \* source_vars: the variables that hold untrusted input
    tainted,     \* tainted_params of the function at hand
    source,      \* source of the function at hand
    done

walkVars == <<left, depVars, sourceVars, tainted, source>>
vars == <<prog, summaries, round, changed, fn, walking, walkVars, done>>

(* Mutant: one round less. *)
RoundsLess == 3
Rounds == 4
Body == prog.body[fn]

-------------------------------------------------------------------------------
(* _map_call_arguments: by position, a method's self included.  The arguments at
   the tainted parameters. *)
Bound(c) ==
    {a \in DOMAIN c.args \cap DOMAIN prog.params[c.callee] :
        prog.params[c.callee][a] \in summaries[c.callee].tainted}
DepsOf(names) == UNION {depVars[v] : v \in names}
ArgDeps(c, positions) == UNION {DepsOf(c.args[a]) : a \in positions}
(* Mutant: a call depends on nothing while its summary says so. *)
CallDepsBound(c) == ArgDeps(c, Bound(c))
(* A call whose summary binds no dependency depends on all it is given. *)
CallDeps(c) ==
    IF ArgDeps(c, Bound(c)) # {} THEN ArgDeps(c, Bound(c)) ELSE ArgDeps(c, DOMAIN c.args)
(* _expr_param_dependencies *)
Deps(e) == DepsOf(e.names) \cup UNION {CallDeps(c) : c \in e.calls}

Mentioned(e) == e.names \cup UNION {UNION Range(c.args) : c \in e.calls}
(* _expr_has_direct_source *)
HasSource(e) ==
    \/ e.source
    \/ Mentioned(e) \cap sourceVars # {}
    \/ \E c \in e.calls : summaries[c.callee].source

-------------------------------------------------------------------------------
Init ==
    /\ prog \in Programs
    /\ summaries = [f \in Funcs |-> [tainted |-> {}, source |-> FALSE]]
    /\ round = 1 /\ changed = FALSE /\ fn = 1 /\ walking = FALSE /\ done = FALSE
    /\ left = {} /\ depVars = [v \in Vars |-> {}] /\ sourceVars = {}
    /\ tainted = {} /\ source = FALSE

(* Mutant: what the last function left behind is kept. *)
SourcesKept == sourceVars
NoSources == {}

StartFunction ==
    /\ ~done /\ ~walking /\ fn \in Funcs
    /\ walking' = TRUE
    /\ left' = DOMAIN Body
    /\ depVars' = [v \in Vars |-> IF v \in Range(prog.params[fn]) THEN {v} ELSE {}]
    /\ sourceVars' = NoSources
    /\ tainted' = {}
    /\ source' = FALSE
    /\ UNCHANGED <<prog, summaries, round, changed, fn, done>>

(* ast.walk goes level by level: all of the function's own block comes first. *)
Before(i, j) ==
    \/ Body[i].depth < Body[j].depth
    \/ Body[i].depth = Body[j].depth /\ i <= j
Upcoming(i) == i \in left /\ \A j \in left : Before(i, j)

Assign(i) ==
    /\ Body[i].op = "assign"
    /\ depVars' = [depVars EXCEPT ![Body[i].target] = Deps(Body[i].value)]
    /\ sourceVars' = IF HasSource(Body[i].value) THEN sourceVars \cup {Body[i].target}
                     ELSE sourceVars \ {Body[i].target}
    /\ UNCHANGED <<tainted, source>>

Augment(i) ==
    /\ Body[i].op = "augment"
    /\ depVars' = [depVars EXCEPT ![Body[i].target] = @ \cup Deps(Body[i].value)]
    /\ sourceVars' = IF HasSource(Body[i].value) THEN sourceVars \cup {Body[i].target}
                     ELSE sourceVars
    /\ UNCHANGED <<tainted, source>>

Return(i) ==
    /\ Body[i].op = "return"
    /\ source' = (source \/ HasSource(Body[i].value))
    /\ tainted' = tainted \cup Deps(Body[i].value)
    /\ UNCHANGED <<depVars, sourceVars>>

Walk(i) ==
    /\ ~done /\ walking /\ Upcoming(i)
    /\ left' = left \ {i}
    /\ Assign(i) \/ Augment(i) \/ Return(i)
    /\ UNCHANGED <<prog, summaries, round, changed, fn, walking, done>>

EndFunction ==
    /\ ~done /\ walking /\ left = {}
    /\ summaries' = [summaries EXCEPT ![fn] = [tainted |-> tainted, source |-> source]]
    /\ changed' = (changed \/ summaries' # summaries)
    /\ fn' = fn + 1
    /\ walking' = FALSE
    /\ UNCHANGED <<prog, round, walkVars, done>>

EndRound ==
    /\ ~done /\ ~walking /\ fn = N + 1
    /\ IF changed /\ round < Rounds
       THEN round' = round + 1 /\ changed' = FALSE /\ fn' = 1 /\ UNCHANGED done
       ELSE done' = TRUE /\ UNCHANGED <<round, changed, fn>>
    /\ UNCHANGED <<prog, summaries, walking, walkVars>>

Next ==
    \/ StartFunction
    \/ \E i \in left : Walk(i)
    \/ EndFunction
    \/ EndRound

Spec == Init /\ [][Next]_vars
-------------------------------------------------------------------------------
(* What running the functions would do.  A value assigned to v by statement i of
   b is still there at j if no statement that always runs assigns v in between;
   a statement is reached if none that always runs returns before it. *)
Killed(b, v, i, j) ==
    \E k \in (i + 1)..(j - 1) : b[k].op = "assign" /\ b[k].depth = 1 /\ b[k].target = v
Reached(b, j) == \A k \in 1..(j - 1) : b[k].op = "return" => b[k].depth > 1

(* A statement takes its untrusted input from itself or from a callee of lower
   rank; of equal rank, from one earlier in the file. *)
Backed(s, f, rank) ==
    \/ s.value.source
    \/ \E c \in s.value.calls :
          rank[c.callee] < rank[f] \/ (rank[c.callee] = rank[f] /\ c.callee < f)
Handed(b, i, j) ==
    /\ i < j /\ b[i].op # "return" /\ b[i].target \in b[j].value.names
    /\ ~Killed(b, b[i].target, i, j)
(* The statements P hand untrusted input on until it is returned. *)
SourcePath(f, P, rank) ==
    LET b == prog.body[f]
    IN  /\ \A j \in P : Backed(b[j], f, rank) \/ \E i \in P : Handed(b, i, j)
        /\ \E j \in P : b[j].op = "return" /\ Reached(b, j)
(* Every function of rank below 4 returns untrusted input. *)
Ranked(rank) ==
    \A f \in Funcs : rank[f] < 4 => \E P \in SUBSET DOMAIN prog.body[f] : SourcePath(f, P, rank)

(* By <<f, p>> in flows, the result of f depends on its parameter p.  Variable v
   enters expression e by name or through a call it flows out of. *)
Enters(v, e, flows) ==
    \/ v \in e.names
    \/ \E c \in e.calls : \E a \in DOMAIN c.args :
          LET at == IF c.method THEN a + 1 ELSE a
          IN  /\ v \in c.args[a] /\ at \in DOMAIN prog.params[c.callee]
              /\ <<c.callee, prog.params[c.callee][at]>> \in flows
ParamPath(f, p, P, flows) ==
    LET b == prog.body[f]
    IN  /\ \A j \in P :
              \/ Enters(p, b[j].value, flows) /\ ~Killed(b, p, 0, j)
              \/ \E i \in P : /\ i < j /\ b[i].op # "return"
                             /\ Enters(b[i].target, b[j].value, flows)
                             /\ ~Killed(b, b[i].target, i, j)
        /\ \E j \in P : b[j].op = "return" /\ Reached(b, j)
Params == {q \in Funcs \X Vars : q[2] \in Range(prog.params[q[1]])}
Flowing(flows) ==
    \A q \in flows :
        \E P \in SUBSET DOMAIN prog.body[q[1]] : ParamPath(q[1], q[2], P, flows)

(* Functions without branches or loops, and no calls of methods. *)
Plain ==
    \A f \in Funcs : \A s \in Range(prog.body[f]) :
        s.depth = 1 /\ \A c \in s.value.calls : ~c.method

(* Type correctness of the summaries and the walk. *)
TypeOK ==
    /\ prog \in Programs
    /\ summaries \in [Funcs -> [tainted : SUBSET Vars, source : BOOLEAN]]
    /\ round \in 1..Rounds /\ changed \in BOOLEAN /\ fn \in 1..(N + 1)
    /\ walking \in BOOLEAN /\ done \in BOOLEAN
    /\ left \subseteq Nat /\ sourceVars \subseteq Vars /\ depVars \in [Vars -> SUBSET Vars]
    /\ tainted \subseteq Vars /\ source \in BOOLEAN

(* Whatever the order of the file: a parameter that reaches the result of its
   function, through however many calls, is in the summary, although the summaries
   are revised in place, shrink and grow, and the rounds are bounded. *)
ParamsFound ==
    done /\ Plain => \A flows \in SUBSET Params :
        Flowing(flows) => \A q \in flows : q[2] \in summaries[q[1]].tainted

(* Untrusted input is seen through any number of calls of earlier functions, and
   through three of later ones. *)
SourcesFound ==
    done => \A rank \in [Funcs -> 0..4] :
        Ranked(rank) => \A f \in Funcs : rank[f] < 4 => summaries[f].source
NearSourcesFound == Plain => SourcesFound

(* No function is blamed for another one's input: untrusted input is claimed only of
   functions whose calls lead to a source, in any round. *)
SourcesAreReal ==
    \A C \in SUBSET Funcs :
        (\A f \in Funcs : \A s \in Range(prog.body[f]) :
            s.value.source \/ (\E c \in s.value.calls : c.callee \in C) => f \in C)
        => \A f \in Funcs : summaries[f].source => f \in C
===============================================================================
