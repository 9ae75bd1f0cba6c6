------------------------------ MODULE CpgBuilder ------------------------------
(*****************************************************************************)
(* The code property graph of a Python module: cpg/builder.py walks the       *)
(* statements once, in the order of the text, adds a node for each, links it   *)
(* to the nodes control may come from (_cfg_prev) and to the definitions above *)
(* it of the variables it uses.                                                *)
(*                                                                             *)
(* A program is the sequence of its statements, whichever block they are in,   *)
(* and a line the position of one.  A statement is a record of what the walk   *)
(* reads of it: its kind, the call it consists of, the variables it defines    *)
(* and uses, and the last line of each of its blocks, which follow it one      *)
(* after the other.  Expressions are not looked into any further.              *)
(*                                                                             *)
(* The visitors call each other.  A call that goes on after a block is an      *)
(* entry of open, with its local variables, innermost last.                    *)
(*****************************************************************************)
EXTENDS Integers, Sequences, FiniteSets, FiniteSetsExt, Functions

CONSTANTS
    Vars,                   \* the variables a program may name
    Programs                \* the modules that are analysed

VARIABLES
    prog,                   \* the module
    line,                   \* the statement that is visited next
    builder,                \* the attributes of the CPGBuilder
    open                    \* the statements whose blocks are being visited

buildVars == <<prog, line, builder, open>>

-------------------------------------------------------------------------------
Parts == {"body", "handlers", "orelse", "final"}

WithBlocks == {"if", "loop", "try", "with", "def", "except"}
Ops ==
    WithBlocks \cup {"assign", "annassign", "augassign", "expr", "return", "raise", "break", "continue"}

(* An empty block ends where the one before it does. *)
StatementType ==
    [op : Ops, call : STRING \cup {"none"}, def : SUBSET Vars, uses : SUBSET Vars,
     body : Nat, handlers : Nat, orelse : Nat, final : Nat]

(* The end of the block of s that line m is in. *)
EndAround(s, m) ==
    IF m <= s.body THEN s.body
    ELSE IF m <= s.handlers THEN s.handlers
    ELSE IF m <= s.orelse THEN s.orelse
    ELSE s.final

(* The statement at m stands in a block of the one at l, not deeper. *)
IsChild(p, l, m) ==
    /\ l < m /\ m <= p[l].final
    /\ \A k \in l + 1 .. m - 1 : p[k].final < m

(* The syntax tree of a module without classes and without functions in functions. *)
IsProgram(p) ==
    /\ p \in Seq(StatementType) /\ p # <<>>
    /\ \A l \in DOMAIN p : (\A k \in 1 .. l - 1 : p[k].final < l) => p[l].op # "except"
    /\ \A l \in DOMAIN p :
          LET s == p[l] IN
          /\ l <= s.body /\ s.body <= s.handlers /\ s.handlers <= s.orelse
          /\ s.orelse <= s.final /\ s.final <= Len(p)
          /\ \A m \in l + 1 .. s.final : p[m].final <= EndAround(s, m)
          /\ l < s.body <=> s.op \in WithBlocks
          /\ s.op # "try" => s.handlers = s.body /\ s.final = s.orelse
          /\ s.orelse > s.handlers => s.op \in {"if", "loop", "try"}
          /\ \A m \in l + 1 .. s.final :
                IsChild(p, l, m) => (s.body < m /\ m <= s.handlers <=> p[m].op = "except")
          /\ s.op = "def" => \A m \in l + 1 .. s.final : p[m].op # "def"
          /\ s.op \in {"if", "try", "break", "continue", "return", "raise"} => s.def = {}
          /\ s.op = "augassign" => \A v, w \in s.def : v = w

ASSUME BuilderAssumption ==
    /\ Vars \subseteq STRING
    /\ \A p \in Programs : IsProgram(p)

-------------------------------------------------------------------------------
(* EdgeKind *)
Kinds == {"CFG_NEXT", "CFG_BRANCH_TRUE", "CFG_BRANCH_FALSE", "CFG_EXCEPT", "DATA_DEPENDENCY"}

NoDefs == [v \in Vars |-> {}]

(* CPGBuilder.__init__: nothing visited, the module's scope, no loop. *)
EmptyBuilder ==
    [nodes |-> <<>>, edges |-> <<>>, prev |-> {}, breaks |-> <<>>,
     scopes |-> <<NoDefs>>, defs |-> NoDefs]

BuildStart ==
    /\ prog \in Programs
    /\ line = 1
    /\ builder = EmptyBuilder
    /\ open = <<>>

NodeFor(op, l, call, uses) == [op |-> op, line |-> l, call |-> call, uses |-> uses]

AddNode(b, node) ==
    [b EXCEPT !.nodes = Append(@, node), !.edges = Append(@, [k \in Kinds |-> <<>>])]

(* add_edge from each of sources; an edge that is there stays where it is. *)
AddEdges(b, sources, kind, target) ==
    [b EXCEPT !.edges =
        [n \in DOMAIN b.edges |->
            IF n \in sources /\ target \notin Range(b.edges[n][kind])
            THEN [b.edges[n] EXCEPT ![kind] = Append(@, target)]
            ELSE b.edges[n]]]

NewestNode(b) == Len(b.nodes)

(* _add_stmt_node and _link_cfg: a new node that follows what came before. *)
EnterNode(b, op, l) ==
    LET added == AddNode(b, NodeFor(op, l, prog[l].call, prog[l].uses))
        n == NewestNode(added)
    IN  [AddEdges(added, b.prev, "CFG_NEXT", n) EXCEPT !.prev = {n}]

(* Mutant: a use is linked to the newest definition alone, whatever branch it is in. *)
NewestDefinition(b, v) ==
    LET known == {i \in DOMAIN b.scopes : b.scopes[i][v] # {}}
    IN  IF known = {} THEN {} ELSE {Max(b.scopes[Max(known)][v])}

(* The definitions _link_data_dep links a use to: those of the innermost scope
   that has any. *)
DefinitionsOf(b, v) ==
    LET known == {i \in DOMAIN b.scopes : b.scopes[i][v] # {}}
    IN  IF known = {} THEN {} ELSE b.scopes[Max(known)][v]

UseVars(b, vars, n) ==
    AddEdges(b, UNION {DefinitionsOf(b, v) : v \in vars}, "DATA_DEPENDENCY", n)

WithDefinition(defs, vars, n) ==
    [v \in Vars |-> IF v \in vars THEN defs[v] \cup {n} ELSE defs[v]]

DefineVars(b, vars, n) ==
    [b EXCEPT !.scopes[Len(b.scopes)] = WithDefinition(@, vars, n),
              !.defs = WithDefinition(@, vars, n)]

(* A node that uses and defines the variables of its statement. *)
AddStatement(b, op, l) ==
    LET entered == EnterNode(b, op, l)
        n == NewestNode(entered)
    IN  DefineVars(UseVars(entered, prog[l].uses, n), prog[l].def, n)

-------------------------------------------------------------------------------
Enclosing == open[Len(open)]
BlockEnd == IF open = <<>> THEN Len(prog) ELSE prog[Enclosing.stmt][Enclosing.part]

Built == open = <<>> /\ line > Len(prog)

(* The statement that is visited, *)
Visiting(ops) == line <= BlockEnd /\ prog[line].op \in ops
(* and the end of a block of one. *)
AfterBlock(op, part) ==
    /\ open # <<>> /\ line > BlockEnd
    /\ prog[Enclosing.stmt].op = op /\ Enclosing.part = part

GoOn == line' = line + 1 /\ UNCHANGED <<prog, open>>

(* A visitor starts on the blocks of the statement with the newest node. *)
Open(b) ==
    /\ builder' = b
    /\ open' = Append(open, [stmt |-> line, part |-> "body", node |-> NewestNode(b),
                             split |-> NewestNode(b), exits |-> {}, handled |-> {}])
    /\ line' = line + 1
    /\ UNCHANGED prog

Resume(frame) ==
    /\ open' = [open EXCEPT ![Len(open)] = frame]
    /\ UNCHANGED <<prog, line>>

Close ==
    /\ open' = SubSeq(open, 1, Len(open) - 1)
    /\ UNCHANGED <<prog, line>>

(* Assign, AnnAssign, AugAssign, Expr, Import, Delete, Assert, Pass, With: the block
   of a with goes on as the one around it. *)
VisitSimple ==
    /\ Visiting({"assign", "annassign", "augassign", "expr", "with"})
    /\ builder' = AddStatement(builder, prog[line].op, line)
    /\ GoOn

(* Return and Raise: nothing follows. *)
VisitTerminator ==
    /\ Visiting({"return", "raise"})
    /\ builder' = [AddStatement(builder, prog[line].op, line) EXCEPT !.prev = {}]
    /\ GoOn

VisitBreak ==
    /\ Visiting({"break"})
    /\ LET at == EnterNode(builder, "break", line)
           loop == Len(at.breaks)
           Collected(breaks) == IF loop = 0 THEN breaks
                                ELSE [breaks EXCEPT ![loop] = @ \cup {NewestNode(at)}]
       IN  builder' = [at EXCEPT !.breaks = Collected(@), !.prev = {}]
    /\ GoOn

VisitContinue ==
    /\ Visiting({"continue"})
    /\ builder' = [EnterNode(builder, "continue", line) EXCEPT !.prev = {}]
    /\ GoOn

-------------------------------------------------------------------------------
VisitIf ==
    /\ Visiting({"if"})
    /\ LET at == EnterNode(builder, "test", line)
       IN  Open(UseVars(at, prog[line].uses, NewestNode(at)))

(* The edge to the first node of a branch, if there is one. *)
LinkBranch(b, kind) ==
    AddEdges(b, IF NewestNode(b) > Enclosing.split THEN {Enclosing.node} ELSE {},
             kind, Enclosing.split + 1)

AfterThen ==
    /\ AfterBlock("if", "body")
    /\ builder' = [LinkBranch(builder, "CFG_BRANCH_TRUE") EXCEPT !.prev = {Enclosing.node}]
    /\ Resume([Enclosing EXCEPT !.part = "orelse", !.exits = builder.prev,
                                  !.split = NewestNode(builder)])

(* The phi node where two branches join that both define a variable. *)
AddPhi(b, vars, branches, exits) ==
    LET added == AddNode(b, NodeFor("phi", Enclosing.stmt, "none", {}))
        p == NewestNode(added)
        flow == AddEdges(added, exits, "CFG_NEXT", p)
        data == AddEdges(flow, UNION {b.defs[v] \cap branches : v \in vars}, "DATA_DEPENDENCY", p)
    IN  [DefineVars(data, vars, p) EXCEPT !.prev = {p}]

AfterIf ==
    /\ AfterBlock("if", "orelse")
    /\ LET linked == LinkBranch(builder, "CFG_BRANCH_FALSE")
           inTrue == Enclosing.node + 1 .. Enclosing.split
           inFalse == Enclosing.split + 1 .. NewestNode(builder)
           phi == {v \in Vars : linked.defs[v] \cap inTrue # {} /\ linked.defs[v] \cap inFalse # {}}
           exits == Enclosing.exits \cup builder.prev
       IN  builder' = IF Enclosing.exits # {} /\ builder.prev # {} /\ phi # {}
                      THEN AddPhi(linked, phi, inTrue \cup inFalse, exits)
                      ELSE [linked EXCEPT !.prev = exits]
    /\ Close

-------------------------------------------------------------------------------
(* _handle_loop: for and while. *)
VisitLoop ==
    /\ Visiting({"loop"})
    /\ Open([AddStatement(builder, "loop", line) EXCEPT !.breaks = Append(@, {})])

(* Mutant: the breaks of a loop are dropped with its collector. *)
BreaksDropped == {}

Breaks == builder.breaks[Len(builder.breaks)]

(* Back to the header; the else clause follows it too. *)
AfterLoopBody ==
    /\ AfterBlock("loop", "body")
    /\ builder' = [AddEdges(builder, builder.prev, "CFG_NEXT", Enclosing.node)
                     EXCEPT !.breaks = SubSeq(@, 1, Len(@) - 1), !.prev = {Enclosing.node}]
    /\ Resume([Enclosing EXCEPT !.part = "orelse", !.exits = Breaks])

AfterLoop ==
    /\ AfterBlock("loop", "orelse")
    /\ builder' = [builder EXCEPT !.prev = {Enclosing.node} \cup Enclosing.exits \cup @]
    /\ Close

-------------------------------------------------------------------------------
VisitTry ==
    /\ Visiting({"try"})
    /\ Open(EnterNode(builder, "try", line))

AfterTryBody ==
    /\ AfterBlock("try", "body")
    /\ Resume([Enclosing EXCEPT !.part = "handlers", !.exits = builder.prev])
    /\ UNCHANGED builder

(* Each handler starts from the try node alone; _try_body_nodes never holds
   another one. *)
VisitHandler ==
    /\ Visiting({"except"})
    /\ LET added == AddNode(builder, NodeFor("except", line, prog[line].call, prog[line].uses))
           n == NewestNode(added)
           linked == AddEdges(added, {Enclosing.node}, "CFG_EXCEPT", n)
       IN  builder' = [DefineVars(linked, prog[line].def, n) EXCEPT !.prev = {n}]
    /\ GoOn

(* What leaves the handlers is what leaves the last one. *)
AfterHandlers ==
    /\ AfterBlock("try", "handlers")
    /\ builder' = [builder EXCEPT !.prev = Enclosing.exits]
    /\ Resume([Enclosing EXCEPT !.part = "orelse", !.handled = builder.prev])

AfterTryElse ==
    /\ AfterBlock("try", "orelse")
    /\ LET exits == Enclosing.exits \cup Enclosing.handled \cup builder.prev
       IN  /\ builder' = [builder EXCEPT !.prev = exits]
           /\ Resume([Enclosing EXCEPT !.part = "final", !.exits = exits])

AfterTry ==
    /\ AfterBlock("try", "final")
    /\ builder' = [builder EXCEPT !.prev = IF @ = {} THEN Enclosing.exits ELSE @]
    /\ Close

-------------------------------------------------------------------------------
(* _handle_funcdef: the body in a scope of its own, that starts with the
   parameters, *)
VisitFunctionDef ==
    /\ Visiting({"def"})
    /\ LET at == EnterNode(builder, "def", line)
           inside == [at EXCEPT !.scopes = Append(@, NoDefs), !.breaks = Append(@, {})]
       IN  Open(DefineVars(inside, prog[line].def, NewestNode(at)))

(* and what follows the definition follows its entry. *)
AfterFunction ==
    /\ AfterBlock("def", "body")
    /\ builder' = [builder EXCEPT !.scopes = SubSeq(@, 1, Len(@) - 1),
                                  !.breaks = SubSeq(@, 1, Len(@) - 1),
                                  !.prev = {Enclosing.node}]
    /\ Close

BuildStep ==
    \/ VisitSimple \/ VisitTerminator \/ VisitBreak \/ VisitContinue
    \/ VisitIf \/ AfterThen \/ AfterIf
    \/ VisitLoop \/ AfterLoopBody \/ AfterLoop
    \/ VisitTry \/ AfterTryBody \/ VisitHandler \/ AfterHandlers \/ AfterTryElse \/ AfterTry
    \/ VisitFunctionDef \/ AfterFunction
===============================================================================
