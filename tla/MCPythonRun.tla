----------------------------- MODULE MCPythonRun -----------------------------
(* Programs over two variables: every way to fill a few shapes with statements.  A
   statement with blocks names their last lines. *)
EXTENDS PythonRun

Stmt(op, call, def, uses) ==
    [op |-> op, call |-> call, def |-> def, uses |-> uses,
     body |-> 0, handlers |-> 0, orelse |-> 0, final |-> 0]
Blocks(s, body, handlers, orelse, final) ==
    [s EXCEPT !.body = body, !.handlers = handlers, !.orelse = orelse, !.final = final]

(* A sequence of statements, those without blocks ending where they are. *)
Lines(stmts) ==
    [l \in DOMAIN stmts |-> IF stmts[l].body = 0 THEN Blocks(stmts[l], l, l, l, l) ELSE stmts[l]]

ReadX == Stmt("assign", "input", {"x"}, {})
ReadY == Stmt("assign", "input", {"y"}, {})
EnvX == Stmt("annassign", "getenv", {"x"}, {})
YofX == Stmt("assign", "none", {"y"}, {"x"})
XofY == Stmt("assign", "none", {"x"}, {"y"})
AddYtoX == Stmt("augassign", "none", {"x"}, {"y"})
ZeroX == Stmt("assign", "none", {"x"}, {})
SystemX == Stmt("expr", "system", {}, {"x"})
SystemY == Stmt("expr", "system", {}, {"y"})
PopenY == Stmt("assign", "system", {"y"}, {"x"})
Break == Stmt("break", "none", {}, {})
Continue == Stmt("continue", "none", {}, {})
RaiseY == Stmt("raise", "none", {}, {"y"})
ReturnX == Stmt("return", "none", {}, {"x"})

Test(call, uses) == Stmt("if", call, {}, uses)
If(test, body, orelse) == Blocks(test, body, body, orelse, orelse)
Loop(def, uses, body, orelse) == Blocks(Stmt("loop", "none", def, uses), body, body, orelse, orelse)
Try(body, handlers, orelse, final) == Blocks(Stmt("try", "none", {}, {}), body, handlers, orelse, final)
Except(def, body) == Blocks(Stmt("except", "none", def, {}), body, body, body, body)
With(def, uses, body) == Blocks(Stmt("with", "none", def, uses), body, body, body, body)
Def(name, params, body) == Blocks(Stmt("def", name, params, {}), body, body, body, body)
Call(name, def, uses) == Stmt(IF def = {} THEN "expr" ELSE "assign", name, def, uses)

(* A loop with an else clause, and a test in it. *)
Looping ==
    {Lines(<<a, Loop({}, {"y"}, 7, 8), b, If(t, 5, 6), c, d, e, f, SystemX>>) :
       a \in {ReadX, ZeroX}, b \in {SystemX, YofX}, t \in {Test("none", {"x"}), Test("int", {"y"})},
       c \in {Break, Continue, ReadY}, d \in {Break, XofY, ReadY, PopenY},
       e \in {AddYtoX, EnvX, SystemY}, f \in {YofX, SystemY}}

(* Nested tests, one that guards, and variables that are defined on both sides. *)
Testing ==
    {Lines(<<ReadX, b, If(t, 7, 8), If(u, 5, 6), c, d, e, f, g>>) :
       b \in {ReadY, YofX},
       t \in {Test("isinstance", {"x"}), Test("system", {"y"}), Test("int", {"x"})},
       u \in {Test("name", {"x"}), Test("none", {"y"})},
       c \in {XofY, EnvX, PopenY}, d \in {XofY, SystemX}, e \in {YofX, SystemY},
       f \in {AddYtoX, ZeroX, YofX}, g \in {SystemX, SystemY}}

(* A try in a loop: two handlers, an else and a finally clause, or none. *)
Trying ==
    {LET elses == IF else = ZeroX THEN <<>> ELSE <<else>>
         finals == IF final = ZeroX THEN <<>> ELSE <<final>>
         inElse == 8 + Len(elses)
         inFinal == inElse + Len(finals)
     IN  Lines(<<Loop({"y"}, {"x"}, inFinal, inFinal), Try(4, 8, inElse, inFinal), a, b,
                 Except({"y"}, 6), c, Except({}, 8), d>> \o elses \o finals \o <<SystemX>>) :
       a \in {ReadX, YofX}, b \in {Break, SystemX, XofY}, c \in {XofY, Continue, RaiseY},
       d \in {EnvX, Break}, else \in {ZeroX, SystemY}, final \in {ZeroX, SystemX, YofX}}

(* A function whose variables hide the module's, called twice. *)
Calling ==
    {Lines(<<a, Def("f", p, 6), b, With({"y"}, {"x"}, 5), c, d, e, Call("f", r, {"x"}), SystemX>>) :
       a \in {ReadX, ReadY}, p \in {{}, {"y"}, {"x"}}, b \in {ZeroX, ReadY, SystemX, YofX},
       c \in {SystemY, XofY, ReturnX}, d \in {AddYtoX, SystemY},
       e \in {Call("f", {}, {"x"}), Call("f", {"x"}, {"y"}), EnvX}, r \in {{}, {"x"}}}

MCPrograms == Looping \cup Testing \cup Trying \cup Calling
=============================================================================
