------------------------- MODULE MCFunctionSummaries -------------------------
(* Files of five functions.  In a chain each returns what another returns, or a
   source; in a mix two functions of two statements each call each other. *)
EXTENDS FunctionSummaries, TLC

MCVars == {"p", "q"}
Plus(names, calls) == [source |-> FALSE, names |-> names, calls |-> calls]
Input == [source |-> TRUE, names |-> {}, calls |-> {}]
Constant == Plus({}, {})
Call(g, a) == [callee |-> g, method |-> FALSE, args |-> a]
St(op, depth, v, e) == [op |-> op, depth |-> depth, target |-> v, value |-> e]
Ret(e) == St("return", 1, "p", e)

Chains ==
    {[params |-> [f \in Funcs |-> <<"p">>],
      body |-> [f \in Funcs |-> <<Ret(IF g[f] = 0 THEN Input
                                       ELSE IF g[f] = N + 1 THEN Plus({"p"}, {})
                                       ELSE Plus({}, {Call(g[f], <<{"p"}>>)}))>>]] :
     g \in {h \in [Funcs -> 0..(N + 1)] : \A f \in Funcs : h[f] \in {0, f - 1, f + 1, N + 1}}}

Values == {Constant, Input, Plus({"q"}, {}), Plus({"p"}, {})}
          \cup {Plus({}, {Call(g, a)}) : g \in {1, 2}, a \in {<<{"p"}, {"q"}>>, <<{"q"}, {}>>}}
Firsts == {St(op, 1, v, e) : op \in {"assign", "augment"}, v \in MCVars, e \in Values}
Nested == {St("assign", 2, "p", Input), St("return", 2, "p", Plus({"p"}, {}))}
Mixed(first, second) ==
    {[params |-> [f \in Funcs |-> <<"p", "q">>],
      body |-> [f \in Funcs |-> IF f = 1 THEN <<s, Ret(e)>> ELSE IF f = 2 THEN <<t, Ret(d)>>
                                ELSE <<>>]] :
     s \in first, t \in second, e \in Values, d \in {Plus({"p"}, {}), Plus({}, {Call(1, <<{"q"}, {"p"}>>)})}}

Two == {St("assign", 1, "p", Plus({"q"}, {})), St("augment", 1, "q", Input)}
MCPlain == Chains \cup Mixed(Firsts, Two)
MCAll == MCPlain \cup Mixed(Nested, Two)
===============================================================================
