---------------------------- MODULE MCIFDSSolver ----------------------------
(* Instances of IFDSSolver: main calls f at mc, f calls itself at fc. *)
EXTENDS IFDSSolver, TLC

MCNodes == {"mc", "mr", "fe", "fc", "fx"}
MCCallNodes == {"mc", "fc"}
MCExitNodes == {"fx"}
MCFunctions == {"main", "f"}
MCFunctionOf == [n \in MCNodes |-> IF n \in {"mc", "mr"} THEN "main" ELSE "f"]
MCFacts == {"zero", "x", "y"}

MCSiteMain == [node |-> "mc", caller |-> "main", callee |-> "f"]
MCSiteRec  == [node |-> "fc", caller |-> "f", callee |-> "f"]

MCIdentity == [kind |-> "identity"]
MCKill     == [kind |-> "kill"]
MCGenY     == [kind |-> "generate", fact |-> "y"]

MCEntryChoices == {<<"f", "fe", "fx">>}
MCCallChoices == {<<"mc", "main", "f", "mr">>, <<"fc", "f", "f", "fx">>}
MCEdgeChoices ==
    { <<"mc", "mr", <<>>, MCIdentity>>, <<"mc", "mr", <<>>, MCKill>>,
      <<"mr", "mc", <<>>, MCIdentity>>,
      <<"fe", "fc", <<MCSiteMain>>, MCGenY>>,
      <<"fe", "fc", <<MCSiteMain, MCSiteRec>>, MCIdentity>>,
      <<"fe", "fc", <<MCSiteRec, MCSiteRec>>, MCIdentity>> }
MCSeedChoices == {<<"mc", <<>>, "x">>, <<"fe", <<MCSiteMain>>, "zero">>}

(* Bound: clients stop seeding while the worklist holds two keys, so that   *)
(* re-seeding a known fact cannot lengthen it without end.                  *)
MCNext ==
    \/ SetUp
    \/ Len(worklist) < 2 /\ \E p \in SeedChoices : SetSeedFact(p)
    \/ Solve
    \/ SolveStep

MCSpec == Init /\ [][MCNext]_vars /\ WF_vars(SolveStep)

(* A smaller program for the return edges: no recursion. *)
MCReturnEdges ==
    { <<"mc", "mr", <<>>, MCKill>>, <<"fe", "fx", <<MCSiteMain>>, MCIdentity>> }
MCReturnCalls == {<<"mc", "main", "f", "mr">>}
MCReturnSeeds == {<<"mc", <<>>, "x">>}
=============================================================================
