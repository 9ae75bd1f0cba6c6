--------------------------- MODULE MCCliBaseline ---------------------------
(* Two rules of one class, the second without a rule_id, a rule of its own *)
(* class, and files of the same name in /w and in /w/src.                  *)
EXTENDS CliBaseline

MCRule == [i \in Issues |-> IF i = "eval" THEN "PY-EVAL" ELSE IF i = "exec" THEN "" ELSE "PY-SQL"]
MCClass == [r \in {"PY-EVAL", "", "PY-SQL"} |-> IF r = "PY-SQL" THEN "CWE-89" ELSE "CWE-95"]
MCUnnamed == {""}
MCFiles == {<<"w", "a.py">>, <<"w", "src", "a.py">>}
MCCwd == <<"w">>

RelativeRoot == {[abs |-> FALSE, dir |-> <<"w">>]}
============================================================================
