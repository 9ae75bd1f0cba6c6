---------------------------- MODULE MCGuardedFix ----------------------------
(* An application with routes, a library file, and a test. *)
EXTENDS GuardedFix, TLC

MCFiles == {"app", "lib", "test"}
MCCode == {"plain", "query", "muted", "shell", "pair", "bound", "broken", "page", "debug"}
MCCweOf == "SQL" :> "CWE-89" @@ "CMD" :> "CWE-78" @@ "HASH" :> "CWE-327" @@ "TMP" :> "CWE-377"
           @@ "XSS" :> "CWE-79" @@ "DEBUG" :> "CWE-489"
MCRules == DOMAIN MCCweOf

Issue(r, s, c, k, t, f) ==
    [rule |-> r, sev |-> s, conf |-> c, kind |-> k, trace |-> t, fix |-> f]
Sql == Issue("SQL", 1, 60, "taint", "inner", TRUE)
Cmd == Issue("CMD", 0, 97, "pattern", "none", TRUE)
MCIssues == "plain" :> {} @@ "broken" :> {} @@ "query" :> {Sql} @@ "muted" :> {Sql}
    @@ "shell" :> {[Cmd EXCEPT !.conf = 70]}
    @@ "pair" :> {Cmd, Issue("HASH", 1, 80, "ast", "none", FALSE)}
    @@ "bound" :> {Issue("TMP", 2, 80, "ast", "none", TRUE)}
    @@ "page" :> {Issue("XSS", 1, 60, "taint", "auth", FALSE)}
    @@ "debug" :> {Issue("DEBUG", 1, 95, "ast", "inner", FALSE)}
MCIgnore == [c \in MCCode |-> IF c = "muted" THEN {"SQL"} ELSE {}]
MCVouch == [c \in MCCode |-> IF c = "bound" THEN {"CWE-89"} ELSE {}]
MCRewrite ==
    "SQL" :> ("query" :> "plain" @@ "muted" :> "plain")
    @@ "CMD" :> ("shell" :> "plain" @@ "pair" :> "broken")
    @@ "TMP" :> ("bound" :> "plain")
MCContext == [f \in MCFiles |-> IF f = "test" THEN {"test"} ELSE {}]
MCOverride == "CWE-327" :> 0
MCAccepted == {<<"lib", "SQL", 1>>}
MCOptions == [triage : BOOLEAN, cluster : BOOLEAN, strict : {FALSE}, all : {FALSE},
              here : BOOLEAN]
             \cup {[triage |-> TRUE, cluster |-> TRUE, strict |-> TRUE, all |-> TRUE, here |-> TRUE]}
MCTrees == {[f \in MCFiles |-> CASE f = "app" -> <<a, b>> [] f = "lib" -> <<c>> [] OTHER -> <<d>>] :
            a \in MCCode, b \in MCCode, c \in {"query", "bound", "page", "pair"}, d \in {"query", "shell"}}
MCServed == {{}, {"lib"}}
MCElsewhere == [f \in MCFiles |-> IF f = "app" THEN "lib" ELSE "none"]
MCEnv == [f \in MCFiles |-> IF f = "lib" THEN "SERVER" ELSE "UNKNOWN"]
===============================================================================
