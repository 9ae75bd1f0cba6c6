--------------------------- MODULE ReportPipeline ---------------------------
(***************************************************************************)
(* From the analysers' findings to the report: the stages of _main_impl     *)
(* (cli.py) after the scan, in their order.  config.py, suppressions.py,    *)
(* engine/confidence.py, engine/triage.py and engine/entry_points.py hold   *)
(* what the stages do.                                                     *)
(*                                                                         *)
(* A text is a sequence of line contents.  What the analysers find in a    *)
(* content, which comment it carries and which findings around it triage   *)
(* takes it to make safe are constants.  A severity is its sort_key, 0 for *)
(* critical; a confidence is in percent.                                   *)
(***************************************************************************)
EXTENDS Integers, Sequences

CONSTANTS
    Files, Code, Rules,
    CweOf,          \* the CWE of a rule
    Issues,         \* what is found in a line, by content
    Broken,         \* contents with which a file cannot be parsed
    Quiet,          \* files whose analyser says nothing of a syntax error (Python)
    CrossFile,      \* rules that need the summaries of other files
    Ignore,         \* the tokens of a line's "guardmarly: ignore", "*" for all
    Vouch,          \* CWEs whose triage handler takes this content for safe
    Comments,       \* contents that are only a comment
    Context,        \* what ContextAnalyzer makes of a file's path
    Routed,         \* files that define routes,
    AuthRouted,     \* and those with a guard on one of them
    IdorProven,     \* files check_idor finds vulnerable
    Disabled,       \* disable_rules: rules and CWEs
    Override,       \* rule_overrides: a severity for some rules
    Learned,        \* rules enabled in suppression_candidates.json
    Accepted,       \* the baseline: <<file, rule, line>>
    MinConfidence,
    Options,        \* the command lines considered; here: given in the workspace root
    Trees,          \* the texts of the files at the start
    ServedSets      \* the files the incremental cache may serve

Contexts == {"test", "mock", "generated", "framework", "library", "benchmark"}
Cwes == {CweOf[r] : r \in Rules}
Severities == 0..4
(* "ast" stands for the structural kinds of confidence.py, "pattern" for the
   heuristic ones, "taint" for those in neither list. *)
Kinds == {"ast", "taint", "pattern", "incident-cluster"}
Traces == {"none", "inner", "route", "auth"}
IssueType == [rule : Rules, sev : Severities, conf : 0..100,
              kind : Kinds, trace : Traces, fix : BOOLEAN]
Finding == [line : Nat \ {0}, rule : Rules, sev : Severities, conf : 0..100,
            kind : Kinds, trace : Traces, fix : BOOLEAN]

ASSUME PipelineAssumption ==
    /\ Issues \in [Code -> SUBSET IssueType]
    /\ Broken \subseteq Code /\ Comments \subseteq Code /\ Quiet \subseteq Files
    /\ Ignore \in [Code -> SUBSET (Rules \cup Cwes \cup {"*"})]
    /\ Vouch \in [Code -> SUBSET Cwes]
    /\ Context \in [Files -> SUBSET Contexts]
    /\ Routed \subseteq Files /\ AuthRouted \subseteq Routed
    /\ Override \in [DOMAIN Override -> Severities]
    /\ Accepted \subseteq Files \X Rules \X (Nat \ {0})
    /\ MinConfidence \in 0..100
    /\ Options \subseteq [triage : BOOLEAN, cluster : BOOLEAN, strict : BOOLEAN, all : BOOLEAN,
                       here : BOOLEAN]
    /\ Trees \subseteq [Files -> Seq(Code)]
    /\ ServedSets \subseteq SUBSET Files

VARIABLES stage, text, served, opts, results
pipelineVars == <<stage, text, served, opts, results>>

-------------------------------------------------------------------------------
(* Classes of CWEs, as the source lists them. *)
TestNoise == {"CWE-918", "CWE-1188", "CWE-352", "CWE-209", "CWE-1004", "CWE-307", "CWE-614",
    "CWE-693", "CWE-113", "CWE-400", "CWE-1321", "CWE-601", "CWE-613", "CWE-328", "CWE-1336",
    "CWE-22", "CWE-78", "CWE-862", "CWE-117", "CWE-116", "CWE-98", "CWE-617", "CWE-1333",
    "CWE-330", "CWE-798"}
QualityAlwaysLow == {"CWE-617", "CWE-470", "CWE-200", "CWE-532", "CWE-1120", "CWE-116",
    "CWE-252", "CWE-98", "CWE-1333"}
InjectionOrAuth == {"CWE-89", "CWE-78", "CWE-79", "CWE-94", "CWE-95", "CWE-22", "CWE-918",
    "CWE-601", "CWE-502", "CWE-117", "CWE-113", "CWE-352", "CWE-434", "CWE-862", "CWE-639",
    "CWE-285", "CWE-1188"}
Quality == {"CWE-617", "CWE-1120", "CWE-117"}
LibraryPurpose == {"CWE-502", "CWE-918", "CWE-611", "CWE-79", "CWE-89", "CWE-1188", "CWE-330",
    "CWE-116", "CWE-1333", "CWE-94", "CWE-643", "CWE-78", "CWE-798", "CWE-295"}
HeuristicKinds == {"pattern"}
StructuralKinds == {"ast"}

Larger(a, b) == IF a < b THEN b ELSE a
Smaller(a, b) == IF a < b THEN a ELSE b
Cwe(x) == CweOf[x.rule]
Severe(x) == x.sev <= 1
In(f, contexts) == Context[f] \cap contexts # {}

-------------------------------------------------------------------------------
(* The analyser of one file; with the graph of all files, or an empty one. *)
Unparsable(t) == \E l \in DOMAIN t : t[l] \in Broken
Analyse(t, whole) ==
    IF Unparsable(t) THEN {}
    ELSE UNION {{[line |-> l, rule |-> i.rule, sev |-> i.sev, conf |-> i.conf, kind |-> i.kind,
                  trace |-> i.trace, fix |-> i.fix] :
                 i \in {j \in Issues[t[l]] : whole \/ j.rule \notin CrossFile}} : l \in DOMAIN t}

(* A finding read back from the cache: the other fields have their defaults. *)
Rehydrated(x) == [x EXCEPT !.conf = 100, !.kind = "pattern", !.trace = "none", !.fix = FALSE]

(* apply_config_to_results *)
Off(x) == x.rule \in Disabled \/ Cwe(x) \in Disabled
Overridden(x) ==
    IF x.rule \in DOMAIN Override THEN [x EXCEPT !.sev = Override[x.rule]]
    ELSE IF Cwe(x) \in DOMAIN Override THEN [x EXCEPT !.sev = Override[Cwe(x)]]
    ELSE x
Configured(R) == [f \in DOMAIN R |-> {Overridden(x) : x \in {y \in R[f] : ~Off(y)}}]

(* apply_inline_suppressions: a comment on the line or the one above. *)
Suppressed(x, t) ==
    \E l \in {x.line, x.line - 1} \cap DOMAIN t : Ignore[t[l]] \cap {"*", x.rule, Cwe(x)} # {}
Unsuppressed(R, T) == [f \in DOMAIN R |-> {x \in R[f] : ~Suppressed(x, T[f])}]

(* Test, mock, generated and framework files: noise is dropped, the rest doubted. *)
Doubted(x) == [x EXCEPT !.conf = Larger(0, @ - 35)]
ContextTriaged(R) ==
    [f \in DOMAIN R |->
        IF In(f, {"test", "mock", "generated", "framework"})
        THEN {Doubted(x) : x \in {y \in R[f] : Cwe(y) \notin TestNoise}}
        ELSE R[f]]

(* Mutant: a taint analysis that is not of the structural kinds is no evidence. *)
DemotedToTraceless(x) ==
    IF ~Severe(x) THEN "none"
    ELSE IF Cwe(x) \in QualityAlwaysLow THEN "low"
    ELSE IF Cwe(x) = "CWE-798" \/ x.conf >= 90 \/ Cwe(x) \notin InjectionOrAuth THEN "none"
    ELSE IF x.kind \in StructuralKinds THEN "none"
    ELSE "medium"
(* _should_demote *)
DemotedTo(x) ==
    IF ~Severe(x) THEN "none"
    ELSE IF Cwe(x) \in QualityAlwaysLow THEN "low"
    ELSE IF Cwe(x) = "CWE-798" \/ x.conf >= 90 \/ Cwe(x) \notin InjectionOrAuth THEN "none"
    ELSE IF x.kind \in StructuralKinds THEN "none"
    ELSE IF x.trace = "none" \/ x.kind \in HeuristicKinds THEN "medium"
    ELSE "none"
Demoted(x) ==
    CASE DemotedTo(x) = "low" -> [x EXCEPT !.sev = 3, !.conf = 20]
      [] DemotedTo(x) = "medium" -> [x EXCEPT !.sev = 2, !.conf = 35]
      [] OTHER -> x
TaintDemoted(R) == [f \in DOMAIN R |-> {Demoted(x) : x \in R[f]}]

(* Spec-augmented IDOR validation. *)
IdorValidated(R) ==
    [f \in DOMAIN R |->
        {IF f \in IdorProven /\ Cwe(x) = "CWE-639" THEN [x EXCEPT !.conf = Smaller(100, @ + 10)]
         ELSE x : x \in R[f]}]

(* Mutant: the floor applies to every severity. *)
ConfidentAll(R, all) == [f \in DOMAIN R |-> {x \in R[f] : all \/ x.conf >= MinConfidence}]
Confident(R, all) ==
    [f \in DOMAIN R |-> {x \in R[f] : all \/ x.conf >= MinConfidence \/ Severe(x)}]

(* The second downgrade of tests, which spares benchmarks and structural findings. *)
Structural(x) == x.trace # "none" /\ x.kind \notin HeuristicKinds
TestDowngraded(R) ==
    [f \in DOMAIN R |->
        IF In(f, {"test", "mock"}) /\ ~In(f, {"benchmark"})
        THEN {IF Structural(x) THEN x ELSE [x EXCEPT !.conf = Smaller(@, 35)] : x \in R[f]}
        ELSE R[f]]

(* --strict *)
StrictlyKept(x, f, t) ==
    /\ ~In(f, {"framework"})
    /\ ~(In(f, {"library"}) /\ Cwe(x) \in LibraryPurpose)
    /\ Cwe(x) \notin Quality
    /\ In(f, {"test", "mock", "generated"}) => Cwe(x) = "CWE-798"
    /\ ~(x.line \in DOMAIN t /\ t[x.line] \in Comments)
    /\ Severe(x)
Strict(R, T) == [f \in DOMAIN R |-> {x \in R[f] : StrictlyKept(x, f, T[f])}]

(* _apply_baseline; CliBaseline has the fingerprints in detail. *)
Fingerprint(f, x) == <<f, x.rule, x.line>>
Unaccepted(R) == [f \in DOMAIN R |-> {x \in R[f] : Fingerprint(f, x) \notin Accepted}]

(* The triage handlers look at the five lines to either side. *)
TakenForSafe(x, t) ==
    \E l \in (x.line - 4)..(x.line + 5) : l \in DOMAIN t /\ Cwe(x) \in Vouch[t[l]]
(* run_triage: a learned rule, or AlgorithmicTriageEngine.verify, rejects a finding. *)
Rejected(x, f, t) ==
    \/ x.rule \in Learned
    \/ In(f, {"test", "mock"})
    \/ Cwe(x) \in Quality
    \/ TakenForSafe(x, t)
(* code_map: only files that were scanned are read for it. *)
CodeMap(T, skipped) == [f \in DOMAIN T |-> IF f \in skipped THEN <<>> ELSE T[f]]
Triaged(R, T) ==
    [f \in DOMAIN R |-> {[x EXCEPT !.conf = 95] : x \in {y \in R[f] : ~Rejected(y, f, T[f])}}]

(* apply_entry_point_triage: the catalog of routes, then what it lowers. *)
RouteTraces == {"route", "auth"}
HasRoute(f, R, skipped) ==
    f \in Routed \ skipped \/ \E x \in R[f] : x.trace \in RouteTraces
AuthContext(x, f, skipped) == x.trace = "auth" \/ f \in AuthRouted \ skipped
Exposure(x, f, R, skipped) ==
    IF x.conf < 30 THEN x
    ELSE IF ~HasRoute(f, R, skipped) THEN [x EXCEPT !.conf = Larger(10, @ \div 2)]
    ELSE IF AuthContext(x, f, skipped) /\ x.sev <= 2
         THEN [x EXCEPT !.sev = @ + 1, !.conf = Larger(40, (@ * 3) \div 4)]
    ELSE x
EntryPointTriaged(R, skipped) ==
    IF \A f \in DOMAIN R : ~HasRoute(f, R, skipped) THEN R
    ELSE [f \in DOMAIN R |-> {Exposure(x, f, R, skipped) : x \in R[f]}]

(* cluster_findings: one representative of all findings of a line. *)
Representative(g) ==
    CHOOSE x \in g : \A y \in g : x.sev < y.sev \/ (x.sev = y.sev /\ x.conf >= y.conf)
Merged(g) ==
    IF \A x, y \in g : x = y THEN Representative(g)
    ELSE [Representative(g) EXCEPT !.conf = Smaller(100, @ + 5), !.kind = "incident-cluster"]
Clustered(R) ==
    [f \in DOMAIN R |-> {Merged({y \in R[f] : y.line = x.line}) : x \in R[f]}]

(* _should_fail with the default --fail-on high *)
ShouldFail(R) == \E f \in DOMAIN R : \E x \in R[f] : Severe(x)

-------------------------------------------------------------------------------
Init ==
    /\ stage = "scan"
    /\ text \in Trees
    /\ served \in ServedSets
    /\ opts \in Options
    /\ results = [f \in Files |-> {}]

Pass(from, to, R) ==
    /\ stage = from
    /\ stage' = to
    /\ results' = R
    /\ UNCHANGED <<text, served, opts>>

Found(T, S) ==
    [f \in Files |-> IF f \in S THEN {Rehydrated(x) : x \in Analyse(T[f], TRUE)}
                     ELSE Analyse(T[f], TRUE)]
Scan == Pass("scan", "config", Found(text, served))
ApplyConfig == Pass("config", "inline", Configured(results))
ApplyInlineSuppressions == Pass("inline", "context", Unsuppressed(results, text))
TriageContext == Pass("context", "demote", ContextTriaged(results))
ApplyTaintAwareDemotion == Pass("demote", "idor", TaintDemoted(results))
ValidateIdor == Pass("idor", "confidence", IdorValidated(results))
FilterConfidence == Pass("confidence", "tests", Confident(results, opts.all))
DowngradeTests == Pass("tests", "strict", TestDowngraded(results))
ApplyStrict ==
    Pass("strict", "baseline", IF opts.strict THEN Strict(results, text) ELSE results)
ApplyBaseline == Pass("baseline", "triage", Unaccepted(results))
RunTriage ==
    Pass("triage", "entry", IF opts.triage THEN Triaged(results, CodeMap(text, served)) ELSE results)
ApplyEntryPointTriage ==
    Pass("entry", "cluster", IF opts.triage THEN EntryPointTriaged(results, served) ELSE results)
ClusterResults == Pass("cluster", "reported", IF opts.cluster THEN Clustered(results) ELSE results)

PipelineStep ==
    \/ Scan \/ ApplyConfig \/ ApplyInlineSuppressions \/ TriageContext
    \/ ApplyTaintAwareDemotion \/ ValidateIdor \/ FilterConfidence \/ DowngradeTests
    \/ ApplyStrict \/ ApplyBaseline \/ RunTriage \/ ApplyEntryPointTriage \/ ClusterResults

(* The same stages as one function: the report of texts T of which S are served. *)
Reported(T, S, o) ==
    LET kept == Confident(IdorValidated(TaintDemoted(ContextTriaged(
                    Unsuppressed(Configured(Found(T, S)), T)))), o.all)
        strict == IF o.strict THEN Strict(TestDowngraded(kept), T) ELSE TestDowngraded(kept)
        new == Unaccepted(strict)
        triaged == IF o.triage THEN EntryPointTriaged(Triaged(new, CodeMap(T, S)), S) ELSE new
    IN  IF o.cluster THEN Clustered(triaged) ELSE triaged

(* A scan fails or passes the same whether its files were analysed or served from
   the cache as unchanged. *)
ServedAsScanned ==
    stage = "reported" => ShouldFail(results) = ShouldFail(Reported(text, {}, opts))
===============================================================================
