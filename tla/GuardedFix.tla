----------------------------- MODULE GuardedFix -----------------------------
(***************************************************************************)
(* guardmarly --guarded-fix: _guarded_auto_fix and its helpers (cli.py).    *)
(* After the report is made, fixes are written into the files, the scanned  *)
(* files are analysed again, and the files are put back if anything new     *)
(* appears.  Writes can fail and somebody can edit the files meanwhile.    *)
(***************************************************************************)
EXTENDS ReportPipeline, FiniteSets

CONSTANTS
    Rewrite,     \* by rule: the contents that hold its BEFORE, each to its AFTER
    Env,         \* what classify_file makes of a file
    Elsewhere,   \* the file that has, from the workspace root, the path a file has
                 \* from the working directory when the two differ; none has most
    Pasted,      \* contents others may put into a line meanwhile
    MaxEdits     \* bound on how often they do

ASSUME FixAssumption ==
    /\ \A r \in DOMAIN Rewrite : r \in Rules /\ Rewrite[r] \in [DOMAIN Rewrite[r] -> Code]
    /\ \A r \in DOMAIN Rewrite : DOMAIN Rewrite[r] \subseteq Code
    /\ Env \in [Files -> {"SERVER", "CLIENT", "UNKNOWN"}]
    /\ Elsewhere \in [Files -> Files \cup {"none"}]
    /\ Pasted \subseteq Code /\ MaxEdits \in Nat

VARIABLES
    start,      \* the texts when the fixes began
    report,     \* results then: what before_snapshot is taken of
    left,       \* files that the loop of this stage has yet to visit
    open,       \* the file being rewritten, or none
    content,    \* its content as read
    lines,      \* its lines, rewritten so far
    todo,       \* its findings not yet looked at
    backups,    \* backups: the content of the files rewritten
    applied,    \* the fixes applied, as <<file, line, rule>>
    rescanned,  \* rescanned_results
    status,     \* the summary's status
    edited,     \* files somebody else edited after the start
    edits       \* how many edits there were

fixVars == <<start, report, left, open, content, lines, todo, backups, applied, rescanned, status,
             edited, edits>>
vars == <<pipelineVars, fixVars>>

None == "none"
Stages == {"scan", "config", "inline", "context", "demote", "idor", "confidence", "tests", "strict",
    "baseline", "triage", "entry", "cluster", "reported", "fix", "rescan", "restore", "exit",
    "raised"}
Nowhere == [f \in {} |-> <<>>]
With(fn, f, v) == [g \in DOMAIN fn \cup {f} |-> IF g = f THEN v ELSE fn[g]]
(* Mutant: every fix replaces the backup by the lines as they are by then. *)
WithLast(fn, f, v) == With(fn, f, lines)
WithNew(fn, f, v) == IF f \in DOMAIN fn THEN fn ELSE With(fn, f, v)

FixInit ==
    /\ Init
    /\ start = text /\ report = results
    /\ left = {} /\ open = None /\ content = <<>> /\ lines = <<>> /\ todo = {}
    /\ backups = Nowhere /\ applied = {} /\ rescanned = Nowhere
    /\ status = None /\ edited = {} /\ edits = 0

ReportStep == PipelineStep /\ UNCHANGED fixVars

(* before_snapshot, and the loop over the results that have findings. *)
BeginFix ==
    /\ stage = "reported"
    /\ stage' = "fix"
    /\ start' = text
    /\ report' = results
    /\ left' = {f \in Files : results[f] # {}}
    /\ UNCHANGED <<text, served, opts, results, open, content, lines, todo, backups, applied, rescanned,
                   status, edited, edits>>

-------------------------------------------------------------------------------
(* _apply_auto_fixes_with_backups *)
OpenFile(f) ==
    /\ stage = "fix" /\ open = None /\ f \in left
    /\ left' = left \ {f}
    /\ open' = f
    /\ content' = text[f]
    /\ lines' = text[f]
    /\ todo' = {x \in results[f] : x.fix}
    /\ UNCHANGED <<stage, text, served, opts, results, start, report, backups, applied,
                   rescanned, status, edited, edits>>

InjectionFix == {"CWE-89", "CWE-78", "CWE-79", "CWE-94", "CWE-95", "CWE-22", "CWE-918",
    "CWE-502", "CWE-601"}
(* The autofix safety gate. *)
SafeToRewrite(x) ==
    x.kind \in HeuristicKinds => Cwe(x) \notin InjectionFix /\ x.conf >= 80

(* BEFORE is replaced where it is still found in the line. *)
Rewritten(x) ==
    IF x.rule \in DOMAIN Rewrite /\ SafeToRewrite(x) /\ x.line \in DOMAIN lines
       /\ lines[x.line] \in DOMAIN Rewrite[x.rule]
    THEN [lines EXCEPT ![x.line] = Rewrite[x.rule][@]]
    ELSE lines

(* The findings of a file, from its last line up. *)
FixFinding(x) ==
    /\ stage = "fix" /\ open # None
    /\ x \in todo /\ \A y \in todo : y.line <= x.line
    /\ todo' = todo \ {x}
    /\ lines' = Rewritten(x)
    /\ \/ /\ lines' # lines
          /\ applied' = applied \cup {<<open, x.line, x.rule>>}
          /\ backups' = WithNew(backups, open, content)
       \/ lines' = lines /\ UNCHANGED <<applied, backups>>
    /\ UNCHANGED <<stage, text, served, opts, results, start, report, left, open, content, rescanned,
                   status, edited, edits>>

Close == open' = None /\ content' = <<>> /\ lines' = <<>>

(* Written as a whole if anything was modified. *)
WriteFile ==
    /\ stage = "fix" /\ open # None /\ todo = {}
    /\ text' = IF open \in DOMAIN backups THEN [text EXCEPT ![open] = lines] ELSE text
    /\ Close
    /\ UNCHANGED <<stage, served, opts, results, start, report, left, todo, backups, applied,
                   rescanned, status, edited, edits>>

(* The file cannot be opened, or is emptied and then not written: the OSError is
   swallowed, and the fixes stay counted. *)
WriteFails ==
    /\ stage = "fix" /\ open # None /\ todo = {} /\ open \in DOMAIN backups
    /\ text' \in {text, [text EXCEPT ![open] = <<>>]}
    /\ Close
    /\ UNCHANGED <<stage, served, opts, results, start, report, left, todo, backups, applied,
                   rescanned, status, edited, edits>>

Scope == IF Files \ served = {} THEN Files ELSE Files \ served

FixesDone ==
    /\ stage = "fix" /\ open = None /\ left = {}
    /\ IF applied = {} THEN stage' = "exit" /\ status' = "no-fixes-applied" /\ left' = {}
       ELSE stage' = "rescan" /\ left' = Scope /\ UNCHANGED status
    /\ UNCHANGED <<text, served, opts, results, start, report, open, content, lines, todo, backups,
                   applied, rescanned, edited, edits>>

-------------------------------------------------------------------------------
ServerOnly == {"CWE-22", "CWE-78", "CWE-89", "CWE-90", "CWE-918", "CWE-639", "CWE-862",
    "CWE-863", "CWE-285", "CWE-306", "CWE-307", "CWE-798", "CWE-502", "CWE-611", "CWE-776",
    "CWE-94", "CWE-77", "CWE-434", "CWE-352", "CWE-377", "CWE-379", "CWE-749"}
ClientOnly == {"CWE-79", "CWE-1021", "CWE-359", "CWE-525", "CWE-200", "CWE-1321", "CWE-915"}
(* should_suppress_for_context *)
OutOfContext(x, f) ==
    \/ Env[f] = "CLIENT" /\ Cwe(x) \in ServerOnly
    \/ Env[f] = "SERVER" /\ Cwe(x) \in ClientOnly
InContext(R) == [f \in DOMAIN R |-> {x \in R[f] : ~OutOfContext(x, f)}]

TestDrop == {"CWE-22", "CWE-78", "CWE-918", "CWE-117", "CWE-116", "CWE-98", "CWE-862",
    "CWE-352", "CWE-330", "CWE-1333", "CWE-617"}
TestDropped(R) ==
    [f \in DOMAIN R |->
        IF In(f, {"test", "mock", "generated"})
        THEN {Doubted(x) : x \in {y \in R[f] : Cwe(y) \notin TestDrop}}
        ELSE R[f]]

(* _apply_baseline as the rescan calls it: the baseline's paths were made relative to
   the workspace root, the findings' are to the working directory. *)
AcceptedAgain(f, x) == Fingerprint(IF opts.here THEN f ELSE Elsewhere[f], x) \in Accepted
UnacceptedAgain(R) == [f \in DOMAIN R |-> {x \in R[f] : ~AcceptedAgain(f, x)}]

(* Mutant: the rescan drops what has less than the confidence asked for. *)
PostprocessedConfident(R) ==
    LET kept == UnacceptedAgain(ConfidentAll(TestDropped(Configured(R)), opts.all))
    IN  InContext(EntryPointTriaged(IF opts.triage THEN Triaged(kept, text) ELSE kept, {}))
(* _postprocess_guarded_rescan_results, of one file's results. *)
Postprocessed(R) ==
    LET kept == UnacceptedAgain(Confident(TestDropped(Configured(R)), opts.all))
    IN  InContext(EntryPointTriaged(IF opts.triage THEN Triaged(kept, text) ELSE kept, {}))

(* parse_error, which not every analyser sets. *)
ParseError(f, t) == Unparsable(t) /\ f \notin Quiet

Rescan(f) ==
    /\ stage = "rescan" /\ f \in left
    /\ left' = left \ {f}
    /\ rescanned' = With(rescanned, f,
           [findings |-> Postprocessed([g \in {f} |-> Analyse(text[f], FALSE)])[f],
            error |-> ParseError(f, text[f])])
    /\ UNCHANGED <<stage, text, served, opts, results, start, report, open, content, lines, todo, backups,
                   applied, status, edited, edits>>

Fingerprints(f, S) == {Fingerprint(f, x) : x \in S}
(* Mutant: a file regresses when it has more findings than before. *)
RegressesByCount(f) ==
    \/ Cardinality(Fingerprints(f, rescanned[f].findings)) > Cardinality(Fingerprints(f, report[f]))
    \/ rescanned[f].error /\ ~(f \notin served /\ ParseError(f, start[f]))
Regresses(f) ==
    \/ ~(Fingerprints(f, rescanned[f].findings) \subseteq Fingerprints(f, report[f]))
    \/ rescanned[f].error /\ ~(f \notin served /\ ParseError(f, start[f]))

(* The verdict, and which results go on to the output and the exit code. *)
Decide ==
    /\ stage = "rescan" /\ left = {}
    /\ IF \E f \in Scope : Regresses(f)
       THEN /\ status' = "reverted" /\ stage' = "restore" /\ left' = DOMAIN backups
            /\ UNCHANGED results
       ELSE /\ status' = "verified" /\ stage' = "exit" /\ left' = {}
            /\ results' = [f \in Files |-> IF f \in Scope THEN rescanned[f].findings ELSE {}]
    /\ UNCHANGED <<text, served, opts, start, report, open, content, lines, todo, backups, applied,
                   rescanned, edited, edits>>

(* _restore_file_backups *)
Restore(f) ==
    /\ stage = "restore" /\ f \in left
    /\ left' = left \ {f}
    /\ text' = [text EXCEPT ![f] = backups[f]]
    /\ stage' = IF left = {f} THEN "exit" ELSE stage
    /\ UNCHANGED <<served, opts, results, start, report, open, content, lines, todo, backups, applied,
                   rescanned, status, edited, edits>>

(* The file is emptied, the write raises, and nothing catches it. *)
RestoreFails(f) ==
    /\ stage = "restore" /\ f \in left
    /\ text' = [text EXCEPT ![f] = <<>>]
    /\ stage' = "raised"
    /\ UNCHANGED <<served, opts, results, start, report, left, open, content, lines, todo, backups,
                   applied, rescanned, status, edited, edits>>

(* Somebody else saves a file while the fixes are applied and checked. *)
Edit(f, l, c) ==
    /\ stage \in {"fix", "rescan", "restore"} /\ edits < MaxEdits
    /\ l \in DOMAIN text[f] /\ text[f][l] # c
    /\ text' = [text EXCEPT ![f][l] = c]
    /\ edited' = edited \cup {f}
    /\ edits' = edits + 1
    /\ UNCHANGED <<stage, served, opts, results, start, report, left, open, content, lines, todo, backups,
                   applied, rescanned, status>>

FixStep ==
    \/ BeginFix
    \/ \E f \in Files : OpenFile(f)
    \/ \E x \in todo : FixFinding(x)
    \/ WriteFile \/ WriteFails \/ FixesDone
    \/ \E f \in Files : Rescan(f)
    \/ Decide
    \/ \E f \in Files : Restore(f)
    \/ \E f \in Files : RestoreFails(f)

Next ==
    \/ ReportStep
    \/ FixStep
    \/ \E f \in Files : \E l \in DOMAIN text[f] : \E c \in Pasted : Edit(f, l, c)

Spec == FixInit /\ [][Next]_vars

-------------------------------------------------------------------------------
(* What has evidence, and what speaks against reporting it. *)
Evident(x) == Severe(x) /\ Structural(x)
Silenced(x, f, t) ==
    \/ Off(x) \/ {x.rule, Cwe(x)} \cap DOMAIN Override # {}
    \/ Suppressed(x, t) \/ Fingerprint(f, x) \in Accepted
Discounted(x, f, t) ==
    \/ Cwe(x) \in QualityAlwaysLow \/ Rejected(x, f, t)
    \/ x.line \in DOMAIN t /\ t[x.line] \in Comments

(* Type correctness of the report, the texts and the state of the fix. *)
TypeOK ==
    /\ stage \in Stages
    /\ text \in [Files -> Seq(Code)] /\ start \in [Files -> Seq(Code)]
    /\ served \subseteq Files /\ opts \in Options
    /\ results \in [Files -> SUBSET Finding] /\ report \in [Files -> SUBSET Finding]
    /\ left \subseteq Files /\ open \in Files \cup {None}
    /\ content \in Seq(Code) /\ lines \in Seq(Code) /\ todo \subseteq Finding
    /\ DOMAIN backups \subseteq Files /\ \A f \in DOMAIN backups : backups[f] \in Seq(Code)
    /\ applied \subseteq Files \X (Nat \ {0}) \X Rules
    /\ DOMAIN rescanned \subseteq Files
    /\ \A f \in DOMAIN rescanned : rescanned[f] \in [findings : SUBSET Finding, error : BOOLEAN]
    /\ status \in {None, "no-fixes-applied", "verified", "reverted"}
    /\ edited \subseteq Files /\ edits \in Nat

(* No stage loses what the default report promises to keep: a severe finding with
   a trace, in production code, that nobody silenced and triage does not take for
   safe, has one at least as severe on its line (one degree less behind a login),
   whether its file was scanned or served from the cache. *)
SevereIsReported ==
    stage = "reported" =>
        \A f \in Files : Context[f] = {} =>
            \A x \in Analyse(text[f], TRUE) :
                Evident(x) /\ ~Silenced(x, f, text[f]) /\ ~Discounted(x, f, text[f]) =>
                    \E y \in results[f] :
                        /\ y.line = x.line
                        /\ y.sev <= x.sev + (IF AuthContext(x, f, {}) THEN 1 ELSE 0)

(* What was disabled, accepted or ignored by a comment is not in the report at the
   end, although the rescan reads no comments and may know accepted findings by
   other paths: there they count as new and the fixes are undone. *)
SilencedStaysOut ==
    stage = "exit" =>
        \A f \in Files : \A x \in results[f] :
            ~Off(x) /\ Fingerprint(f, x) \notin Accepted /\ ~Suppressed(x, start[f])

(* When fixes are reverted the files are as before, those included whose rewriting
   failed half way; but for files that somebody else edited. *)
RevertRestores ==
    stage = "exit" /\ status = "reverted" => \A f \in Files \ edited : text[f] = start[f]

(* When fixes are verified, the rewritten files hold nothing severe and evident that
   was not in the report already, or has the path and line of an accepted finding. *)
VerifiedTextIsKnown ==
    stage = "exit" /\ status = "verified" =>
        \A f \in Scope \ edited : Context[f] = {} /\ Env[f] = "UNKNOWN" =>
            \A x \in Analyse(text[f], FALSE) :
                Evident(x) /\ ~Silenced(x, f, text[f]) /\ ~Discounted(x, f, text[f])
                    /\ ~AcceptedAgain(f, x) =>
                        Fingerprint(f, x) \in Fingerprints(f, report[f])

(* The safety gate: nothing is rewritten on the word of a heuristic about an
   injection. *)
HeuristicNotRewritten ==
    \A a \in applied : \E x \in Analyse(start[a[1]], TRUE) :
        x.line = a[2] /\ x.rule = a[3] /\ (x.kind \in HeuristicKinds => Cwe(x) \notin InjectionFix)

(* What the help of --guarded-fix says: fixes that make a file unreadable to the
   analysers are reverted. *)
ParseRegressionReverted ==
    stage = "exit" /\ status = "verified" =>
        \A f \in Scope \ edited : Unparsable(text[f]) => Unparsable(start[f])

(* After verified fixes, what was reported of a file nobody touched still is. *)
UnfixedStaysReported ==
    stage = "exit" /\ status = "verified" =>
        \A f \in Files : text[f] = start[f] =>
            {x \in report[f] : Severe(x)} = {} \/ Fingerprints(f, results[f]) # {}
===============================================================================
