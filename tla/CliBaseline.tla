---------------------------- MODULE CliBaseline ----------------------------
(***************************************************************************)
(* guardmarly/cli.py: --baseline FILE and --baseline-update, over the runs *)
(* of the command in a tree whose findings come, go and move.              *)
(*                                                                         *)
(* A path is the sequence of its components.  The command is started in    *)
(* Cwd on one directory, given absolute or relative; that directory is the *)
(* workspace root paths are reduced to.  An issue is what a rule finds; a  *)
(* finding is an issue with the place it is found at.                      *)
(***************************************************************************)
EXTENDS Naturals, Sequences, FiniteSets

CONSTANTS
    Issues,
    Rule,      \* the rule that finds an issue
    Class,     \* its CWE and title, which several rules may share
    Unnamed,   \* rules whose findings have no rule_id
    Files,     \* absolute paths of files
    Lines,
    Args,      \* the directories the command is given: [abs, dir]
    Cwd,
    Refresh    \* --baseline-update is also used on a baseline that exists

(* f lies below the directory d. *)
Under(d, f) == Len(d) < Len(f) /\ \A i \in 1..Len(d) : f[i] = d[i]
Below(d, f) == SubSeq(f, Len(d) + 1, Len(f))

ASSUME BaselineAssumption ==
    /\ Cwd \in Seq(STRING)
    /\ Files \subseteq Seq(STRING)
    /\ Args \subseteq [abs : BOOLEAN, dir : Seq(STRING)]
    /\ \A a \in Args : ~a.abs => \A f \in Files : Under(a.dir, f) => Under(Cwd, f)
    /\ Refresh \in BOOLEAN

VARIABLES
    found,      \* the issues in the tree
    place,      \* where each is
    exists,     \* there is a baseline file
    entries,    \* the findings it lists, none if it cannot be read
    reported,   \* the findings the last run reported
    hidden,     \* those it did not
    accepted    \* history: the findings a run that wrote the baseline saw

vars == <<found, place, exists, entries, reported, hidden, accepted>>

Place == [file : Files, line : Lines]
Finding == [issue : Issues, at : Place]
Path == [abs : BOOLEAN, parts : Seq(STRING)]
Entry == [issue : Issues, path : Path, line : Lines]

Init ==
    /\ found \in SUBSET Issues
    /\ place \in [Issues -> Place]
    /\ exists = FALSE
    /\ entries = {}
    /\ reported = {} /\ hidden = {}
    /\ accepted = {}

-----------------------------------------------------------------------------
(* The path of a result: _collect_files expands the directory as given. *)
Spelled(arg, f) ==
    IF arg.abs THEN [abs |-> TRUE, parts |-> f]
    ELSE [abs |-> FALSE, parts |-> Below(Cwd, f)]

(* Mutant: only the name of the file counts. *)
TokenOfName(path, root) == [abs |-> FALSE, parts |-> <<path.parts[Len(path.parts)]>>]

(* _baseline_path_token: a relative path is anchored to the root, so it is *)
(* its own path relative to the root.                                      *)
Token(path, root) ==
    IF path.abs /\ Under(root, path.parts)
    THEN [abs |-> FALSE, parts |-> Below(root, path.parts)]
    ELSE path

(* _finding_fingerprints, and the same of an entry in _load_baseline. *)
Fingerprints(issue, token, line) ==
    {<<"legacy", Class[Rule[issue]], token, line>>}
      \cup {<<"rule", r, token, line>> : r \in {Rule[issue]} \ Unnamed}

Scanned(arg) ==
    {[issue |-> i, at |-> place[i]] : i \in {j \in found : Under(arg.dir, place[j].file)}}

(* _load_baseline, with the root of this run. *)
Loaded(arg) ==
    UNION {Fingerprints(e.issue, Token(e.path, arg.dir), e.line) : e \in entries}

(* _apply_baseline *)
Matched(arg, f) ==
    Fingerprints(f.issue, Token(Spelled(arg, f.at.file), arg.dir), f.at.line)
      \cap Loaded(arg) # {}

New(arg) == {f \in Scanned(arg) : ~Matched(arg, f)}

(* format_json *)
AsEntry(arg, f) ==
    [issue |-> f.issue, path |-> Spelled(arg, f.at.file), line |-> f.at.line]

Report(arg) ==
    /\ reported' = New(arg)
    /\ hidden' = Scanned(arg) \ New(arg)

(* --baseline FILE: without the file the run ends with exit code 2. *)
Scan(arg) ==
    /\ exists
    /\ Report(arg)
    /\ UNCHANGED <<found, place, exists, entries, accepted>>

(* Mutant: what is written is what the run before reported. *)
UpdateLate(arg) ==
    /\ Refresh \/ ~exists
    /\ Report(arg)
    /\ exists' = TRUE
    /\ entries' = {AsEntry(arg, f) : f \in reported}
    /\ accepted' = accepted \cup Scanned(arg)
    /\ UNCHANGED <<found, place>>

(* --baseline FILE --baseline-update: _pre_baseline is a copy of the list  *)
(* of results, not of the results; _apply_baseline filters these in place, *)
(* so what is written is what is reported.                                 *)
Update(arg) ==
    /\ Refresh \/ ~exists
    /\ Report(arg)
    /\ exists' = TRUE
    /\ entries' = {AsEntry(arg, f) : f \in New(arg)}
    /\ accepted' = accepted \cup Scanned(arg)
    /\ UNCHANGED <<found, place>>

(* The process dies after write_text has truncated the file. *)
UpdateCut(arg) ==
    /\ Refresh \/ ~exists
    /\ exists' = TRUE
    /\ entries' = {}
    /\ UNCHANGED <<found, place, reported, hidden, accepted>>

(* The code changes: an issue comes or goes, or the place of one changes. *)
Appear(i) ==
    /\ i \notin found
    /\ found' = found \cup {i}
    /\ \E p \in Place : place' = [place EXCEPT ![i] = p]
    /\ UNCHANGED <<exists, entries, reported, hidden, accepted>>

Fix(i) ==
    /\ i \in found
    /\ found' = found \ {i}
    /\ UNCHANGED <<place, exists, entries, reported, hidden, accepted>>

Move(i) ==
    /\ i \in found
    /\ \E p \in Place : place' = [place EXCEPT ![i] = p]
    /\ UNCHANGED <<found, exists, entries, reported, hidden, accepted>>

Next ==
    \/ \E arg \in Args : Scan(arg) \/ Update(arg) \/ UpdateCut(arg)
    \/ \E i \in Issues : Appear(i) \/ Fix(i) \/ Move(i)

Spec == Init /\ [][Next]_vars

-----------------------------------------------------------------------------
(* Every list of findings is one. *)
TypeOK ==
    /\ found \subseteq Issues
    /\ place \in [Issues -> Place]
    /\ exists \in BOOLEAN
    /\ entries \subseteq Entry
    /\ reported \subseteq Finding /\ hidden \subseteq Finding
    /\ accepted \subseteq Finding

(* Two findings no fingerprint tells apart: of one rule, or of one class,  *)
(* in one line.                                                            *)
Alike(f, g) ==
    /\ f.at = g.at
    /\ Class[Rule[f.issue]] = Class[Rule[g.issue]]
         \/ Rule[f.issue] = Rule[g.issue]

(* Only what a run with --baseline-update has seen is ever left out of a   *)
(* report: "Only new findings not in the baseline are reported" never      *)
(* swallows a new one.                                                     *)
NewIsReported == \A f \in hidden : \E g \in accepted : Alike(f, g)

(* A finding that was in the code when the baseline was written, and is    *)
(* where it was, is not reported by a later scan.                          *)
AcceptedStayQuiet ==
    [][\A arg \in Args : Scan(arg) => reported' \cap accepted = {}]_vars
=============================================================================
