--------------------------- MODULE IncrementalScan ---------------------------
(***************************************************************************)
(* guardmarly --incremental-sha256: cache/incremental.py over              *)
(* cache/sqlite_store.py, and the part of cli.py that decides what to scan, *)
(* serves the rest from the cache and stores the results.                  *)
(*                                                                         *)
(* A hash is the text it is of.  The SQLite connection is written during   *)
(* the update loop and committed once, by close(): "db" is what the        *)
(* connection sees, "disk" what a later process would.  Timeouts and       *)
(* unreadable files are analyses that end in a parse_error.                *)
(*                                                                         *)
(* Pass 1 of a scan indexes the Python files to be scanned, and no others, *)
(* into a new GlobalGraph: the module values a Python file's analysis in   *)
(* pass 2 can follow are those of the files that changed.  The JavaScript  *)
(* engine reads what a file imports from disk.                             *)
(***************************************************************************)
EXTENDS SourceTree

CONSTANTS
    None,               \* no row in the database
    Failed,             \* a result with a parse_error
    Python,             \* files analysed with the GlobalGraph
    Targets,            \* the sets of files a scan may be asked for
    Entropy,            \* files without a language (_detect_language is None)
    MayFail,            \* files whose analysis may end in a parse_error
    EditsDuringScan     \* whether a text can change while a scan runs

ASSUME ScanAssumption ==
    /\ None \notin Versions \cup Views
    /\ Failed \notin Views
    /\ Targets \subseteq (SUBSET Files) \ {{}}
    /\ Python \subseteq Files /\ Entropy \subseteq Files \ Python /\ MayFail \subseteq Files
    /\ \A f \in Entropy : \A v \in Versions : ImportsOf[f][v] = {}
    /\ EditsDuringScan \in BOOLEAN

VARIABLES
    content,   \* the files' texts
    db,        \* cache_entries, as this process's connection sees them
    disk,      \* cache_entries, as committed
    phase,     \* where the scan is
    targets,   \* candidate_scan_files
    left,      \* what the loop of this phase has yet to visit
    affected,  \* direct_changed, then affected_paths
    changed,   \* changed_files
    graph,     \* the texts global_graph was built from
    results    \* results by file, which are then reported

vars == <<content, db, disk, phase, targets, left, affected, changed, graph, results>>

Phases == {"idle", "check", "affected", "classify", "index", "scan", "update"}

Nothing == [f \in {} |-> None]
Extend(fn, f, x) == [g \in DOMAIN fn \cup {f} |-> IF g = f THEN x ELSE fn[g]]
EmptyCache == [hash |-> [f \in Files |-> None],
               imports |-> [f \in Files |-> {}],
               findings |-> [f \in Files |-> None]]

Init ==
    /\ content \in Tree
    /\ db = EmptyCache
    /\ disk = EmptyCache
    /\ phase = "idle"
    /\ targets = {}
    /\ left = {}
    /\ affected = {}
    /\ changed = {}
    /\ graph = Nothing
    /\ results = Nothing

(* The locals of the scan go out of scope. *)
Forget ==
    /\ phase' = "idle"
    /\ targets' = {}
    /\ left' = {}
    /\ affected' = {}
    /\ changed' = {}
    /\ graph' = Nothing
    /\ results' = Nothing

-------------------------------------------------------------------------------
(* Somebody saves a file, an earlier text included. *)
Edit(f, v) ==
    /\ phase = "idle" \/ EditsDuringScan
    /\ content' = [content EXCEPT ![f] = v]
    /\ UNCHANGED <<db, disk, phase, targets, left, affected, changed, graph, results>>

Start(T) ==
    /\ phase = "idle"
    /\ phase' = "check"
    /\ targets' = T
    /\ left' = T
    /\ UNCHANGED <<content, db, disk, affected, changed, graph, results>>

(* IncrementalCache.file_changed *)
FileChanged(f) == db.hash[f] # content[f]

(* The loop that fills direct_changed. *)
CheckFile(f) ==
    /\ phase = "check" /\ f \in left
    /\ affected' = IF FileChanged(f) THEN affected \cup {f} ELSE affected
    /\ left' = left \ {f}
    /\ phase' = IF left = {f} THEN "affected" ELSE phase
    /\ UNCHANGED <<content, db, disk, targets, changed, graph, results>>

(* Mutant: a file is affected by what it imports, not by what that imports. *)
ImporterDirect(f) ==
    /\ f \in targets \ affected
    /\ \E g \in db.imports[f] \cap affected : FileChanged(g)

(* A candidate that imports what is affected (the frontier), as recorded. *)
Importer(f) ==
    /\ f \in targets \ affected
    /\ db.imports[f] \cap affected # {}

(* The while loop of affected_files; its candidates are a set. *)
AddAffected(f) ==
    /\ phase = "affected" /\ Importer(f)
    /\ affected' = affected \cup {f}
    /\ UNCHANGED <<content, db, disk, phase, targets, left, changed, graph, results>>

AffectedDone ==
    /\ phase = "affected"
    /\ \A f \in Files : ~Importer(f)
    /\ phase' = "classify"
    /\ left' = targets
    /\ UNCHANGED <<content, db, disk, targets, affected, changed, graph, results>>

(* Mutant: every file of the directory of a change is scanned again. *)
MustScanAll(f) ==
    affected # {} \/ FileChanged(f) \/ db.findings[f] = None

(* must_scan, or no longer unchanged, or without cached findings. *)
MustScan(f) ==
    f \in affected \/ FileChanged(f) \/ db.findings[f] = None

Classify(f) ==
    /\ phase = "classify" /\ f \in left
    /\ left' = left \ {f}
    /\ IF MustScan(f)
       THEN changed' = changed \cup {f} /\ UNCHANGED results
       ELSE results' = Extend(results, f, db.findings[f]) /\ UNCHANGED changed
    /\ UNCHANGED <<content, db, disk, phase, targets, affected, graph>>

(* The files and entropy_files that changed are scanned... *)
BeginScan ==
    /\ phase = "classify" /\ left = {}
    /\ changed \ Entropy # {}
    /\ phase' = "index"
    /\ left' = changed \cap Python
    /\ UNCHANGED <<content, db, disk, targets, affected, changed, graph, results>>

(* ...unless "if files:" finds no source file among them: then nothing is  *)
(* scanned or stored, and what the cache served is the report.             *)
SkipScan ==
    /\ phase = "classify" /\ left = {}
    /\ changed \ Entropy = {}
    /\ Forget
    /\ UNCHANGED <<content, db, disk>>

(* index_python_file, unless the text cannot be read or parsed. *)
IndexFile(f) ==
    /\ phase = "index" /\ f \in left
    /\ left' = left \ {f}
    /\ \/ graph' = Extend(graph, f, content[f])
       \/ f \in MayFail /\ UNCHANGED graph
    /\ UNCHANGED <<content, db, disk, phase, targets, affected, changed, results>>

BeginEvaluation ==
    /\ phase = "index" /\ left = {}
    /\ phase' = "scan"
    /\ left' = changed
    /\ UNCHANGED <<content, db, disk, targets, affected, changed, graph, results>>

(* What an analysis of f can see of other files. *)
View(f) == IF f \in Python THEN graph ELSE content

(* _analyze_file_with_timeout. *)
ScanFile(f) ==
    /\ phase = "scan" /\ f \in left
    /\ left' = left \ {f}
    /\ \/ results' = Extend(results, f, Findings(View(f), f, content[f]))
       \/ f \in MayFail /\ results' = Extend(results, f, Failed)
    /\ UNCHANGED <<content, db, disk, phase, targets, affected, changed, graph>>

(* Mutant: results with a parse_error are stored too. *)
StorableAll == DOMAIN results

(* "not r.parse_error" *)
Storable == {f \in DOMAIN results : results[f] # Failed}

BeginUpdate ==
    /\ phase = "scan" /\ left = {}
    /\ phase' = "update"
    /\ left' = Storable
    /\ UNCHANGED <<content, db, disk, targets, affected, changed, graph, results>>

(* Mutant: findings already cached are kept. *)
UpdateEntryKeepFindings(f) ==
    /\ phase = "update" /\ f \in left
    /\ db' = [hash |-> [db.hash EXCEPT ![f] = content[f]],
              imports |-> [db.imports EXCEPT ![f] = Imports(content, f)],
              findings |-> [db.findings EXCEPT ![f] = IF @ = None THEN results[f] ELSE @]]
    /\ left' = left \ {f}
    /\ UNCHANGED <<content, disk, phase, targets, affected, changed, graph, results>>

(* update_hash, which reads the file again, then store_findings: for every *)
(* result, those the cache served included.                                *)
UpdateEntry(f) ==
    /\ phase = "update" /\ f \in left
    /\ db' = [hash |-> [db.hash EXCEPT ![f] = content[f]],
              imports |-> [db.imports EXCEPT ![f] = Imports(content, f)],
              findings |-> [db.findings EXCEPT ![f] = results[f]]]
    /\ left' = left \ {f}
    /\ UNCHANGED <<content, disk, phase, targets, affected, changed, graph, results>>

Close ==
    /\ phase = "update" /\ left = {}
    /\ disk' = db
    /\ Forget
    /\ UNCHANGED <<content, db>>

(* Mutant: rows are committed as they are written. *)
CrashKeepsRows ==
    /\ phase # "idle"
    /\ disk' = db
    /\ Forget
    /\ UNCHANGED <<content, db>>

(* The process ends: the open transaction is lost. *)
Crash ==
    /\ phase # "idle"
    /\ db' = disk
    /\ Forget
    /\ UNCHANGED <<content, disk>>

(* Mutant: a scan that has served everything from the cache never ends. *)
ScanStepNoSkip ==
    \/ \E f \in Files : CheckFile(f) \/ AddAffected(f) \/ Classify(f)
    \/ AffectedDone \/ BeginScan
    \/ \E f \in Files : IndexFile(f) \/ ScanFile(f) \/ UpdateEntry(f)
    \/ BeginEvaluation \/ BeginUpdate \/ Close

ScanStep ==
    \/ \E f \in Files : CheckFile(f) \/ AddAffected(f) \/ Classify(f)
    \/ AffectedDone \/ BeginScan \/ SkipScan
    \/ \E f \in Files : IndexFile(f) \/ ScanFile(f) \/ UpdateEntry(f)
    \/ BeginEvaluation \/ BeginUpdate \/ Close

Next ==
    \/ \E f \in Files, v \in Versions : Edit(f, v)
    \/ \E T \in Targets : Start(T)
    \/ ScanStep
    \/ Crash

(* A scan that runs goes on; nobody has to start one, edit or crash. *)
Spec == Init /\ [][Next]_vars /\ WF_vars(ScanStep)

-------------------------------------------------------------------------------
Cached == Views \cup {None}
Cache == [hash : [Files -> Versions \cup {None}],
          imports : [Files -> SUBSET Files],
          findings : [Files -> Cached]]

TypeOK ==
    /\ content \in Tree
    /\ db \in Cache /\ disk \in Cache
    /\ phase \in Phases
    /\ targets \subseteq Files /\ left \subseteq targets
    /\ affected \subseteq targets /\ changed \subseteq targets
    /\ graph \in Views
    /\ DOMAIN results \subseteq targets
    /\ results \in [DOMAIN results -> Views \cup {Failed}]

(* "hashes every scanned file's content": a hash is stored with findings,  *)
(* and the findings are of the text that was hashed, through failed        *)
(* analyses, partial scans and crashes in the middle of the update.        *)
(* Holds while no file changes during the scan.                            *)
OwnTextCached ==
    \A f \in Files : disk.hash[f] # None =>
        /\ disk.findings[f] # None
        /\ f \in DOMAIN disk.findings[f]
        /\ disk.findings[f][f] = disk.hash[f]

(* No row rests on a text of another file that has a row of another text. *)
Consistent(cache) ==
    \A f \in Files : cache.findings[f] # None =>
        \A g \in DOMAIN cache.findings[f] : cache.findings[f][g] = cache.hash[g]

(* The findings f is about to be reported with rest on texts as they are.  *)
UpToDate(f) == \A g \in DOMAIN results[f] : results[f][g] = content[g]

(* Files that "import a changed file (transitively)" are not served stale: *)
(* from a consistent cache, whatever part of the tree is scanned, whatever *)
(* fails and wherever earlier scans were killed, findings reported of the  *)
(* present scan's files are of texts that still are the files' texts.      *)
ResultsFresh ==
    Consistent(disk) => \A f \in DOMAIN results :
        results[f] # Failed /\ DOMAIN results[f] \subseteq targets => UpToDate(f)

(* A scan of the whole tree in which no analysis fails leaves a consistent *)
(* cache consistent, and so does a scan that is killed.                    *)
ConsistentKept ==
    [][Consistent(disk) /\ targets = Files /\ (\A f \in DOMAIN results : results[f] # Failed)
         => Consistent(disk')]_vars

(* Nothing is analysed for nothing: a file is scanned only if its text, or *)
(* one it imports at any depth, is no longer the text of its stored hash.  *)
OnlyStaleScanned ==
    phase \in {"classify", "index", "scan"} =>
        \A f \in changed : \E g \in Reach(content, f) : disk.hash[g] # content[g]

(* A scan ends, unless its process does.                                   *)
ScanEnds == phase # "idle" ~> phase = "idle"

(* False: what is reported is up to date, with no condition on the cache.  *)
(* A scan of a part of the tree can leave a row of a file's new text below *)
(* an importer's row that rests on the old one (MCScanPartsStale.cfg).     *)
AlwaysFresh ==
    \A f \in DOMAIN results : results[f] # Failed => UpToDate(f)

(* False: what is reported is what a scan without a cache would report.    *)
(* The imports of a changed file are not in the graph unless they changed  *)
(* as well, so their values are missing from its findings                  *)
(* (MCScanWhole.cfg).                                                      *)
ReportsAsFullScan ==
    \A f \in DOMAIN results : results[f] \in {Failed, Findings(content, f, content[f])}
===============================================================================
