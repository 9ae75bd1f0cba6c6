# Guardmarly in TLA+

TLA+ models of the stateful core of Guardmarly, the TLC configurations that
check them on small instances, and proofs of their main properties for every
value of the parameters. Paths below are relative to the package
`src/src/guardmarly/` unless they begin with `docs/`.

    tlc -workers 2 -config MCLspServer.cfg MCLspServer     # one run
    tlapm SessionProofs.tla                                # one module of proofs

`PROJECT.json` lists components, runs, mutants, the source lines of each
definition, findings, hazards and theorems.

- [The system](#the-system)
- [Modules](#modules)
- [What the runs check](#what-the-runs-check)
- [What is proved](#what-is-proved)
- [Where code and text disagree](#where-code-and-text-disagree)
- [What is not modelled](#what-is-not-modelled)
- [Plan](#plan)

## The system

Guardmarly finds insecure code. Most of its 79 000 lines are rules: functions
from a text to findings, without memory. What is hard lies around them, where
findings and summaries outlive the call that computed them, pass through many
hands before they are reported, or decide about files that are rewritten. That
is what these modules are about.

| Component | State it keeps | Operations | What is hard | What makes it correct |
|---|---|---|---|---|
| IFDS solver, `v2/ifds.py` | edges, call sites, facts per (node, context), FIFO worklist | registration, `set_seed_fact`, `solve`, `query` | recursion, context cutting, a key re-queued while it is worked on | answers are the least fixed point; `solve` ends |
| Language server, `lsp_server.py` | documents, findings cache, one debouncer, timer threads | didOpen/didChange, didSave, shutdown, exit, timer fires, publish | timer threads race the message loop and saves; a cancel that comes too late; analyses that raise | every edit is answered, nothing old is analysed later, nothing after shutdown |
| Incremental scan, `cache/incremental.py`, `cache/sqlite_store.py`, `cli.py` | hash, imports, findings per file in SQLite | change detection, closure over imports, serving, scanning, updating, commit | edits between scans, partial scans, failed analyses, crashes, import cycles, a graph that knows the changed files only | what is served rests on the present texts, nothing unchanged is analysed |
| Threaded scan, `engine/async_scanner.py`, `cli.py` | a coroutine, a pool thread and a daemon thread per file, results, chunks | start, timeout, chunked fallback, report, hand-over to the cache | abandoned analyses that end late or never, partial results, chunk boundaries | no result lost, swapped or stored incomplete; something can always go on |
| Report pipeline, `cli.py`, `config.py`, `suppressions.py`, `engine/confidence.py`, `triage.py`, `entry_points.py` | the findings of each file, rescored on the way | thirteen filters and rescorings, the exit code | each lowers what a later one drops; cached findings have lost fields | what has evidence is reported, what was silenced stays out |
| Guarded autofix, `cli.py --guarded-fix` | backups, rewritten files, a second scan's findings | rewrite, scan again, compare, put back | failed writes, edits meanwhile, a comparison between differently filtered findings | reverted is as before, verified is not worse |
| Accepted findings, `cli.py --baseline` | a JSON file written by one run and read by later ones | scan, create, refresh, a write cut short | the tree changes between runs; two fingerprints of unequal precision; aliased results | accepted findings stay quiet, new ones are never hidden |
| Watch mode, `cli.py --watch` | modification times, a list of changed files | poll, analyse, print | files written while an older text of them is analysed | what is written last is reported |
| Function summaries of the project, `ir/global_graph.py` | summaries, caller index, memo of missing keys, two SQLite buckets | record, call, load, save, bridge, invalidate | incremental index maintenance, one key under several spellings, processes that know only a part | invalidation reaches every caller; the memo hides nothing |
| Function summaries of a file, `python_analyzer.py` | what each function returns, revised in place | at most four rounds over the functions | bounded rounds, order of the file, values overwritten | no flow invented; none missed that four rounds can reach |
| Code property graph, `cpg/` | a graph, a worklist, visited states | build, search | joins of nested statements, edges that are missing, a search that stops at sinks | values that get to a sink through variables are reported |
| Analyzers, rules, JavaScript engine, Java bridge, call graphs | none over a call but summaries and graphs | `analyze_*` | breadth, not time | corpus tests of the repository |
| v2 engine, interprocedural taint, IR fixpoint | worklists within one call | run rules, iterate | bounded iteration | planned |
| Reporters, SARIF, scores, SBOM, remediation texts | none | format | layout | outside |
| CI and v2 baselines, licensing counters | JSON files, counters with a checksum | load, compare, migrate; increment | read-modify-write, two files changed in turn | planned |

How they interact:

- A scan of the command line collects files, asks the incremental cache which
  of them to serve, indexes the Python files (pass 1, summaries into
  `GlobalGraph`), analyses the rest (pass 2, serial or threaded, each file
  under `_analyze_file_with_timeout`), hands results without a `parse_error` to
  the incremental cache, and sends scanned and served findings through the
  report pipeline, one stage of which is the baseline. `--guarded-fix` takes
  the report, rewrites files, analyses them again and may put them back.
- The Python analyser builds its functions' summaries before its rules run; one
  of the rules (`PY-037`) is the search of the code property graph.
- `GlobalGraph` is shared by all analyses of a process, abandoned ones
  included, and its cache by all processes. Watch mode keeps one for its life.
- The language server calls the analysers on its own threads; it has neither
  the incremental cache nor a baseline.
- `v2_java_bridge.py` is the client of the IFDS solver.

## Modules

One module per component. `MC…` modules hold instances, `…Proofs` modules hold
theorems. Definitions marked "Mutant" are plausible mistakes in the definition
that follows them; each property of a run is known to fail for one of them.

### Supergraph, ReachingFacts, IFDSSolver

`Supergraph` is the problem: what clients register (`SetEntryExitNodes`,
`SetCallSite`, `AddEdgeFlow`), the flow functions (`Apply`), contexts (`Push`
keeps the newest `MaxDepth` sites, `Pop`), and the points a point leads to
(`Succ`, the three branches of `_propagate_fact`). `ReturnSucc` keeps the
membership test of the code, which compares a function id with pairs.
`ReachingFacts` is the abstract specification: points are seeded or derived
along one edge, in any order. `IFDSSolver` adds the worklist: `PopKey` takes a
key and the facts known there, `PropagateFact` computes the successors of one,
`AddFactAtNode` stores each and queues its key if it is new. It extends
`ReachingFacts` for the graph and the flow functions, and names an instance of
it, `Abstract`, whose specification it implements with the same `result`.
Registration after a `solve()` is outside the protocol modelled.

### LspServer

The main thread reads one message at a time (`Reading`: it is not inside an
analysis of its own). A text is the number of the edit that brought it. `DidChange` is
`_handle_did_open` and `_handle_did_change`; `Schedule` is `_Debouncer.schedule`,
which calls the function itself when the delay is zero (`immediate`). A timer
fires into a run of two steps, `StoreFindings` and `Publish`, between which
other threads come; a save stores its text in `docs` and runs the same on the main
thread. Cancelling
reaches only a timer that still waits. `shown` is the client's screen,
`covered` the history of what was published. The client conforms to the
protocol: it saves the text it sent last, and sends only `exit` after `shutdown`.

### SourceTree, IncrementalScan

The analyser is outside: findings are represented by the texts they depend on
(`Findings`): the file's own, and of what it imports, directly or not, what the
analysis can see. That is the *view* of `SourceTree`. `IncrementalScan` has the
phases of a `--incremental-sha256` scan: `CheckFile` (file_changed),
`AddAffected` (the while loop of `affected_files`, over the recorded imports),
`Classify`, `BeginScan`/`SkipScan`, `IndexFile` (pass 1), `ScanFile` (pass 2),
`BeginUpdate`/`UpdateEntry`, `Close`. The graph of a scan is new and gets the
texts of the files that changed only, so a changed Python file is analysed
without the module values of its unchanged imports: `View` gives it `graph`,
while a JavaScript file reads what it imports from the tree. `db` is what the
connection sees, `disk` what is committed; `Crash` loses the difference.
`SkipScan` is the branch that scans nothing when no changed file has a language.
Function summaries, which the graph also holds and which outlive the scan, are
`SummaryGraph`'s.

### SummaryGraph

A summary is the set of labels it depends on. Labels keep the path as spelled,
keys have it normalised. `Record` is `record_function_summary`; `CallKnown`,
`CallUnknown` and `CallLoaded` are `propagate_call_facts` by what
`load_summary` does in it; `Save` writes both buckets, choosing which of two
entries with one key is written last; `Invalidate` is the work list of
`invalidate_changed_files`; `NewGraph` the start of another process. Initial
states, next-state relation and specification are `GraphInit`, `GraphNext` and
`GraphSpec`: `SummaryProofs` is about this module and `FunctionSummaries`.

### CliBaseline

A path is a sequence of components. `Token` is `_baseline_path_token`,
`Fingerprints` gives the legacy and the rule fingerprint, `Loaded` and `Matched`
are `_load_baseline` and `_apply_baseline`. `Update` writes what is left after
filtering: the copy made before shares its results with the filtered list.
`UpdateCut` is a process that dies after the file was truncated. `Appear`,
`Fix` and `Move` are the tree's.

### ParallelScan

A target goes from waiting through running, possibly the fallback, to returned
and done. Its analysis is another process (`AnalysisEnds`), not stopped by the
timeout (`TimeOut`), which may put its result into its holder at any time or
never. `EndsChunk` is `_split_text_chunks_with_offsets`; `ScanChunk` analyses a
chunk, with findings, without, or raising. `Finish` stores under the path, so a
path given twice keeps the last result. `BeginFails` is a thread that cannot be
started. `Report` assembles the report and gives results without a
`parse_error` to the incremental cache. Findings are left out: a result is its
file and the way it came about. `WorkLeft` is what a scan has still to do: stages
of targets, lines for their fallbacks, analyses, the report.

### ReportPipeline, GuardedFix

`ReportPipeline` is the part of `_main_impl` between the analyses and the exit
code. A text is a sequence of lines, a line's content a member of `Code`, and
`Issues` says what the analysers find in one; a finding has a line, rule,
severity, confidence, kind, trace and fix. Each stage is an operator on the
findings of all files (`Configured`, `Unsuppressed`, `ContextTriaged`,
`TaintDemoted`, `IdorValidated`, `Confident`, `TestDowngraded`, `Strict`,
`Unaccepted`, `Triaged`, `EntryPointTriaged`, `Clustered`) and a value of
`stage`. Findings of served files come through `Rehydrated`, which has the
fields the cache keeps. What a stage looks for in a text (safe patterns,
routes, proofs of IDOR, contexts of paths) are constants.

`GuardedFix` extends it by `--guarded-fix`: `OpenFile` and `FixFinding` rewrite
the lines of a file bottom up, `WriteFile` and `WriteFails` end it, `Rescan`
analyses and post-processes as `_postprocess_guarded_rescan_results` does,
`Decide` compares, `Restore` and `RestoreFails` put back, `Edit` is somebody
else saving a file. The rescan compares with the baseline without the workspace
root (`AcceptedAgain`): if the target is not the working directory (`here` is
false), a file has the path `Elsewhere` gives it, which may be another file's or
nobody's. Stage "raised" is an exception that leaves the program.

### FunctionSummaries

`_build_function_taint_summaries` of one file: `StartFunction`, one action per
kind of statement (`Assign`, `Augment`, `Return`) in the order of `ast.walk`
(`Before`: level by level), `EndFunction`, which replaces the summary in place,
and `EndRound`. A statement is its target, its depth and the names, calls and
source its expression has. The reference is stated over paths: statements that
hand a value on to a result without its being overwritten (`SourcePath`,
`ParamPath`), and for sources a rank, the number of calls of later functions.

### CpgBuilder, CpgTaint, PythonRun

`CpgBuilder` is `CPGBuilder` as a walk over the lines of a module. `builder` has
its attributes (nodes, edges, `_cfg_prev`, break lists, scopes), `line` is the
statement visited next, and `open` is the stack of the visitors that wait for a
block to end, with their local variables. A `Visit…` action is a visitor up to
its first block, or all of it if the statement has none; an `After…` action is
what the visitor does between one block and the next or after the last, as
`AfterThen` and `AfterIf` of `visit_If`. A statement is what the visitor reads of
it: kind, call, defined and used variables, and the last lines of its blocks
(`IsProgram` says how blocks lie in each other, as in any syntax tree). `CpgTaint`
is `find_taint_paths`: a worklist taken from its end, `StateKey` with node and
tags, `Propagates` along an edge. It knows nothing of the builder: a graph is what
`IsCpg` says, and `SearchSpec` a search of any. Its reference are the paths of the
graph (`IsTaintPath`, `Flows`). `PythonRun` joins the two (`StartSearch` hands the
graph over), and is the measure: it runs the same module by Python's rules (names,
jumps, exceptions, else and finally clauses, calls) after the search and follows
where values come from. What runs is outside the repository and marked external.
A value's origin is the node of a source and the set of its *detours*: "call", as
an argument or a result of a function of the module; "raise", as an exception that a
handler names; "sink", through the variable that a sink's statement assigns; "back",
read at or above its assignment, in a later round of a loop or in a function that
stands above it. `CallFunction` binds parameters to any of the variables in the
arguments, `Return` gives the caller's statement the result. Graphs (with lines and
the order of edges), paths and node taint of the model were compared with those of
the Python code for all 2520 programs of the run (6764 paths), and are the same.
The run does not follow: values in objects that several names share, default
arguments, calls of the module's functions in a test, a header or a return
statement (taken for a library's), and sources and sinks where the code itself
recognises none, as in annotated assignments.

### WatchMode

The loop of `_run_watch_mode`, file by file: `NoteAtStart` before it, then
`Collect`, `Stat` (the time is noted before the file is read), `Forget`, `Read`
and `Show`. `TimeOut` is the fallback, which reads the file again and analyses it in
chunks if it is Python or JavaScript (`Chunked`); of any other it reports the time-out
alone, which the loop prints as "No issues found" (`givenUp`). `Change` is everybody
else.

## What the runs check

| Run | Instance | Properties |
|---|---|---|
| `ifds_tabulation` | two functions, one recursive; every sub-set of six edges, two call sites; seeds before and between solves; contexts of two sites | `FixedPoint`, `Grounded`, `ContextsCut`, `ReachSpecHolds`, `SolveAdvances`, `SolveTerminates` |
| `lsp_server` | two documents, three edits, an empty text, a text the analyser raises on, debounced and immediate | `WaitingIsCurrent`, `ShutdownStopsTimers`, `LastEditAnalysed`, `ShownIsCurrent`, `EditsAreAnswered` |
| `scan_parts` | four files, two texts each, imports that change with the text and may form a cycle; one without a language, one whose analysis may fail; scans of the whole and of two parts; edits, crashes | `TypeOK`, `OwnTextCached`, `ResultsFresh`, `OnlyStaleScanned`, `ConsistentKept`, `ScanEnds` |
| `summary_graph` | three files, one spelled two ways, a label without a path, a bridge | `MissingIsMissing`, `InvalidationReachesCallers` |
| `baseline_created` | two files of one name, two lines, two issues of one class, one without a rule id | `NewIsReported`, `AcceptedStayQuiet` |
| `baseline_refreshed` | the same with one issue and `--baseline-update` of an existing file | `AcceptedStayQuiet` is violated |
| `parallel_scan` | three targets, one file twice and one without a fallback; two workers; chunks of three lines of seven | `OwnResults`, `NothingDropped`, `OnlyCompleteStored`, `WholeFileCovered`, `NeverStuck`, `WorkShrinks` |
| `chunk_hangs` | the same | `TimeoutIsHard` is violated |
| `report_guarded_fix` | a routed file of two lines, a library and a test of one, nine contents; served or scanned, with and without triage, clustering, `--strict`; targets in the working directory and outside; failing writes, one edit | `SevereIsReported`, `SilencedStaysOut`, `RevertRestores`, `VerifiedTextIsKnown` |
| `taint_rounds` | every chain of five functions, in either direction; pairs that call each other, arguments exchanged, with two statements that overwrite | `ParamsFound`, `NearSourcesFound`, `SourcesAreReal` |
| `cpg_taint` | 2520 programs (a loop with a test and an else, nested tests, a try in a loop with a handler that names the exception, functions with arguments and results called twice) over two variables | `ReportsExact`, `ValuesReachSinks`, `StepsAreEdges` |
| `watch_mode` | two files, one of them with a fallback, two texts, three changes | `NothingMissed`, `ChangesAreShown` |

What the harder properties say. `SevereIsReported`: a severe finding with a
trace, in production code, that nobody silenced and triage does not take for
safe, has one at least as severe on its line in the report (a degree less behind
a login), whatever thirteen stages did to it and whether its file was scanned or
served. `VerifiedTextIsKnown`: when fixes are kept, the new texts hold nothing
of that sort the report did not have, but for what the rescan takes for
accepted. `NearSourcesFound`: untrusted input comes to a summary through any
number of calls of earlier functions and three of later ones. `ReportsExact`: in
whatever order states are met, each sink is reported once for each kind of
source that reaches it. `ValuesReachSinks`: what a running program carries from
a source to a sink without a detour, that is through variables alone and each
read below its assignment, is reported, whatever control went through in
between. It is restricted for a reason: values with the detour "call", "sink" or
"back" alone do come to sinks in these programs without being reported.
`ResultsFresh`: from a cache in which no row rests on another text than the
stored one of some file, findings that rest on the scan's own files rest on
their present texts; that they are all a full scan would have is false
(`MCScanWhole`). `ConsistentKept`: scans of the whole tree without failures keep
the cache so, killed ones included. `StepsAreEdges`: an ordinary step of the
program is an edge of the graph, or edges over phi nodes. `LastEditAnalysed`:
when the server has come to rest, the document edited last has had its text
analysed; of other documents that is false (`MCLspTwoDocs`). `NothingMissed`: a
text that is not the one reported has a file that is to be analysed or a
modification time that is not the one noted. `NeverStuck` and `WorkShrinks` are
the two halves of an ending scan that need no fairness: in every state something
can be done without waiting for an analysis, and whatever is done is done once.
`SolveAdvances` and `ContextsCut` are the same for `solve`.

The type invariants of most modules are theorems rather than properties of a
run. That every module's graph is one, which the theorems about the search ask,
is a theorem too (`BuilderMakesGraphs`).

Bounds. Three kinds of bound are in the modules. `MaxEdits` ends a session of
the language server: each property concerns an edit and those that overtake it,
so three are enough for every order of two timers of one document or of two, a
save and a raising analysis. In `GuardedFix` it counts the edits by somebody else:
one is enough to be overwritten or kept; in `WatchMode` three are a write, one
while it is analysed, and one more. In `MCIFDSSolver` clients stop seeding while
the worklist holds two keys, as a known fact can be seeded without end.
Everything else is finite by the choice of constants: `scan_parts` has an
import chain of length three, needed for the transitive closure, and a cycle;
`parallel_scan` has a line run that ends in a blank line, one at the limit and
one at the end of the file; `MaxDepth` is two so that recursion cuts contexts;
five functions are one more than four rounds can follow against the order of a
file; the shapes of `cpg_taint` put every kind of exit into every kind of block
and define a variable on one side, on both and in neither branch.

Deadlock is checked where the system never stops (`ifds_tabulation`,
`summary_graph`, `baseline_*`, `watch_mode`); a server that has exited, a scan
nobody starts again, a finished threaded scan, a finished fix, the last round
over a file and a program that has run stop rightly.

Fairness. `LspServer`: each thread goes on, the one of a timer and the main one
(`WF(ThreadStep(id))` for every id), so that timers fire and analyses end;
nothing is assumed of the client. `IncrementalScan`: a running scan goes on
(`WF(ScanStep)`), nobody has to edit, start or crash. `IFDSSolver`: `solve` is a
loop (`WF(SolveStep)`). `WatchMode`: the loop goes on (`WF(Loop)`), files need not
change. `ParallelScan`: the event loop and pool threads run and a wait times out
(`WF(Scheduled)`), while neither an analysis nor that of a chunk need ever end.
That is why no property says that a scan ends: `TimeoutIsHard`, that a target whose
analysis was started is some time given a result, is the violation `chunk_hangs` shows.
`WatchMode` needs more: `WF(Loop)` includes that a fallback's chunks end.
A wait that times out needs the interpreter to switch threads: CPython's
`re` keeps the GIL while it matches, so an analysis stuck in one such match is
outside this assumption.

## What is proved

Every theorem is about the specification for all values of its constants. The
only assumptions are the named `ASSUME`s, which state the shapes of the
constants, and those named here.

- `IFDSSolverProofs`. The inductive invariant is `NoneLost`: a known point is
  queued, in hand, or has all its successors known or in hand. From it and an
  empty worklist follows `FixedPoint`. `Grounded` (every set that holds the seeds
  and is closed contains the answers) is preserved because a step adds only
  successors of known points; the two together say that `query` reads the least
  fixed point. `Refinement`: storing a successor is a `Derive`, all else stutters.
  `ContextsBounded` is preserved because only a call makes a context longer, and
  `Push` cuts it; `SolveGoesOn` is the measure of the loop: known points,
  worklist, facts in hand, in this order.
- `SessionProofs`, of the language server and of watch mode. `Debounced` joins
  what waits, what `_timer` refers to and the documents' texts: `OneTimer`,
  `NoStaleTimer` and `NothingAfterShutdown` are its parts, for any number of
  documents. `LastEditCovered` follows from `NoEditLost`: the text of the last
  edit is waiting, running or covered, which an edit of another document cannot
  undo, as it is then the last. `OneDocumentCovered` (`EveryTextAnalysed`, of a
  single document) is its corollary. `ImmediateIsCurrent` holds of any number of
  documents. `ChangesStayNoticed` assumes that no change leaves a modification
  time as it was. `TimesInv` says that times noted are times that were given,
  `RoundInv` that only what is to be analysed is read and nothing is left over
  between two rounds, `ReadInv` that the text under analysis is the file's unless
  its time is no longer the one noted: that the time is noted before the file is
  read is what makes this inductive.
- `IncrementalScanProofs`. Everything but the types assumes that no file changes
  during a scan, and allows partial scans, failures and crashes.
  `HashMatchesFindings` follows from `RowInv`: a row's findings are of the text of
  its hash. `NeverStale` is of any part of the tree: `FreshInv` says what each
  phase has established by then (`Lookup`, `Complete`, `Stored`). What a file's
  recorded imports reach without meeting a changed file has stored hashes that are
  the present texts, so what is served from a consistent cache is up to date as
  far as the scan's files go; and what is analysed is, because the graph holds
  present texts only, however few. The theorem says nothing of findings that an
  analysis with all imports in its graph would have in addition. `WholeScansKeep`
  (`ConsistentKept`) and `WholeScansNeverStale` (`AlwaysFresh`, where every scan
  is of the whole tree and none fails) follow from the same invariant.
  `NothingForNothing`: what is marked is stale (`StaleInv`).
- `SummaryProofs`, of the project's and of one file's function summaries. Of the
  project's: `IndexComplete` is inductive by itself, as rebuilding moves only one
  function. With it, `NoDependentSurvives`: what depends on a dropped summary is
  indexed under it and so in the closure. `MissingIsTrue` assumes that the cache
  can be read. Of a file's: `ClaimsAreReal` needs no restriction: a set of
  functions closed under "has a source or calls one of the set" contains what is
  claimed. `SourcesAreFound` and `ParamsAreFound` are of functions without
  branches (`Plain`: statements in the order they run, no method calls).
  `SourceInv` has two parts: after round r the sources of rank r - 1 are known
  (`KnownInv`), and in a round that changes nothing each rank settles the next
  (`SettledInv`), so that ending early is as good as four rounds; `SourceWalk`
  says of the walk what it has found of a path so far. `ParamInv` holds of any set
  of flows that is its own consequence (`Flowing`), a greatest fixed point, for
  which the order of rounds does not matter.
- `CliBaselineProofs`. Both theorems assume one directory. The invariant: every
  entry, reduced to its token, is the token of an accepted finding, and tokens of
  files below one root are equal only if the files are. `AcceptedNotReported`
  assumes also that the baseline is not refreshed.
- `ParallelScanProofs`. `Own` follows a result from the holder to the report.
  `Stages` says what each stage of a target implies about its holder, its chunks
  and its outcome, so that a complete outcome was held in time; `Sourced` and
  `Kept` tie the dictionary to targets that are done. `ChunksCover` extends tiles
  one at a time (`TilesExtended`) by the bounds of a chunk (`ChunkBounds`), for
  any text and any chunk size. `ScanGoesOn`: a target in the fallback finds an end
  for its next chunk (`ChunkEnds`, by the greatest of a bounded set, `Greatest`),
  and if no target is under way all slots are free. `WorkIsFinished`: with
  `Stages`, no step undoes a stage, a line or an analysis and each does one
  (`StepsProgress`). `StepsRunOut` adds that the work is a finite set, so that a
  number falls with every step.
- `PythonRunProofs`, of search, builder and run, in this order. The search is
  proved of `SearchSpec`, that is of any graph and not only of those the builder
  makes. `SearchIsExact` follows from `SearchInv`: what is on the worklist is a
  path from a source (`Walks`), every source is visited or on it (`Seeded`), the
  successors of what was visited are visited or on it and visited sinks are
  reported (`Followed`), each once and along a path that is there (`Reports`).
  `NoPathIsMissed` says the same of completeness without the reference function
  `ReachedFrom`: of any path of any length, by induction over its positions.
  `SearchRunsOut` is the measure: states not visited, then the worklist.
- `ValuesAreReported` (`ValuesReachSinks` of every module, however long and
  however its blocks are nested; of values without a detour) joins three
  invariants in `Inv`. The builder's, `BuildInv`: every line passed has its node,
  and a node that is no phi is that of its line (`NodesOK`); open statements lie
  in each other, and their first nodes before their blocks' (`OpenOK`); a function
  whose end is ahead is open (`FunctionsOpen`); the scopes on the stack hold all
  definitions above in the module and in the function, and a function's nothing of
  a name that is not its own (`ScopesOK`), which for phi nodes needs that
  `_cpg.defs` has nothing of such a name from its lines either (`DefsOK`); and a
  use is linked to every definition above it that it may mean (`MayMean`,
  `LinkedOK`): one in its own function or, if the name is not local there, in the
  module. `UsesAreLinked` states the last. The search's is `SearchInv`, on the
  graph the builder made. The run's, `RunInv`: what is on `todo` belongs to scopes
  that no variable holds, one for each position, that change at calls only
  (`StackOK`: blocks lie in the scope, `BlockOK`, and a call has saved local
  values of the scope it returns to); and each origin of a variable's value has
  come along a taint path (`Carried`) to a definition of the variable, in the
  scope and not a sink, no further down than the value says (`ValueOK`). A
  statement that reads it from above extends the path by the edge that `LinkedOK`
  promises, since data dependencies always propagate (`CarriedFurther`). So what
  hits a sink came along a path of the graph (`HitsOK`), whose end is visited
  (`PathIsVisited`) and hence reported. Control flow plays no part, which is why
  the missing edges of `continue` and of handlers do no harm to such values.
  Values with a detour are marked as such (`ViaIs`) and neither property nor
  theorem promises anything of them: that those with the detour "call" are
  reported too is what `CallsCarryValues` says, and false.
- `GuardedFixProofs`. `TypeInv` adds to the types where the loops are.
  `RevertRestored` follows from `Undoable`: a file nobody else edited is as before
  or has its backup. `SilenceHolds` follows from `Quieted`, that each stage keeps
  what the stages before it removed; it is about the report at exit, not about
  what the fixes are undone for, which a finding suppressed by a comment, or an
  accepted one seen under another path, may be; the lemmas `…Derives` say that no
  stage makes a finding on a line or of a rule that had none. `VerifiedKnown`
  follows from `Known`: every file of the second scan still holds what the first
  report would have to know, but for what the rescan takes for accepted.
  `SevereReported` follows from `Kept`, which says per stage what of a promised
  finding is left: itself with its evidence or, if it came from the cache, with
  full confidence (`Carried`, by `RehydratedCarried`, `DemotionSpares`,
  `IdorCarried`), then without regard to confidence (`Likeness`,
  `ExposureLowers`), then a finding of its line (`ClusteredKeeps`). No theorem
  depends on how many files, lines or findings there are.

Induction and recursive functions. The library's induction theorems cannot be
used here, as they take an operator. `PythonRunProofs` has its own for sets:
every set of numbers that is not empty has a smallest (`Smallest`, from the
well-foundedness of `<`), so a set with 0 that is closed under + 1 holds all
(`SetInduction`), and a recursion over a bounded interval has a function
(`Recursion`). With them `KeptIs` says what the recursive function in `Kept`
computes for any sequence, and `ReachedIsVisited` what `ReachedFrom` does.
`CpgBuilder` is a state machine, with the calls of the visitors on a stack, so
that its walk can be reasoned about step by step.

Model-checked only: liveness (`SolveTerminates`, `EditsAreAnswered`,
`ScanEnds`, `ChangesAreShown`), which the prover does not reach, and of which it
proves the measures above; `StepsAreEdges`, which asks for an invariant of where
each block is left to, through any nesting of loops and handlers, on both sides,
builder and run; and every violation.

## Where code and text disagree

Two are runs and have an entry under "findings". `baseline_refreshed`:
`--baseline-update` on an existing baseline drops what it had accepted.
`chunk_hangs`: `_analyze_file_with_timeout` calls its timeout hard (`cli.py:2212`),
but the chunk analyses of the fallback run in the thread that waits, without a limit
(`cli.py:2315`), so the function may never return and the scan never end. The
following have a configuration here that shows them (`tlc -config X.cfg M`
reports the property violated).

| Configuration, module | Property | What the code does |
|---|---|---|
| `MCIFDSReturns`, `MCIFDSSolver` | `ReturnsFlow` | `v2/ifds.py:296` never takes its return branch; the Java bridge registers edges from callees' exits itself |
| `MCLspTwoDocs`, `MCLspServer` | `EveryTextAnalysed` | one debounce timer serves all documents, an edit of one drops the pending analysis of another |
| `MCScanPartsStale`, `MCIncrementalScan` | `AlwaysFresh` | a dependency scanned on its own is afterwards "unchanged", and its importers are served old findings |
| `MCScanWhole`, `MCIncrementalScan` | `ReportsAsFullScan` | an incremental scan indexes only what changed into a new graph (`cli.py:3298`), so a changed file is analysed without the module values of its unchanged imports, and what is found that way is stored as complete |
| `MCSummaryDisk`, `MCSummaryGraph` | `ChangedFilesForgotten` | `invalidate_changed_files` seeds from memory, is called on a fresh graph and so never deletes a summary from the cache |
| `MCParseRegression`, `MCGuardedFix` | `ParseRegressionReverted` | the Python analyser says nothing of a file it cannot parse (`python_analyzer.py:7793`), so a fix that breaks one is verified; the help (`cli.py:1868-1869`) says it is reverted |
| `MCServedAsScanned`, `MCGuardedFix` | `ServedAsScanned` | findings from the cache have lost confidence, kind, trace and fix (`cli.py:3272`), and the exit code can differ from that of a full scan |
| `MCHeuristicNotRewritten`, `MCGuardedFix` | `HeuristicNotRewritten` | the gate looks at the kind and CWE of the merged finding of a cluster, so a heuristic's fix can pass |
| `MCUnfixedStaysReported`, `MCGuardedFix` | `UnfixedStaysReported` | after verified fixes only what was scanned again is output (`cli.py:1272`) |
| `MCNestedSources`, `MCFunctionSummaries` | `SourcesFound` | `ast.walk` goes level by level, so an assignment in a branch is seen after the return below it |
| `MCEverySourceNamed`, `MCPythonRun` | `EverySourceNamed` | one path per sink and kind of source; the docstring of `find_taint_paths` says all. Of `x = input(); y = input(); os.system(x)` it names the second |
| `MCPythonRun` with `CallsCarryValues` for its invariants, `MCPythonRun` | `CallsCarryValues` | the docstring of `cpg/taint_engine.py` (lines 31-32) has taint go along CALL edges, but no argument is linked to a parameter and no result to the call: of `def f(p): os.system(p)`, `x = input()`, `f(x)` nothing is reported |
| `MCExceptionsAreEdges`, `MCPythonRun` | `ExceptionsAreEdges` | `_try_body_nodes` only ever holds the try node; the comment (`cpg/builder.py:526`) says every node of the body |
| `MCWatchCoarse`, `WatchMode` | `ChangesAreShown` | a second write with the modification time of the first is not noticed |

Seen while modelling, without a configuration of their own.

- `IncrementalScan`: `EditsDuringScan = TRUE` breaks `OwnTextCached`
  (`update_hash` reads the file again); a changed file without a language is left
  out of the report if no source file changed (`cli.py:3380`).
- `CliBaseline`: `Args` with a directory both relative and absolute breaks
  `AcceptedStayQuiet`, several directories break `NewIsReported`, and a moved
  issue is new although `docs/configuration.md:99-100` says that moving a file
  does not resurrect suppressed findings.
- `WatchMode`: a file neither Python nor JavaScript whose analysis times out is
  printed as having no issues; the time-out is in a `parse_error` nobody prints.
- `LspServer`: a debounced analysis overtaken by a newer one may publish last.
- `GuardedFix`: harmless fixes are undone because the second scan is filtered
  differently from the first, so that suppressed, demoted or merged findings look
  new, and so do accepted ones if the target is not the working directory
  (`cli.py:1423`); a failed write leaves an empty file, which has no findings and
  is verified; an `OSError` while restoring is not caught, and the files after it
  stay rewritten; an edit by somebody else is overwritten by the restore.
- `FunctionSummaries`: in a chain of five functions against the order of the file
  the first misses the source of the last; arguments of a method call are bound
  from `self` on, so `obj.m(x)` counts for the wrong parameter.
- `CpgBuilder`, `CpgTaint`: `continue` has no successor; of several handlers only
  what leaves the last one goes on; an `isinstance` guard never removes taint, as
  a `CFG_NEXT` edge runs beside each `CFG_BRANCH_TRUE`; a sanitizer used as a test
  is bypassed by the data-dependency edges; annotated assignments and returned
  calls are never sinks.
- Beyond the models: `run_intraprocedural_dataflow` (`java_dataflow.py:161`)
  compares an empty set with an empty set and goes on before it ever applies the
  transfer function; licence counters are read, changed and written by any number
  of processes, and a process that dies between the counter and its checksum
  (`licensing.py:534`) leaves one that counts as zero.

## What is not modelled

- The rules and parsers of every language, the JavaScript engine, call-graph
  extraction: functions of their input. A TLA+ text of them would be a second
  implementation. They are nine tenths of the program's lines. Where their results
  outlive the call they enter the models as choices or constants.
- Reporters, SARIF, explanations, SBOM, configuration files, framework detection:
  formatting and lookups.
- In modelled components: the lattice of taint facts and the path search of
  `GlobalGraph` (what the graph of a scan knows of other files is modelled by
  their texts); what analyses write to the shared graph while others read it, and
  what the graph of watch mode remembers; `--workers` processes; deleted files in
  an incremental scan; baselines of several directories at once; progress
  callbacks; custom and learned rules in the report, `--fail-on` other than high,
  stdin and batch mode, a limited number of fixes; the SQLite cache of a file's
  summaries and functions that share a name; classes, functions in functions,
  lambdas, `global`, `yield`, `await` and `match` in the code property graph, its
  SSA versions, the patterns of names of sources and sinks, and the memory layout
  of the search, which is written but never changes an answer.
- CI and v2 baselines and licence counters: each a file read, changed and written,
  small beside the rest; the counters have the races named above.
- Optional native code, the editor extension, the web application, benchmarks and
  workflows.

## Plan

In this order; the first modules came first because findings that are silently
stale or dropped are what a user of the tool cannot notice.

| Step | Module | Abstract specification or reference | Theorems | State |
|---|---|---|---|---|
| 1 | `IFDSSolver` | `ReachingFacts` | fixed point, groundedness, refinement, bounded contexts, progress | done |
| 2 | `LspServer` | – | debouncer, last edit covered, immediate mode | done |
| 3 | `IncrementalScan` | – (equality with a full scan is false) | freshness, consistency kept, own text, nothing in vain | done |
| 4 | `SummaryGraph` | – | index, invalidation, memo | done |
| 5 | `CliBaseline` | – | no new finding hidden, accepted stay quiet | done |
| 6 | `ParallelScan` | – | own results, none dropped, complete cached, chunks cover, never stuck, work finite | done |
| 7 | `FunctionSummaries` | paths of values through statements and calls | real, sources found, parameters found | done |
| 8 | `ReportPipeline`, `GuardedFix` | – | severe reported, silence holds, reverts restore, verified is known | done |
| 9 | `CpgBuilder`, `CpgTaint` | `PythonRun`, paths of the graph | graphs are graphs, uses are linked, search exact, no path missed, values are reported | done |
| 10 | `WatchMode` | – | changes stay noticed | done |
| 11 | `TaintFacts`: the lattice and store of `global_graph.py:180-387` | join over all orders of arrival | join is associative, commutative, idempotent; order does not matter | open |
| 12 | `SharedFiles`: licence counters, CI baselines and the v2 migration | atomic update of one value | counts never decrease under one process | open |
| 13 | `SummaryScan`: `SummaryGraph`, `WatchMode`, `ParallelScan` and abandoned analyses on one graph | – | what holds of summaries whichever thread writes them | open |
