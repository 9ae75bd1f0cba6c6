---------------------------- MODULE ParallelScan ----------------------------
(***************************************************************************)
(* Pass 2 of a threaded scan: scan_files_parallel (engine/async_scanner.py) *)
(* runs _scan_one for every target in its thread pool, and that the        *)
(* analysis of one file in a daemon thread it waits for at most            *)
(* --timeout-per-file seconds (guardmarly/cli.py).  A thread that is late  *)
(* is abandoned, not stopped; the file is then analysed again in chunks.   *)
(*                                                                         *)
(* A result is the file it is of and how it came about: "complete", or one *)
(* of the three ways that leave a parse_error.  Findings are left out, and *)
(* so is what the analyses write to the shared GlobalGraph.                *)
(***************************************************************************)
EXTENDS Naturals, Sequences, FiniteSets

CONSTANTS
    Targets,    \* scan_targets, in which a file can come twice
    Blank,      \* for each file, which of its lines are blank
    Chunked,    \* files of the languages the fallback knows
    Workers,    \* max_workers
    MaxLines,   \* max_lines of a chunk
    Slack,      \* int(max_lines * 0.6)
    None        \* no result

Task == 1..Len(Targets)
Files == {Targets[i] : i \in Task}
Ways == {"complete", "error", "recovered", "timeout"}
Result == [of : Files, how : Ways]

ASSUME ScanAssumption ==
    /\ Targets \in Seq(STRING)
    /\ Blank \in [Files -> Seq(BOOLEAN)]
    /\ Chunked \subseteq Files
    /\ Workers \in Nat \ {0}
    /\ MaxLines \in Nat \ {0} /\ Slack \in 0..(MaxLines - 1)
    /\ None \notin Result

VARIABLES
    task,      \* the coroutine of a target and its pool thread
    analysis,  \* its daemon thread
    held,      \* its result_holder
    at,        \* the lines the fallback has gone through
    chunks,    \* the chunks it took: first and last line
    hit,       \* one of them had findings
    outcome,   \* what _scan_one returns
    results,   \* the dictionary of results
    errors,    \* targets whose _scan_one raised
    report,    \* the result of each target, None if it is left out
    stored,    \* files whose result goes to the incremental cache
    ended      \* the scan has returned

vars == <<task, analysis, held, at, chunks, hit, outcome, results, errors,
          report, stored, ended>>

Init ==
    /\ task = [i \in Task |-> "waiting"]
    /\ analysis = [i \in Task |-> "none"]
    /\ held = [i \in Task |-> None]
    /\ at = [i \in Task |-> 0]
    /\ chunks = [i \in Task |-> <<>>]
    /\ hit = [i \in Task |-> FALSE]
    /\ outcome = [i \in Task |-> None]
    /\ results = [f \in Files |-> None]
    /\ errors = {}
    /\ report = [i \in Task |-> None]
    /\ stored = {}
    /\ ended = FALSE

Made(i, how) == [of |-> Targets[i], how |-> how]

(* _scan_one returns. *)
Returns(i, result) ==
    /\ task' = [task EXCEPT ![i] = "returned"]
    /\ outcome' = [outcome EXCEPT ![i] = result]

-----------------------------------------------------------------------------
(* Mutant: a thread that is late keeps the slot of its target. *)
AdmittedNext(i) ==
    /\ task[i] = "waiting"
    /\ Cardinality({j \in Task : analysis[j] = "running"}) < Workers

(* The semaphore has a slot. *)
Admitted(i) ==
    /\ task[i] = "waiting"
    /\ Cardinality({j \in Task : task[j] \notin {"waiting", "done"}}) < Workers

Begin(i) ==
    /\ Admitted(i)
    /\ task' = [task EXCEPT ![i] = "running"]
    /\ analysis' = [analysis EXCEPT ![i] = "running"]
    /\ UNCHANGED <<held, at, chunks, hit, outcome, results, errors, report, stored, ended>>

(* t.start() raises when no thread is to be had: scan_one drops the file. *)
BeginFails(i) ==
    /\ Admitted(i)
    /\ task' = [task EXCEPT ![i] = "done"]
    /\ errors' = errors \cup {i}
    /\ UNCHANGED <<analysis, held, at, chunks, hit, outcome, results, report, stored, ended>>

(* Mutant: one result_holder for all files. *)
AnalysisEndsShared(i) ==
    /\ analysis[i] = "running"
    /\ analysis' = [analysis EXCEPT ![i] = "ended"]
    /\ \E how \in {"complete", "error"}, j \in {k \in Task : held[k] = None} :
          held' = [held EXCEPT ![j] = Made(i, how)]
    /\ UNCHANGED <<task, at, chunks, hit, outcome, results, errors, report, stored, ended>>

(* _worker: the analysis returns or raises, in time or after it has been   *)
(* given up.                                                               *)
AnalysisEnds(i) ==
    /\ analysis[i] = "running"
    /\ analysis' = [analysis EXCEPT ![i] = "ended"]
    /\ \E how \in {"complete", "error"} : held' = [held EXCEPT ![i] = Made(i, how)]
    /\ UNCHANGED <<task, at, chunks, hit, outcome, results, errors, report, stored, ended>>

Take(i) ==
    /\ task[i] = "running" /\ held[i] # None
    /\ Returns(i, held[i])
    /\ UNCHANGED <<analysis, held, at, chunks, hit, results, errors, report, stored, ended>>

(* The wait is over; the fallback reads the file, if it is still there. *)
TimeOut(i) ==
    /\ task[i] = "running" /\ held[i] = None
    /\ \/ Returns(i, Made(i, "error"))
       \/ /\ Targets[i] \notin Chunked
          /\ Returns(i, Made(i, "timeout"))
       \/ /\ Targets[i] \in Chunked
          /\ task' = [task EXCEPT ![i] = "fallback"] /\ UNCHANGED outcome
    /\ UNCHANGED <<analysis, held, at, chunks, hit, results, errors, report, stored, ended>>

-----------------------------------------------------------------------------
(* Where a chunk that starts after line s may end instead. *)
Breaks(lines, s) == {k \in (s + Slack + 1)..(s + MaxLines) : lines[k]}

(* Mutant: a chunk ends at a blank line, that before its first included. *)
EndsAtBlank(lines, s, e) ==
    IF s + MaxLines >= Len(lines) THEN e = Len(lines)
    ELSE e = CHOOSE k \in 1..(s + MaxLines) :
            k >= s /\ (lines[k] \/ k = s + MaxLines)

(* _split_text_chunks_with_offsets: e is the last line of the chunk that   *)
(* starts after line s, a blank one if there is one near the limit.        *)
EndsChunk(lines, s, e) ==
    IF s + MaxLines >= Len(lines) THEN e = Len(lines)
    ELSE \/ Breaks(lines, s) = {} /\ e = s + MaxLines
         \/ e \in Breaks(lines, s) /\ \A k \in Breaks(lines, s) : k <= e

(* Mutant: the blank line a chunk ends at belongs to none. *)
ScanChunkBefore(i) ==
    /\ task[i] = "fallback" /\ at[i] < Len(Blank[Targets[i]])
    /\ \E e \in 1..Len(Blank[Targets[i]]) :
          /\ EndsChunk(Blank[Targets[i]], at[i], e)
          /\ at' = [at EXCEPT ![i] = e]
          /\ chunks' = [chunks EXCEPT ![i] =
                Append(@, <<at[i] + 1, IF Blank[Targets[i]][e] THEN e - 1 ELSE e>>)]
    /\ \E found \in BOOLEAN : hit' = [hit EXCEPT ![i] = @ \/ found]
    /\ UNCHANGED <<task, analysis, held, outcome, results, errors, report, stored, ended>>

(* A chunk is analysed in the pool thread, and has findings, none, or      *)
(* raises; nothing limits its time.                                        *)
ScanChunk(i) ==
    /\ task[i] = "fallback" /\ at[i] < Len(Blank[Targets[i]])
    /\ \E e \in 1..Len(Blank[Targets[i]]) :
          /\ EndsChunk(Blank[Targets[i]], at[i], e)
          /\ at' = [at EXCEPT ![i] = e]
          /\ chunks' = [chunks EXCEPT ![i] = Append(@, <<at[i] + 1, e>>)]
    /\ \E found \in BOOLEAN : hit' = [hit EXCEPT ![i] = @ \/ found]
    /\ UNCHANGED <<task, analysis, held, outcome, results, errors, report, stored, ended>>

(* Mutant: findings recovered from the chunks count as an analysis. *)
FallbackCompletes(i) ==
    /\ task[i] = "fallback" /\ at[i] = Len(Blank[Targets[i]])
    /\ Returns(i, Made(i, IF hit[i] THEN "complete" ELSE "timeout"))
    /\ UNCHANGED <<analysis, held, at, chunks, hit, results, errors, report, stored, ended>>

FallbackReturns(i) ==
    /\ task[i] = "fallback" /\ at[i] = Len(Blank[Targets[i]])
    /\ Returns(i, Made(i, IF hit[i] THEN "recovered" ELSE "timeout"))
    /\ UNCHANGED <<analysis, held, at, chunks, hit, results, errors, report, stored, ended>>

(* Back in scan_one: the last result of a file is the one kept. *)
Finish(i) ==
    /\ task[i] = "returned"
    /\ task' = [task EXCEPT ![i] = "done"]
    /\ results' = [results EXCEPT ![Targets[i]] = outcome[i]]
    /\ UNCHANGED <<analysis, held, at, chunks, hit, outcome, errors, report, stored, ended>>

(* Mutant: the results are taken when the first target has ended. *)
ReportFirst ==
    /\ ~ended
    /\ Len(Targets) > 0 => \E i \in Task : task[i] = "done"
    /\ ended' = TRUE
    /\ report' = [i \in Task |-> results[Targets[i]]]
    /\ stored' = {f \in Files : results[f] # None /\ results[f].how = "complete"}
    /\ UNCHANGED <<task, analysis, held, at, chunks, hit, outcome, results, errors>>

(* gather has returned; results without a parse_error are stored. *)
Report ==
    /\ ~ended
    /\ \A i \in Task : task[i] = "done"
    /\ ended' = TRUE
    /\ report' = [i \in Task |-> results[Targets[i]]]
    /\ stored' = {f \in Files : results[f] # None /\ results[f].how = "complete"}
    /\ UNCHANGED <<task, analysis, held, at, chunks, hit, outcome, results, errors>>

Scheduled ==
    \/ \E i \in Task : Begin(i) \/ BeginFails(i) \/ Take(i) \/ TimeOut(i)
    \/ \E i \in Task : FallbackReturns(i) \/ Finish(i)
    \/ Report

Next ==
    \/ Scheduled
    \/ \E i \in Task : ScanChunk(i)
    \/ \E i \in Task : AnalysisEnds(i)

(* The event loop and the pool threads go on; an analysis, of a file or of *)
(* a chunk, may never end.                                                 *)
Spec == Init /\ [][Next]_vars /\ WF_vars(Scheduled)

-----------------------------------------------------------------------------
Maybe == Result \cup {None}

TypeOK ==
    /\ task \in [Task -> {"waiting", "running", "fallback", "returned", "done"}]
    /\ analysis \in [Task -> {"none", "running", "ended"}]
    /\ held \in [Task -> Maybe]
    /\ at \in [Task -> Nat]
    /\ chunks \in [Task -> Seq(Nat \X Nat)]
    /\ hit \in [Task -> BOOLEAN]
    /\ outcome \in [Task -> Maybe]
    /\ results \in [Files -> Maybe]
    /\ errors \subseteq Task
    /\ report \in [Task -> Maybe]
    /\ stored \subseteq Files
    /\ ended \in BOOLEAN

(* Whatever is late, no file is reported with the findings of another.     *)
OwnResults == \A i \in Task : report[i] # None => report[i].of = Targets[i]

(* A file whose analysis timed out or raised is in the report all the      *)
(* same, as long as threads can be started.                                *)
NothingDropped == ended => \A i \in Task \ errors : report[i] # None

(* What a later scan will serve from the cache is of an analysis of the    *)
(* whole file that ended in time: not of chunks, and not of an analysis    *)
(* that was given up.                                                      *)
OnlyCompleteStored ==
    \A f \in stored : \E i \in Task :
        /\ Targets[i] = f
        /\ held[i] = Made(i, "complete")
        /\ at[i] = 0

(* Chunks follow one another from the first line to line last, and have at *)
(* most MaxLines: with the offset of its chunk a finding has the right one. *)
Tiles(cs, last) ==
    /\ \A k \in 1..Len(cs) :
        /\ cs[k][1] = IF k = 1 THEN 1 ELSE cs[k - 1][2] + 1
        /\ cs[k][2] \in cs[k][1]..(cs[k][1] + MaxLines - 1)
    /\ last = IF cs = <<>> THEN 0 ELSE cs[Len(cs)][2]

(* The fallback has answered for the file of a target. *)
Answered(i) ==
    \/ outcome[i].how = "recovered"
    \/ outcome[i].how = "timeout" /\ Targets[i] \in Chunked

(* "Uses chunked scanning windows to avoid dropping coverage": when the    *)
(* fallback answers for a file, every line was in exactly one chunk.       *)
WholeFileCovered ==
    \A i \in Task :
        /\ Tiles(chunks[i], at[i])
        /\ outcome[i] # None =>
            (Answered(i) => at[i] = Len(Blank[Targets[i]]))

(* A target can go on without waiting for its analysis or for another's.   *)
CanGoOn(i) ==
    \/ Admitted(i)
    \/ task[i] \in {"running", "returned"}
    \/ /\ task[i] = "fallback"
       /\ \/ at[i] = Len(Blank[Targets[i]])
          \/ \E e \in 1..Len(Blank[Targets[i]]) : EndsChunk(Blank[Targets[i]], at[i], e)

(* However many analyses hang, a scan that has not ended has a target that *)
(* can go on, or all of them done: abandoned threads hold no slot, and     *)
(* the text a chunk is taken from has an end for it.                       *)
NeverStuck ==
    \/ ended
    \/ \A i \in Task : task[i] = "done"
    \/ \E i \in Task : CanGoOn(i)

(* The work that is left: the stages each target has not been through, the *)
(* lines its fallback has not, the analyses to end, and the report.        *)
Stage == [waiting |-> 0, running |-> 1, fallback |-> 2, returned |-> 3, done |-> 4]

StagesLeft(i) == {"stage"} \X {i} \X ((Stage[task[i]] + 1)..4)
LinesLeft(i) == {"line"} \X {i} \X ((at[i] + 1)..Len(Blank[Targets[i]]))
AnalysesLeft(i) == {a \in {"analysis"} \X {i} \X {0} : analysis[i] # "ended"}
ReportLeft == {r \in {"report"} \X {0} \X {0} : ~ended}

LeftOf(i) == StagesLeft(i) \cup LinesLeft(i) \cup AnalysesLeft(i)
WorkLeft == ReportLeft \cup (UNION {LeftOf(i) : i \in Task})

(* Every step does some of the work that is left, and none adds to it: no  *)
(* target is retried, no line scanned again.  As the work is finite and    *)
(* the scan is never stuck, there is no run that goes on for ever.         *)
WorkShrinks ==
    [][WorkLeft' \subseteq WorkLeft /\ WorkLeft' # WorkLeft]_vars

(* False: "Run _analyze_file with a hard per-file timeout", that is, the    *)
(* function returns whatever the analysis does.  The fallback analyses the *)
(* chunks of the same file in the thread that waits, without a limit       *)
(* (MCParallelHang.cfg).                                                   *)
TimeoutIsHard ==
    \A i \in Task : task[i] = "running" ~> task[i] \in {"returned", "done"}
=============================================================================
