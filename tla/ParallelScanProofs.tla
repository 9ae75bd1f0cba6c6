------------------------- MODULE ParallelScanProofs -------------------------
(***************************************************************************)
(* What a threaded scan guarantees for any list of targets, any number of  *)
(* workers, any chunk size, and analyses that may end late or never.       *)
(***************************************************************************)
EXTENDS ParallelScan, FiniteSetTheorems, WellFoundedInduction, TLAPS

LEMMA ResultsMade ==
    ASSUME NEW i \in Task, NEW how \in Ways
    PROVE  /\ Made(i, how) \in Result /\ Made(i, how) # None
           /\ Made(i, how).of = Targets[i] /\ Made(i, how).how = how
<1>1. Targets[i] \in Files
  BY DEF Files
<1> QED
  BY <1>1, ScanAssumption DEF Made, Result

(* _split_text_chunks_with_offsets goes on, by no more than MaxLines, and  *)
(* not beyond the last line.                                               *)
LEMMA ChunkBounds ==
    ASSUME NEW lines \in Seq(BOOLEAN), NEW s \in Nat, s < Len(lines),
           NEW e \in 1..Len(lines), EndsChunk(lines, s, e)
    PROVE  e \in Nat /\ s < e /\ e <= s + MaxLines /\ e <= Len(lines)
<1>1. Len(lines) \in Nat /\ MaxLines \in Nat \ {0} /\ Slack \in Nat
  BY ScanAssumption
<1>2. CASE s + MaxLines >= Len(lines)
  BY <1>1, <1>2 DEF EndsChunk
<1>3. CASE ~(s + MaxLines >= Len(lines))
  BY <1>1, <1>3 DEF EndsChunk, Breaks
<1> QED
  BY <1>2, <1>3

LEMMA LinesOfTarget ==
    ASSUME NEW i \in Task
    PROVE  Blank[Targets[i]] \in Seq(BOOLEAN) /\ Len(Blank[Targets[i]]) \in Nat
<1>1. Targets[i] \in Files
  BY DEF Files
<1> QED
  BY <1>1, ScanAssumption

(* What a wait that has run out comes to. *)
LEMMA AfterTimeOut ==
    ASSUME NEW i \in Task, TimeOut(i)
    PROVE  \/ /\ Targets[i] \in Chunked /\ outcome' = outcome
              /\ task' = [task EXCEPT ![i] = "fallback"]
           \/ \E how \in {"error", "timeout"} :
                /\ how = "timeout" => Targets[i] \notin Chunked
                /\ outcome' = [outcome EXCEPT ![i] = Made(i, how)]
                /\ task' = [task EXCEPT ![i] = "returned"]
  BY DEF TimeOut, Returns
-----------------------------------------------------------------------------
LEMMA TypeStep == TypeOK /\ [Next]_vars => TypeOK'
<1> SUFFICES ASSUME TypeOK, [Next]_vars PROVE TypeOK'
  OBVIOUS
<1>1. ASSUME NEW i \in Task, Begin(i) PROVE TypeOK'
  BY <1>1 DEF TypeOK, Begin
<1>2. ASSUME NEW i \in Task, BeginFails(i) PROVE TypeOK'
  BY <1>2 DEF TypeOK, BeginFails
<1>3. ASSUME NEW i \in Task, AnalysisEnds(i) PROVE TypeOK'
  <2>1. PICK how \in {"complete", "error"} : held' = [held EXCEPT ![i] = Made(i, how)]
    BY <1>3 DEF AnalysisEnds
  <2>2. Made(i, how) \in Maybe
    BY ResultsMade DEF Maybe, Ways
  <2> QED
    BY <1>3, <2>1, <2>2 DEF TypeOK, AnalysisEnds
<1>4. ASSUME NEW i \in Task, Take(i) PROVE TypeOK'
  BY <1>4 DEF TypeOK, Take, Returns
<1>5. ASSUME NEW i \in Task, TimeOut(i) PROVE TypeOK'
  <2>1. Made(i, "error") \in Maybe /\ Made(i, "timeout") \in Maybe
    BY ResultsMade DEF Maybe, Ways
  <2>2. outcome' \in [Task -> Maybe]
    BY <1>5, <2>1 DEF TypeOK, TimeOut, Returns
  <2>3. task' \in [Task -> {"waiting", "running", "fallback", "returned", "done"}]
    BY <1>5 DEF TypeOK, TimeOut, Returns
  <2> QED
    BY <1>5, <2>2, <2>3 DEF TypeOK, TimeOut
<1>6. ASSUME NEW i \in Task, ScanChunk(i) PROVE TypeOK'
  <2>1. PICK e \in 1..Len(Blank[Targets[i]]) :
          /\ at' = [at EXCEPT ![i] = e]
          /\ chunks' = [chunks EXCEPT ![i] = Append(@, <<at[i] + 1, e>>)]
    BY <1>6 DEF ScanChunk
  <2>2. e \in Nat /\ <<at[i] + 1, e>> \in Nat \X Nat
    BY LinesOfTarget DEF TypeOK
  <2>3. at' \in [Task -> Nat] /\ chunks' \in [Task -> Seq(Nat \X Nat)]
    BY <2>1, <2>2 DEF TypeOK
  <2>4. hit' \in [Task -> BOOLEAN]
    BY <1>6 DEF TypeOK, ScanChunk
  <2> QED
    BY <1>6, <2>3, <2>4 DEF TypeOK, ScanChunk
<1>7. ASSUME NEW i \in Task, FallbackReturns(i) PROVE TypeOK'
  <2>1. Made(i, IF hit[i] THEN "recovered" ELSE "timeout") \in Maybe
    BY ResultsMade DEF Maybe, Ways
  <2> QED
    BY <1>7, <2>1 DEF TypeOK, FallbackReturns, Returns
<1>8. ASSUME NEW i \in Task, Finish(i) PROVE TypeOK'
  BY <1>8 DEF TypeOK, Finish
<1>9. CASE Report
  <2>1. \A i \in Task : Targets[i] \in Files
    BY DEF Files
  <2> QED
    BY <1>9, <2>1 DEF TypeOK, Report
<1>10. CASE UNCHANGED vars
  BY <1>10 DEF TypeOK, vars
<1> QED
  BY <1>1, <1>2, <1>3, <1>4, <1>5, <1>6, <1>7, <1>8, <1>9, <1>10 DEF Next, Scheduled

(* In every reachable state results, chunks and errors are what the code   *)
(* takes them for.                                                         *)
THEOREM TypeCorrect == Spec => []TypeOK
<1>1. Init => TypeOK
  <2>1. None \in Maybe /\ 0 \in Nat /\ <<>> \in Seq(Nat \X Nat)
    BY DEF Maybe
  <2> QED
    BY <2>1 DEF Init, TypeOK
<1> QED
  BY <1>1, TypeStep, PTL DEF Spec

-----------------------------------------------------------------------------
(* Every result, on its way from the holder to the report, is of the file  *)
(* it is asked for.                                                        *)
Own ==
    /\ \A i \in Task : held[i] # None => held[i].of = Targets[i]
    /\ \A i \in Task : outcome[i] # None => outcome[i].of = Targets[i]
    /\ \A f \in Files : results[f] # None => results[f].of = f
    /\ OwnResults

LEMMA OwnStep == TypeOK /\ Own /\ [Next]_vars => Own'
<1> SUFFICES ASSUME TypeOK, Own, [Next]_vars PROVE Own'
  OBVIOUS
<1> USE DEF Own, OwnResults
<1>0. \A i \in Task : Targets[i] \in Files
  BY DEF Files
<1>1. ASSUME NEW i \in Task, Begin(i) PROVE Own'
  BY <1>1 DEF Begin
<1>2. ASSUME NEW i \in Task, BeginFails(i) PROVE Own'
  BY <1>2 DEF BeginFails
<1>3. ASSUME NEW i \in Task, AnalysisEnds(i) PROVE Own'
  BY <1>3, ResultsMade DEF TypeOK, AnalysisEnds, Ways
<1>4. ASSUME NEW i \in Task, Take(i) PROVE Own'
  BY <1>4 DEF TypeOK, Take, Returns
<1>5. ASSUME NEW i \in Task, TimeOut(i) PROVE Own'
  <2>1. UNCHANGED <<held, results, report>>
    BY <1>5 DEF TimeOut
  <2>2. CASE outcome' = outcome
    BY <2>1, <2>2
  <2>3. ASSUME NEW how \in {"error", "timeout"},
               outcome' = [outcome EXCEPT ![i] = Made(i, how)]
        PROVE  Own'
    <3>1. Made(i, how).of = Targets[i]
      BY ResultsMade DEF Ways
    <3> QED
      BY <2>1, <2>3, <3>1 DEF TypeOK
  <2> QED
    BY <1>5, <2>2, <2>3, AfterTimeOut
<1>6. ASSUME NEW i \in Task, ScanChunk(i) PROVE Own'
  BY <1>6 DEF ScanChunk
<1>7. ASSUME NEW i \in Task, FallbackReturns(i) PROVE Own'
  <2>1. Made(i, IF hit[i] THEN "recovered" ELSE "timeout").of = Targets[i]
    BY ResultsMade DEF Ways
  <2> QED
    BY <1>7, <2>1 DEF TypeOK, FallbackReturns, Returns
<1>8. ASSUME NEW i \in Task, Finish(i) PROVE Own'
  BY <1>0, <1>8 DEF TypeOK, Finish
<1>9. CASE Report
  BY <1>0, <1>9 DEF Report
<1>10. CASE UNCHANGED vars
  BY <1>10 DEF vars
<1> QED
  BY <1>1, <1>2, <1>3, <1>4, <1>5, <1>6, <1>7, <1>8, <1>9, <1>10 DEF Next, Scheduled

(* However late an abandoned analysis ends, no file is reported with the   *)
(* findings of another.                                                    *)
THEOREM ResultsAreOwn == Spec => []OwnResults
<1>1. Init => Own
  BY DEF Init, Own, OwnResults
<1>2. Own => OwnResults
  BY DEF Own
<1> QED
  BY <1>1, <1>2, OwnStep, TypeCorrect, PTL DEF Spec
-----------------------------------------------------------------------------
(* The stages a target goes through.  A result, once held, is there to     *)
(* stay, and what _scan_one returned is the result held in time or what    *)
(* the fallback made of the whole file.                                    *)
HeldAtEnd(i) ==
    /\ held[i] # None => analysis[i] = "ended" /\ held[i].how \in {"complete", "error"}
    /\ task[i] = "waiting" => analysis[i] = "none"

Pending(i) ==
    /\ task[i] \in {"waiting", "running"} => at[i] = 0
    /\ task[i] \in {"waiting", "running", "fallback"} => outcome[i] = None
    /\ task[i] = "returned" => outcome[i] # None

Earned(i) ==
    outcome[i] # None =>
        /\ outcome[i].how = "complete" => held[i] = outcome[i] /\ at[i] = 0
        /\ Answered(i) => at[i] = Len(Blank[Targets[i]])

Stages == \A i \in Task : HeldAtEnd(i) /\ Pending(i) /\ Earned(i)

LEMMA StagesStep == TypeOK /\ Stages /\ [Next]_vars => Stages'
<1> SUFFICES ASSUME TypeOK, Stages, [Next]_vars PROVE Stages'
  OBVIOUS
<1> USE DEF Stages, HeldAtEnd, Pending, Earned, Answered
<1>1. ASSUME NEW i \in Task, Begin(i) PROVE Stages'
  BY <1>1 DEF TypeOK, Begin, Admitted
<1>2. ASSUME NEW i \in Task, BeginFails(i) PROVE Stages'
  BY <1>2 DEF TypeOK, BeginFails, Admitted
<1>3. ASSUME NEW i \in Task, AnalysisEnds(i) PROVE Stages'
  <2>1. held[i] = None /\ task[i] # "waiting"
    BY <1>3 DEF AnalysisEnds
  <2>2. PICK how \in {"complete", "error"} : held' = [held EXCEPT ![i] = Made(i, how)]
    BY <1>3 DEF AnalysisEnds
  <2>3. Made(i, how).how = how
    BY ResultsMade DEF Ways
  <2> QED
    BY <1>3, <2>1, <2>2, <2>3 DEF TypeOK, AnalysisEnds
<1>4. ASSUME NEW i \in Task, Take(i) PROVE Stages'
  BY <1>4 DEF TypeOK, Take, Returns
<1>5. ASSUME NEW i \in Task, TimeOut(i) PROVE Stages'
  <2>1. UNCHANGED <<analysis, held, at>> /\ task[i] = "running"
    BY <1>5 DEF TimeOut
  <2>2. CASE outcome' = outcome /\ task' = [task EXCEPT ![i] = "fallback"]
    BY <2>1, <2>2 DEF TypeOK
  <2>3. ASSUME NEW how \in {"error", "timeout"},
               how = "timeout" => Targets[i] \notin Chunked,
               outcome' = [outcome EXCEPT ![i] = Made(i, how)],
               task' = [task EXCEPT ![i] = "returned"]
        PROVE  Stages'
    <3>1. Made(i, how).how = how /\ Made(i, how) # None
      BY ResultsMade DEF Ways
    <3> QED
      BY <2>1, <2>3, <3>1 DEF TypeOK
  <2> QED
    BY <1>5, <2>2, <2>3, AfterTimeOut
<1>6. ASSUME NEW i \in Task, ScanChunk(i) PROVE Stages'
  <2>1. UNCHANGED <<task, analysis, held, outcome>> /\ task[i] = "fallback"
    BY <1>6 DEF ScanChunk
  <2>2. \A j \in Task \ {i} : at'[j] = at[j]
    BY <1>6 DEF TypeOK, ScanChunk
  <2> QED
    BY <2>1, <2>2
<1>7. ASSUME NEW i \in Task, FallbackReturns(i) PROVE Stages'
  <2>1. PICK how \in {"recovered", "timeout"} :
          /\ outcome' = [outcome EXCEPT ![i] = Made(i, how)]
          /\ task' = [task EXCEPT ![i] = "returned"]
    BY <1>7 DEF FallbackReturns, Returns
  <2>2. Made(i, how).how = how /\ Made(i, how) # None
    BY ResultsMade DEF Ways
  <2>3. UNCHANGED <<analysis, held, at>> /\ at[i] = Len(Blank[Targets[i]])
    BY <1>7 DEF FallbackReturns
  <2> QED
    BY <2>1, <2>2, <2>3 DEF TypeOK
<1>8. ASSUME NEW i \in Task, Finish(i) PROVE Stages'
  BY <1>8 DEF TypeOK, Finish
<1>9. CASE Report
  BY <1>9 DEF Report
<1>10. CASE UNCHANGED vars
  BY <1>10 DEF vars
<1> QED
  BY <1>1, <1>2, <1>3, <1>4, <1>5, <1>6, <1>7, <1>8, <1>9, <1>10 DEF Next, Scheduled

LEMMA StagesHold == Spec => []Stages
<1>1. Init => Stages
  BY DEF Init, Stages, HeldAtEnd, Pending, Earned
<1> QED
  BY <1>1, StagesStep, TypeCorrect, PTL DEF Spec
-----------------------------------------------------------------------------
(* What is kept of a file is what a target of it returned, and a target    *)
(* that is done without an error left something.                           *)
Sourced ==
    \A f \in Files : results[f] # None =>
        \E i \in Task : Targets[i] = f /\ task[i] = "done" /\ outcome[i] = results[f]

Kept == \A i \in Task \ errors : task[i] = "done" => results[Targets[i]] # None

(* A step of a target that is not done does not touch those that are. *)
LEMMA DoneIsDone ==
    ASSUME TypeOK, Stages, [Next]_vars, NEW i \in Task, task[i] = "done"
    PROVE  /\ task'[i] = "done" /\ outcome'[i] = outcome[i] /\ at'[i] = at[i]
           /\ held[i] # None => held'[i] = held[i]
<1>1. ASSUME NEW j \in Task, Begin(j) \/ BeginFails(j)
      PROVE  /\ task'[i] = "done" /\ outcome'[i] = outcome[i] /\ at'[i] = at[i]
             /\ held'[i] = held[i]
  BY <1>1 DEF TypeOK, Begin, BeginFails, Admitted
<1>2. ASSUME NEW j \in Task, AnalysisEnds(j)
      PROVE  /\ task'[i] = "done" /\ outcome'[i] = outcome[i] /\ at'[i] = at[i]
             /\ held[i] # None => held'[i] = held[i]
  BY <1>2 DEF TypeOK, AnalysisEnds, Stages, HeldAtEnd
<1>3. ASSUME NEW j \in Task, Take(j) \/ TimeOut(j)
      PROVE  /\ task'[i] = "done" /\ outcome'[i] = outcome[i] /\ at'[i] = at[i]
             /\ held'[i] = held[i]
  BY <1>3 DEF TypeOK, Take, TimeOut, Returns
<1>4. ASSUME NEW j \in Task, ScanChunk(j) \/ FallbackReturns(j)
      PROVE  /\ task'[i] = "done" /\ outcome'[i] = outcome[i] /\ at'[i] = at[i]
             /\ held'[i] = held[i]
  BY <1>4 DEF TypeOK, ScanChunk, FallbackReturns, Returns
<1>5. ASSUME NEW j \in Task, Finish(j)
      PROVE  /\ task'[i] = "done" /\ outcome'[i] = outcome[i] /\ at'[i] = at[i]
             /\ held'[i] = held[i]
  BY <1>5 DEF TypeOK, Finish
<1>6. CASE Report \/ UNCHANGED vars
  BY <1>6 DEF Report, vars
<1> QED
  BY <1>1, <1>2, <1>3, <1>4, <1>5, <1>6 DEF Next, Scheduled

(* Only Finish and BeginFails end a target, and only Finish and Report     *)
(* write what is kept and reported.                                        *)
LEMMA EndsOfTargets ==
    ASSUME TypeOK, [Next]_vars
    PROVE  \/ \E i \in Task : Finish(i)
           \/ Report
           \/ /\ UNCHANGED <<results, report, stored, ended>>
              /\ errors \subseteq errors'
              /\ \A i \in Task \ errors' : task'[i] = "done" => task[i] = "done"
<1> DEFINE Quiet == /\ UNCHANGED <<results, report, stored, ended>>
                    /\ errors \subseteq errors'
                    /\ \A i \in Task \ errors' : task'[i] = "done" => task[i] = "done"
<1>1. ASSUME NEW j \in Task, Begin(j) \/ BeginFails(j) PROVE Quiet
  BY <1>1 DEF TypeOK, Begin, BeginFails
<1>2. ASSUME NEW j \in Task, AnalysisEnds(j) \/ ScanChunk(j) PROVE Quiet
  BY <1>2 DEF AnalysisEnds, ScanChunk
<1>3. ASSUME NEW j \in Task, Take(j) \/ FallbackReturns(j) PROVE Quiet
  BY <1>3 DEF TypeOK, Take, FallbackReturns, Returns
<1>4. ASSUME NEW j \in Task, TimeOut(j) PROVE Quiet
  BY <1>4 DEF TypeOK, TimeOut, Returns
<1>5. CASE UNCHANGED vars
  BY <1>5 DEF vars
<1> QED
  BY <1>1, <1>2, <1>3, <1>4, <1>5 DEF Next, Scheduled

LEMMA SourcedStep ==
    TypeOK /\ Stages /\ Sourced /\ Kept /\ [Next]_vars => Sourced' /\ Kept'
<1> SUFFICES ASSUME TypeOK, Stages, Sourced, Kept, [Next]_vars PROVE Sourced' /\ Kept'
  OBVIOUS
<1>0. \A i \in Task : Targets[i] \in Files
  BY DEF Files
<1>1. ASSUME NEW i \in Task, Finish(i) PROVE Sourced' /\ Kept'
  <2>1. /\ results' = [results EXCEPT ![Targets[i]] = outcome[i]]
        /\ task' = [task EXCEPT ![i] = "done"] /\ UNCHANGED <<outcome, errors>>
        /\ outcome[i] # None
    BY <1>1 DEF Finish, Stages, Pending
  <2>2. Sourced'
    <3> SUFFICES ASSUME NEW f \in Files, results'[f] # None
                 PROVE  \E k \in Task : /\ Targets[k] = f /\ task'[k] = "done"
                                        /\ outcome'[k] = results'[f]
      BY DEF Sourced
    <3>1. CASE f = Targets[i]
      BY <2>1, <3>1 DEF TypeOK
    <3>2. CASE f # Targets[i]
      BY <2>1, <3>2 DEF TypeOK, Sourced
    <3> QED
      BY <3>1, <3>2
  <2>3. Kept'
    BY <1>0, <2>1 DEF TypeOK, Kept
  <2> QED
    BY <2>2, <2>3
<1>2. CASE Report
  BY <1>2 DEF Report, Sourced, Kept
<1>3. CASE /\ UNCHANGED <<results, report, stored, ended>>
           /\ errors \subseteq errors'
           /\ \A i \in Task \ errors' : task'[i] = "done" => task[i] = "done"
  BY <1>3, DoneIsDone DEF Sourced, Kept
<1> QED
  BY <1>1, <1>2, <1>3, EndsOfTargets

LEMMA SourcedHolds == Spec => [](Sourced /\ Kept)
<1>1. Init => Sourced /\ Kept
  BY DEF Init, Sourced, Kept, Files
<1> QED
  BY <1>1, SourcedStep, StagesHold, TypeCorrect, PTL DEF Spec

LEMMA NothingDroppedStep == Kept /\ NothingDropped /\ TypeOK /\ [Next]_vars => NothingDropped'
<1> SUFFICES ASSUME Kept, NothingDropped, TypeOK, [Next]_vars PROVE NothingDropped'
  OBVIOUS
<1>1. ASSUME NEW i \in Task, Finish(i) PROVE NothingDropped'
  BY <1>1 DEF Finish, NothingDropped
<1>2. CASE Report
  BY <1>2 DEF Report, NothingDropped, Kept
<1>3. CASE UNCHANGED <<report, ended>> /\ errors \subseteq errors'
  BY <1>3 DEF NothingDropped
<1> QED
  BY <1>1, <1>2, <1>3, EndsOfTargets

(* Every target whose threads could be started is in the report of a scan  *)
(* that has ended, whether its analysis ended, raised or was given up.     *)
THEOREM NoTargetDropped == Spec => []NothingDropped
<1>1. Init => NothingDropped
  BY DEF Init, NothingDropped
<1> QED
  BY <1>1, NothingDroppedStep, SourcedHolds, TypeCorrect, PTL DEF Spec
-----------------------------------------------------------------------------
(* The target whose complete result is stored is done. *)
StoredByDone ==
    \A f \in stored : \E i \in Task :
        /\ Targets[i] = f /\ task[i] = "done"
        /\ held[i] = Made(i, "complete") /\ at[i] = 0

LEMMA StoredStep ==
    TypeOK /\ Own /\ Stages /\ Sourced /\ StoredByDone /\ [Next]_vars => StoredByDone'
<1> SUFFICES ASSUME TypeOK, Own, Stages, Sourced, StoredByDone, [Next]_vars
             PROVE  StoredByDone'
  OBVIOUS
<1>1. CASE Report
  <2> SUFFICES ASSUME NEW f \in stored'
               PROVE  \E i \in Task : /\ Targets[i] = f /\ task'[i] = "done"
                                      /\ held'[i] = Made(i, "complete") /\ at'[i] = 0
    BY DEF StoredByDone, Made
  <2>1. f \in Files /\ results[f] # None /\ results[f].how = "complete"
    BY <1>1 DEF Report
  <2>2. PICK i \in Task : Targets[i] = f /\ task[i] = "done" /\ outcome[i] = results[f]
    BY <2>1 DEF Sourced
  <2>3. held[i] = outcome[i] /\ at[i] = 0 /\ held[i].of = Targets[i] /\ held[i] \in Result
    BY <2>1, <2>2 DEF Stages, Earned, Own, TypeOK, Maybe
  <2>4. held[i] = Made(i, "complete")
    BY <2>1, <2>2, <2>3 DEF Made, Result
  <2> QED
    BY <1>1, <2>2, <2>3, <2>4 DEF Report
<1>2. CASE UNCHANGED stored
  <2> SUFFICES ASSUME NEW f \in stored
               PROVE  \E i \in Task : /\ Targets[i] = f /\ task'[i] = "done"
                                      /\ held'[i] = Made(i, "complete") /\ at'[i] = 0
    BY <1>2 DEF StoredByDone, Made
  <2>1. PICK i \in Task : /\ Targets[i] = f /\ task[i] = "done"
                          /\ held[i] = Made(i, "complete") /\ at[i] = 0
    BY DEF StoredByDone
  <2>2. held[i] # None
    BY <2>1, ResultsMade DEF Ways
  <2> QED
    BY <2>1, <2>2, DoneIsDone
<1>3. ASSUME NEW i \in Task, Finish(i) PROVE UNCHANGED stored
  BY <1>3 DEF Finish
<1> QED
  BY <1>1, <1>2, <1>3, EndsOfTargets

(* The incremental cache is given only what an analysis of the whole file  *)
(* that ended in time has found.                                           *)
THEOREM StoredAreComplete == Spec => []OnlyCompleteStored
<1>1. Init => StoredByDone
  BY DEF Init, StoredByDone
<1>2. StoredByDone => OnlyCompleteStored
  BY DEF StoredByDone, OnlyCompleteStored
<1>3. Init => Own
  BY DEF Init, Own, OwnResults
<1> QED
  BY <1>1, <1>2, <1>3, StoredStep, OwnStep, SourcedHolds, StagesHold, TypeCorrect, PTL DEF Spec

-----------------------------------------------------------------------------
(* The chunks of a target end within its lines. *)
WithinLines(i) == at[i] <= Len(Blank[Targets[i]])

AllTiled == \A i \in Task : Tiles(chunks[i], at[i]) /\ WithinLines(i)

LEMMA TilesExtended ==
    ASSUME NEW cs \in Seq(Nat \X Nat), NEW last \in Nat, Tiles(cs, last),
           NEW e \in Nat, last < e, e <= last + MaxLines
    PROVE  Tiles(Append(cs, <<last + 1, e>>), e)
<1> DEFINE ds == Append(cs, <<last + 1, e>>)
<1>1. Len(cs) \in Nat /\ MaxLines \in Nat
  BY ScanAssumption
<1>2. /\ Len(ds) = Len(cs) + 1 /\ ds[Len(cs) + 1] = <<last + 1, e>> /\ ds # <<>>
      /\ \A k \in 1..Len(cs) : ds[k] = cs[k]
  <2>1. <<last + 1, e>> \in Nat \X Nat
    OBVIOUS
  <2>2. Len(ds) = Len(cs) + 1 /\ \A k \in 1..Len(cs) : ds[k] = cs[k]
    BY <1>1, <2>1
  <2>3. ds[Len(cs) + 1] = <<last + 1, e>>
    BY <1>1, <2>1
  <2> HIDE DEF ds
  <2>4. ds # <<>>
    <3>1. Len(<<>>) = 0
      OBVIOUS
    <3>2. Len(ds) # 0
      BY <1>1, <2>2
    <3> QED
      BY <3>1, <3>2
  <2> QED
    BY <2>2, <2>3, <2>4
<1>3. \A k \in 1..Len(cs) :
        /\ cs[k][1] = IF k = 1 THEN 1 ELSE cs[k - 1][2] + 1
        /\ cs[k][2] \in cs[k][1]..(cs[k][1] + MaxLines - 1)
  BY DEF Tiles
<1>4. last = IF Len(cs) = 0 THEN 0 ELSE cs[Len(cs)][2]
  BY DEF Tiles
<1> HIDE DEF ds
<1>5. ASSUME NEW k \in 1..Len(cs)
      PROVE  /\ ds[k][1] = IF k = 1 THEN 1 ELSE ds[k - 1][2] + 1
             /\ ds[k][2] \in ds[k][1]..(ds[k][1] + MaxLines - 1)
  <2>1. CASE k = 1
    BY <1>2, <1>3, <2>1
  <2>2. CASE k # 1
    <3>1. k - 1 \in 1..Len(cs)
      BY <1>1, <2>2
    <3> QED
      BY <1>2, <1>3, <2>2, <3>1
  <2> QED
    BY <2>1, <2>2
<1>6. ASSUME NEW k, k = Len(cs) + 1
      PROVE  /\ ds[k][1] = IF k = 1 THEN 1 ELSE ds[k - 1][2] + 1
             /\ ds[k][2] \in ds[k][1]..(ds[k][1] + MaxLines - 1)
  <2>1. ds[k][1] = last + 1 /\ ds[k][2] = e
    BY <1>2, <1>6
  <2>2. CASE Len(cs) = 0
    BY <1>1, <1>4, <1>6, <2>1, <2>2
  <2>3. CASE Len(cs) # 0
    <3>1. Len(cs) \in 1..Len(cs) /\ k - 1 = Len(cs) /\ k # 1
      BY <1>1, <1>6, <2>3
    <3>2. ds[k - 1] = cs[Len(cs)]
      BY <1>2, <3>1
    <3> QED
      BY <1>1, <1>4, <2>1, <2>3, <3>1, <3>2
  <2> QED
    BY <2>2, <2>3
<1>7. \A k \in 1..Len(ds) :
        /\ ds[k][1] = IF k = 1 THEN 1 ELSE ds[k - 1][2] + 1
        /\ ds[k][2] \in ds[k][1]..(ds[k][1] + MaxLines - 1)
  <2> SUFFICES ASSUME NEW k \in 1..Len(ds)
               PROVE  /\ ds[k][1] = IF k = 1 THEN 1 ELSE ds[k - 1][2] + 1
                      /\ ds[k][2] \in ds[k][1]..(ds[k][1] + MaxLines - 1)
    OBVIOUS
  <2>1. k \in 1..Len(cs) \/ k = Len(cs) + 1
    BY <1>1, <1>2
  <2>2. CASE k \in 1..Len(cs)
    BY <1>5, <2>2
  <2>3. CASE k = Len(cs) + 1
    BY <1>6, <2>3
  <2> QED
    BY <2>1, <2>2, <2>3
<1>8. e = IF ds = <<>> THEN 0 ELSE ds[Len(ds)][2]
  BY <1>2
<1> QED
  BY <1>7, <1>8 DEF Tiles, ds

LEMMA TiledStep == TypeOK /\ AllTiled /\ [Next]_vars => AllTiled'
<1> SUFFICES ASSUME TypeOK, AllTiled, [Next]_vars PROVE AllTiled'
  OBVIOUS
<1>1. ASSUME NEW i \in Task, ScanChunk(i) PROVE AllTiled'
  <2>1. PICK e \in 1..Len(Blank[Targets[i]]) :
          /\ EndsChunk(Blank[Targets[i]], at[i], e)
          /\ at' = [at EXCEPT ![i] = e]
          /\ chunks' = [chunks EXCEPT ![i] = Append(@, <<at[i] + 1, e>>)]
    BY <1>1 DEF ScanChunk
  <2>2. /\ at[i] \in Nat /\ e \in Nat /\ at[i] < e
        /\ e <= at[i] + MaxLines /\ e <= Len(Blank[Targets[i]])
    <3>1. at[i] \in Nat /\ at[i] < Len(Blank[Targets[i]])
      BY <1>1 DEF ScanChunk, TypeOK
    <3> QED
      BY <2>1, <3>1, ChunkBounds, LinesOfTarget
  <2>3. \A j \in Task \ {i} : at'[j] = at[j] /\ chunks'[j] = chunks[j]
    BY <2>1 DEF TypeOK
  <2>4. \A j \in Task \ {i} : (Tiles(chunks[j], at[j]) /\ WithinLines(j))'
    BY <2>3 DEF AllTiled, Tiles, WithinLines
  <2>5. chunks'[i] = Append(chunks[i], <<at[i] + 1, e>>) /\ at'[i] = e
    BY <2>1 DEF TypeOK
  <2>6. Tiles(chunks'[i], at'[i])
    BY <2>2, <2>5, TilesExtended DEF AllTiled, TypeOK
  <2>7. WithinLines(i)'
    BY <2>2, <2>5 DEF WithinLines
  <2> QED
    BY <2>4, <2>6, <2>7 DEF AllTiled
<1>2. CASE UNCHANGED <<at, chunks>>
  BY <1>2 DEF AllTiled, Tiles, WithinLines
<1>3. (\E i \in Task : ScanChunk(i)) \/ UNCHANGED <<at, chunks>>
  BY DEF Next, Scheduled, Begin, BeginFails, AnalysisEnds, Take, TimeOut,
         FallbackReturns, Finish, Report, vars
<1> QED
  BY <1>1, <1>2, <1>3

(* Chunks are of at most MaxLines lines, follow one another from the first *)
(* line of the file, and reach the last before the fallback answers: no    *)
(* line is dropped or counted twice, for any text and any chunk size.      *)
THEOREM ChunksCover == Spec => []WholeFileCovered
<1>1. Init => AllTiled
  <2>1. ASSUME Init, NEW i \in Task PROVE Tiles(chunks[i], at[i]) /\ WithinLines(i)
    BY <2>1, LinesOfTarget DEF Init, Tiles, WithinLines
  <2> QED
    BY <2>1 DEF AllTiled
<1>2. AllTiled /\ Stages => WholeFileCovered
  BY DEF AllTiled, Stages, Earned, WholeFileCovered
<1> QED
  BY <1>1, <1>2, TiledStep, StagesHold, TypeCorrect, PTL DEF Spec
-----------------------------------------------------------------------------
(* A bounded set of numbers that is not empty has a greatest. *)
LEMMA Greatest ==
    ASSUME NEW n \in Nat, NEW S \in SUBSET (0..n), S # {}
    PROVE  \E k \in S : \A j \in S : j <= k
<1> DEFINE R == OpToRel(<, Nat)
           D == {d \in Nat : n - d \in S}
<1>1. IsWellFoundedOn(R, Nat) /\ D \subseteq Nat
  BY NatLessThanWellFounded
<1>2. D # {}
  <2>1. PICK k \in S : TRUE
    OBVIOUS
  <2>2. n - k \in Nat /\ n - (n - k) = k
    OBVIOUS
  <2> QED
    BY <2>1, <2>2
<1>3. \A x, y \in Nat : y < x => <<y, x>> \in R
  BY DEF OpToRel
<1> HIDE DEF R
<1>4. PICK d \in D : \A y \in D : ~(<<y, d>> \in R)
  BY <1>1, <1>2, WFMin
<1>5. ASSUME NEW j \in S PROVE j <= n - d
  <2>1. j \in Nat /\ d \in Nat /\ n - j \in Nat /\ n - (n - j) = j
    OBVIOUS
  <2>2. n - j \in D
    BY <2>1
  <2>3. ~(n - j < d)
    BY <1>3, <1>4, <2>1, <2>2
  <2> QED
    BY <2>1, <2>3
<1> QED
  BY <1>4, <1>5

(* The loop of _split_text_chunks_with_offsets finds an end for every      *)
(* chunk it begins.                                                        *)
LEMMA ChunkEnds ==
    ASSUME NEW lines \in Seq(BOOLEAN), NEW s \in Nat, s < Len(lines)
    PROVE  \E e \in 1..Len(lines) : EndsChunk(lines, s, e)
<1>1. Len(lines) \in Nat /\ MaxLines \in Nat \ {0} /\ Slack \in Nat
  BY ScanAssumption
<1>2. CASE s + MaxLines >= Len(lines)
  <2>1. EndsChunk(lines, s, Len(lines)) /\ Len(lines) \in 1..Len(lines)
    BY <1>1, <1>2 DEF EndsChunk
  <2> QED
    BY <2>1
<1>3. CASE s + MaxLines < Len(lines) /\ Breaks(lines, s) = {}
  <2>1. EndsChunk(lines, s, s + MaxLines) /\ s + MaxLines \in 1..Len(lines)
    BY <1>1, <1>3 DEF EndsChunk
  <2> QED
    BY <2>1
<1>4. CASE s + MaxLines < Len(lines) /\ Breaks(lines, s) # {}
  <2>1. Breaks(lines, s) \subseteq 1..(s + MaxLines)
    BY <1>1 DEF Breaks
  <2>2. PICK e \in Breaks(lines, s) : \A k \in Breaks(lines, s) : k <= e
    <3>1. s + MaxLines \in Nat /\ Breaks(lines, s) \subseteq 0..(s + MaxLines)
      BY <1>1, <2>1
    <3> QED
      BY <1>4, <3>1, Greatest
  <2>3. e \in 1..Len(lines)
    BY <1>1, <1>4, <2>1
  <2>4. ~(s + MaxLines >= Len(lines))
    BY <1>1, <1>4
  <2> QED
    BY <2>2, <2>3, <2>4 DEF EndsChunk
<1> QED
  BY <1>1, <1>2, <1>3, <1>4

LEMMA TiledHolds == Spec => []AllTiled
<1>1. Init => AllTiled
  <2>1. ASSUME Init, NEW i \in Task PROVE Tiles(chunks[i], at[i]) /\ WithinLines(i)
    BY <2>1, LinesOfTarget DEF Init, Tiles, WithinLines
  <2> QED
    BY <2>1 DEF AllTiled
<1> QED
  BY <1>1, TiledStep, TypeCorrect, PTL DEF Spec

(* A scan cannot be brought to a halt: in every reachable state, though    *)
(* every analysis may hang, a target can go on or the report is due.       *)
THEOREM ScanGoesOn == Spec => []NeverStuck
<1>1. ASSUME TypeOK, AllTiled PROVE NeverStuck
  <2> SUFFICES ASSUME NEW i \in Task, task[i] # "done"
               PROVE  \E j \in Task : CanGoOn(j)
    BY DEF NeverStuck
  <2>1. CASE \E j \in Task : task[j] \in {"running", "returned"}
    BY <2>1 DEF CanGoOn
  <2>2. ASSUME NEW j \in Task, task[j] = "fallback" PROVE CanGoOn(j)
    <3>1. /\ Blank[Targets[j]] \in Seq(BOOLEAN) /\ Len(Blank[Targets[j]]) \in Nat
          /\ at[j] \in Nat /\ at[j] <= Len(Blank[Targets[j]])
      BY <1>1, LinesOfTarget DEF TypeOK, AllTiled, WithinLines
    <3>2. CASE at[j] = Len(Blank[Targets[j]])
      BY <2>2, <3>2 DEF CanGoOn
    <3>3. CASE at[j] < Len(Blank[Targets[j]])
      BY <2>2, <3>1, <3>3, ChunkEnds DEF CanGoOn
    <3> QED
      BY <3>1, <3>2, <3>3
  <2>3. CASE \A j \in Task : task[j] \in {"waiting", "done"}
    <3>1. {j \in Task : task[j] \notin {"waiting", "done"}} = {}
      BY <2>3
    <3>2. Cardinality({j \in Task : task[j] \notin {"waiting", "done"}}) = 0
      BY <3>1, FS_EmptySet
    <3>3. 0 < Workers
      BY ScanAssumption
    <3> QED
      BY <2>3, <3>2, <3>3 DEF CanGoOn, Admitted
  <2> QED
    BY <1>1, <2>1, <2>2, <2>3 DEF TypeOK
<1> QED
  BY <1>1, TypeCorrect, TiledHolds, PTL
-----------------------------------------------------------------------------
(* Nothing that was done is undone, and something is done. *)
NoneUndone ==
    /\ \A i \in Task : Stage[task[i]] <= Stage[task'[i]] /\ at[i] <= at'[i]
    /\ \A i \in Task : analysis[i] = "ended" => analysis'[i] = "ended"
    /\ ended => ended'

SomeDone ==
    \/ \E i \in Task : Stage[task[i]] < Stage[task'[i]]
    \/ \E i \in Task : at[i] < at'[i] /\ at[i] < Len(Blank[Targets[i]])
    \/ \E i \in Task : analysis[i] # "ended" /\ analysis'[i] = "ended"
    \/ ~ended /\ ended'

LEMMA StagesAreNumbers ==
    ASSUME TypeOK, NEW i \in Task
    PROVE  Stage[task[i]] \in 0..4
<1>1. task[i] \in {"waiting", "running", "fallback", "returned", "done"}
  BY DEF TypeOK
<1> QED
  BY <1>1 DEF Stage

(* What is left, kind by kind. *)
LEMMA InWorkLeft ==
    ASSUME NEW w
    PROVE  w \in WorkLeft <=>
              \/ \E i \in Task : w \in StagesLeft(i) \/ w \in LinesLeft(i) \/ w \in AnalysesLeft(i)
              \/ w \in ReportLeft
<1>1. w \in WorkLeft <=> (\E i \in Task : w \in LeftOf(i)) \/ w \in ReportLeft
  <2>1. w \in UNION {LeftOf(i) : i \in Task} <=> \E S \in {LeftOf(i) : i \in Task} : w \in S
    OBVIOUS
  <2>2. \A S : S \in {LeftOf(i) : i \in Task} <=> \E i \in Task : S = LeftOf(i)
    OBVIOUS
  <2>3. w \in WorkLeft <=> w \in UNION {LeftOf(i) : i \in Task} \/ w \in ReportLeft
    BY DEF WorkLeft
  <2>4. (\E S \in {LeftOf(i) : i \in Task} : w \in S) <=> \E i \in Task : w \in LeftOf(i)
    BY Zenon, <2>2
  <2> QED
    BY Zenon, <2>1, <2>3, <2>4
<1> QED
  BY <1>1 DEF LeftOf

LEMMA ProgressShrinksWork ==
    ASSUME TypeOK, TypeOK', NoneUndone, SomeDone
    PROVE  WorkLeft' \subseteq WorkLeft /\ WorkLeft' # WorkLeft
<1>1. \A i \in Task : /\ Stage[task[i]] \in 0..4 /\ Stage[task'[i]] \in 0..4
                      /\ at[i] \in Nat /\ at'[i] \in Nat
                      /\ Len(Blank[Targets[i]]) \in Nat
  <2>1. \A i \in Task : Stage[task[i]] \in 0..4
    BY StagesAreNumbers
  <2>2. \A i \in Task : Stage[task'[i]] \in 0..4
    <3>1. \A i \in Task : task'[i] \in {"waiting", "running", "fallback", "returned", "done"}
      BY DEF TypeOK
    <3> QED
      BY <3>1 DEF Stage
  <2>3. \A i \in Task : at[i] \in Nat /\ at'[i] \in Nat
    BY DEF TypeOK
  <2> QED
    BY <2>1, <2>2, <2>3, LinesOfTarget
<1>2. \A w : w \in WorkLeft' <=>
          \/ \E i \in Task : w \in StagesLeft(i)' \/ w \in LinesLeft(i)' \/ w \in AnalysesLeft(i)'
          \/ w \in ReportLeft'
  <2>1. ASSUME NEW w
        PROVE  w \in UNION {LeftOf(i)' : i \in Task} <=> \E S \in {LeftOf(i)' : i \in Task} : w \in S
    OBVIOUS
  <2>2. \A S : S \in {LeftOf(i)' : i \in Task} <=> \E i \in Task : S = LeftOf(i)'
    OBVIOUS
  <2>3. \A w : w \in WorkLeft' <=> w \in UNION {LeftOf(i)' : i \in Task} \/ w \in ReportLeft'
    BY DEF WorkLeft
  <2>4. \A w : (\E S \in {LeftOf(i)' : i \in Task} : w \in S)
               <=> \E i \in Task : w \in LeftOf(i)'
    BY Zenon, <2>2
  <2>5. \A w : w \in WorkLeft' <=> (\E i \in Task : w \in LeftOf(i)') \/ w \in ReportLeft'
    BY Zenon, <2>1, <2>3, <2>4
  <2> QED
    BY <2>5 DEF LeftOf
<1>3. ASSUME NEW i \in Task
      PROVE  /\ StagesLeft(i)' \subseteq StagesLeft(i) /\ LinesLeft(i)' \subseteq LinesLeft(i)
             /\ AnalysesLeft(i)' \subseteq AnalysesLeft(i)
  <2>1. (Stage[task'[i]] + 1)..4 \subseteq (Stage[task[i]] + 1)..4
    BY <1>1 DEF NoneUndone
  <2>2. (at'[i] + 1)..Len(Blank[Targets[i]]) \subseteq (at[i] + 1)..Len(Blank[Targets[i]])
    BY <1>1 DEF NoneUndone
  <2> QED
    BY <2>1, <2>2 DEF NoneUndone, StagesLeft, LinesLeft, AnalysesLeft
<1>4. ReportLeft' \subseteq ReportLeft
  BY DEF NoneUndone, ReportLeft
<1>5. WorkLeft' \subseteq WorkLeft
  BY <1>2, <1>3, <1>4, InWorkLeft
<1>6. \A w : /\ \A i \in Task : w \notin StagesLeft(i)' /\ w \notin LinesLeft(i)'
                                /\ w \notin AnalysesLeft(i)'
             /\ w \notin ReportLeft'
             => w \notin WorkLeft'
  BY <1>2
<1>7. \A w : \A i \in Task :
        /\ w \in StagesLeft(i)' => w[1] = "stage" /\ w[2] = i /\ w[3] \in (Stage[task'[i]] + 1)..4
        /\ w \in LinesLeft(i)' =>
             w[1] = "line" /\ w[2] = i /\ w[3] \in (at'[i] + 1)..Len(Blank[Targets[i]])
        /\ w \in AnalysesLeft(i)' => w[1] = "analysis" /\ w[2] = i /\ analysis'[i] # "ended"
        /\ w \in ReportLeft' => w[1] = "report" /\ ~ended'
  BY DEF StagesLeft, LinesLeft, AnalysesLeft, ReportLeft
<1>8. CASE \E i \in Task : Stage[task[i]] < Stage[task'[i]]
  <2>1. PICK i \in Task : Stage[task[i]] < Stage[task'[i]]
    BY <1>8
  <2>2. Stage[task'[i]] \in (Stage[task[i]] + 1)..4 /\ Stage[task'[i]] \notin (Stage[task'[i]] + 1)..4
    BY <1>1, <2>1
  <2> DEFINE w == <<"stage", i, Stage[task'[i]]>>
  <2>3. w \in StagesLeft(i) /\ w[1] = "stage" /\ w[2] = i /\ w[3] = Stage[task'[i]]
    BY <2>2 DEF StagesLeft
  <2> HIDE DEF w
  <2>4. w \notin WorkLeft'
    BY <1>6, <1>7, <2>2, <2>3
  <2> QED
    BY <1>5, <2>3, <2>4, InWorkLeft
<1>9. CASE \E i \in Task : at[i] < at'[i] /\ at[i] < Len(Blank[Targets[i]])
  <2>1. PICK i \in Task : at[i] < at'[i] /\ at[i] < Len(Blank[Targets[i]])
    BY <1>9
  <2>2. /\ at[i] + 1 \in (at[i] + 1)..Len(Blank[Targets[i]])
        /\ at[i] + 1 \notin (at'[i] + 1)..Len(Blank[Targets[i]])
    BY <1>1, <2>1
  <2> DEFINE w == <<"line", i, at[i] + 1>>
  <2>3. w \in LinesLeft(i) /\ w[1] = "line" /\ w[2] = i /\ w[3] = at[i] + 1
    BY <2>2 DEF LinesLeft
  <2> HIDE DEF w
  <2>4. w \notin WorkLeft'
    BY <1>6, <1>7, <2>2, <2>3
  <2> QED
    BY <1>5, <2>3, <2>4, InWorkLeft
<1>10. CASE \E i \in Task : analysis[i] # "ended" /\ analysis'[i] = "ended"
  <2>1. PICK i \in Task : analysis[i] # "ended" /\ analysis'[i] = "ended"
    BY <1>10
  <2> DEFINE w == <<"analysis", i, 0>>
  <2>2. w \in AnalysesLeft(i) /\ w[1] = "analysis" /\ w[2] = i
    BY <2>1 DEF AnalysesLeft
  <2> HIDE DEF w
  <2>3. w \notin WorkLeft'
    BY <1>6, <1>7, <2>1, <2>2
  <2> QED
    BY <1>5, <2>2, <2>3, InWorkLeft
<1>11. CASE ~ended /\ ended'
  <2> DEFINE w == <<"report", 0, 0>>
  <2>1. w \in ReportLeft /\ w[1] = "report"
    BY <1>11 DEF ReportLeft
  <2> HIDE DEF w
  <2>2. w \notin ReportLeft'
    BY <1>11 DEF ReportLeft
  <2>3. w \notin WorkLeft'
    BY <1>6, <1>7, <2>1, <2>2
  <2> QED
    BY <1>5, <2>1, <2>3, InWorkLeft
<1> QED
  BY <1>5, <1>8, <1>9, <1>10, <1>11 DEF SomeDone

LEMMA StepsProgress ==
    ASSUME TypeOK, Stages, Next
    PROVE  NoneUndone /\ SomeDone
<1> USE DEF NoneUndone, SomeDone, Stage
<1>0. /\ \A i \in Task : Stage[task[i]] \in 0..4 /\ at[i] \in Nat
      /\ \A i \in Task : Len(Blank[Targets[i]]) \in Nat
  BY StagesAreNumbers, LinesOfTarget DEF TypeOK
<1>1. ASSUME NEW i \in Task, Begin(i) \/ BeginFails(i) PROVE NoneUndone /\ SomeDone
  <2>1. CASE Begin(i)
    BY <1>0, <2>1 DEF TypeOK, Stages, HeldAtEnd, Begin, Admitted
  <2>2. CASE BeginFails(i)
    BY <1>0, <2>2 DEF TypeOK, BeginFails, Admitted
  <2> QED
    BY <1>1, <2>1, <2>2
<1>2. ASSUME NEW i \in Task, AnalysisEnds(i) PROVE NoneUndone /\ SomeDone
  BY <1>0, <1>2 DEF TypeOK, AnalysisEnds
<1>3. ASSUME NEW i \in Task, Take(i) \/ TimeOut(i) PROVE NoneUndone /\ SomeDone
  BY <1>0, <1>3 DEF TypeOK, Take, TimeOut, Returns
<1>4. ASSUME NEW i \in Task, ScanChunk(i) PROVE NoneUndone /\ SomeDone
  <2>1. PICK e \in 1..Len(Blank[Targets[i]]) :
          EndsChunk(Blank[Targets[i]], at[i], e) /\ at' = [at EXCEPT ![i] = e]
    BY <1>4 DEF ScanChunk
  <2>2. at[i] < Len(Blank[Targets[i]]) /\ UNCHANGED <<task, analysis, ended>>
    BY <1>4 DEF ScanChunk
  <2>3. at[i] < e /\ e \in Nat
    BY <1>0, <2>1, <2>2, ChunkBounds, LinesOfTarget
  <2> QED
    BY <1>0, <2>1, <2>2, <2>3 DEF TypeOK
<1>5. ASSUME NEW i \in Task, FallbackReturns(i) \/ Finish(i) PROVE NoneUndone /\ SomeDone
  BY <1>0, <1>5 DEF TypeOK, FallbackReturns, Finish, Returns
<1>6. CASE Report
  BY <1>0, <1>6 DEF Report
<1> QED
  BY <1>1, <1>2, <1>3, <1>4, <1>5, <1>6 DEF Next, Scheduled

(* Every step of a scan takes something from a finite amount of work and   *)
(* adds nothing to it: no run of it goes on for ever.                      *)
THEOREM WorkIsFinished == Spec => WorkShrinks
<1>1. TypeOK /\ Stages /\ [Next]_vars =>
        [WorkLeft' \subseteq WorkLeft /\ WorkLeft' # WorkLeft]_vars
  <2> SUFFICES ASSUME TypeOK, Stages, Next
               PROVE  WorkLeft' \subseteq WorkLeft /\ WorkLeft' # WorkLeft
    OBVIOUS
  <2>1. TypeOK'
    BY TypeStep
  <2> QED
    BY <2>1, StepsProgress, ProgressShrinksWork
<1> QED
  BY <1>1, TypeCorrect, StagesHold, PTL DEF Spec, WorkShrinks

(* The work of a scan is a finite set, whatever the targets. *)
LEMMA WorkIsFinite == TypeOK => IsFiniteSet(WorkLeft)
<1> SUFFICES ASSUME TypeOK PROVE IsFiniteSet(WorkLeft)
  OBVIOUS
<1>1. IsFiniteSet(Task)
  BY FS_Interval, ScanAssumption DEF Task
<1>2. ASSUME NEW k, NEW i, NEW S, IsFiniteSet(S) PROVE IsFiniteSet({k} \X {i} \X S)
  <2> DEFINE all == {k} \X {i} \X S
             f == [n \in S |-> <<k, i, n>>]
  <2>1. f \in [S -> all]
    OBVIOUS
  <2>2. ASSUME NEW t \in all PROVE \E n \in S : f[n] = t
    <3>1. t[3] \in S /\ t = <<k, i, t[3]>>
      OBVIOUS
    <3>2. f[t[3]] = <<k, i, t[3]>>
      BY <3>1
    <3> QED
      BY <3>1, <3>2
  <2>3. f \in Surjection(S, all)
    BY <2>1, <2>2 DEF Surjection
  <2> QED
    BY <1>2, <2>3, FS_Surjection
<1>3. ASSUME NEW a \in Nat, NEW b \in Nat PROVE IsFiniteSet((a + 1)..b)
  BY FS_Interval
<1>4. ASSUME NEW i \in Task PROVE IsFiniteSet(LeftOf(i))
  <2>1. Stage[task[i]] \in Nat /\ at[i] \in Nat /\ Len(Blank[Targets[i]]) \in Nat
    <3>1. Stage[task[i]] \in 0..4
      BY StagesAreNumbers
    <3>2. at[i] \in Nat
      BY DEF TypeOK
    <3> QED
      BY <3>1, <3>2, LinesOfTarget
  <2>2. IsFiniteSet(StagesLeft(i))
    <3>1. IsFiniteSet((Stage[task[i]] + 1)..4)
      BY <1>3, <2>1
    <3> QED
      BY <1>2, <3>1 DEF StagesLeft
  <2>3. IsFiniteSet(LinesLeft(i))
    <3>1. IsFiniteSet((at[i] + 1)..Len(Blank[Targets[i]]))
      BY <1>3, <2>1
    <3> QED
      BY <1>2, <3>1 DEF LinesLeft
  <2>4. IsFiniteSet({"analysis"} \X {i} \X {0})
    BY <1>2, FS_Singleton
  <2>5. IsFiniteSet(AnalysesLeft(i))
    BY <2>4, FS_Subset DEF AnalysesLeft
  <2> QED
    BY <2>2, <2>3, <2>5, FS_Union DEF LeftOf
<1>5. IsFiniteSet(UNION {LeftOf(i) : i \in Task})
  <2> DEFINE all == {LeftOf(i) : i \in Task}
             f == [i \in Task |-> LeftOf(i)]
  <2>1. f \in Surjection(Task, all)
    BY DEF Surjection
  <2>2. IsFiniteSet(all)
    BY <1>1, <2>1, FS_Surjection
  <2>3. \A S \in all : IsFiniteSet(S)
    BY <1>4
  <2> QED
    BY <2>2, <2>3, FS_UNION
<1>6. IsFiniteSet({"report"} \X {0} \X {0})
  BY <1>2, FS_Singleton
<1>7. IsFiniteSet(ReportLeft)
  BY <1>6, FS_Subset DEF ReportLeft
<1> QED
  BY <1>5, <1>7, FS_Union DEF WorkLeft

(* The number of steps a scan has before it is bounded in every state, and *)
(* each step lowers the bound: with ScanGoesOn, a scan whose steps are     *)
(* taken ends.                                                             *)
THEOREM StepsRunOut ==
    Spec => /\ [](Cardinality(WorkLeft) \in Nat)
            /\ [][Cardinality(WorkLeft') < Cardinality(WorkLeft)]_vars
<1>1. TypeOK => Cardinality(WorkLeft) \in Nat
  BY WorkIsFinite, FS_CardinalityType
<1>2. /\ TypeOK /\ TypeOK'
      /\ [WorkLeft' \subseteq WorkLeft /\ WorkLeft' # WorkLeft]_vars
      => [Cardinality(WorkLeft') < Cardinality(WorkLeft)]_vars
  <2> SUFFICES ASSUME TypeOK, TypeOK', WorkLeft' \subseteq WorkLeft, WorkLeft' # WorkLeft
               PROVE  Cardinality(WorkLeft') < Cardinality(WorkLeft)
    OBVIOUS
  <2>1. IsFiniteSet(WorkLeft) /\ Cardinality(WorkLeft) \in Nat
    BY <1>1, WorkIsFinite
  <2>2. /\ IsFiniteSet(WorkLeft') /\ Cardinality(WorkLeft') <= Cardinality(WorkLeft)
        /\ Cardinality(WorkLeft) # Cardinality(WorkLeft')
    BY <2>1, FS_Subset
  <2>3. Cardinality(WorkLeft') \in Nat
    BY <2>2, FS_CardinalityType
  <2> QED
    BY <2>1, <2>2, <2>3
<1> QED
  BY <1>1, <1>2, TypeCorrect, WorkIsFinished, PTL DEF WorkShrinks
=============================================================================
