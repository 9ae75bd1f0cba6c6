-------------------------- MODULE SessionProofs ---------------------------
(***************************************************************************)
(* The two long-running modes.  What the language server guarantees for    *)
(* every number of documents and edits, whichever texts are empty or make   *)
(* the analyser raise; and that watch mode misses no change of any number   *)
(* of files, however many there are.                                       *)
(***************************************************************************)
EXTENDS LspServer, WatchMode, TLAPS

-----------------------------------------------------------------------------
(* The client saves the text it has sent. *)
LEMMA SaveKeepsDocs ==
    ASSUME TypeOK, NEW u \in Uris, DidSave(u, docs[u])
    PROVE  docs' = docs /\ runs \subseteq runs'
  BY DEF DidSave, TypeOK

LEMMA TypeStep == TypeOK /\ [Next]_vars => TypeOK'
<1> SUFFICES ASSUME TypeOK, [Next]_vars PROVE TypeOK'
  OBVIOUS
<1> USE LspAssumption DEF TypeOK, Text, Sent, Job, Run
<1>1. ASSUME NEW u \in Uris, DidChange(u) PROVE TypeOK'
  <2>1. edits + 1 \in Sent /\ edits + 1 \in Text
    BY <1>1 DEF DidChange
  <2>2. docs' \in [Uris -> Text] /\ edits' \in Text
    BY <1>1, <2>1 DEF DidChange
  <2>3. waiting' \subseteq Job /\ timer' \in Text /\ runs' \subseteq Run
    <3>1. CASE immediate
      BY <1>1, <2>1, <3>1 DEF DidChange, Schedule, Analysis
    <3>2. CASE ~immediate
      BY <1>1, <2>1, <3>2 DEF DidChange, Schedule
    <3> QED
      BY <3>1, <3>2
  <2> QED
    BY <1>1, <2>2, <2>3 DEF DidChange
<1>2. ASSUME NEW u \in Uris, DidSave(u, docs[u]) PROVE TypeOK'
  <2>1. docs' = docs /\ docs[u] \in Text
    BY <1>2 DEF DidSave
  <2>2. runs' \subseteq Run
    BY <1>2, <2>1 DEF DidSave, Analysis
  <2> QED
    BY <1>2, <2>1, <2>2 DEF DidSave
<1>3. CASE Shutdown
  BY <1>3 DEF Shutdown
<1>4. CASE Exit
  BY <1>4 DEF Exit
<1>5. ASSUME NEW w \in waiting, Fire(w) PROVE TypeOK'
  BY <1>5 DEF Fire, Analysis
<1>6. ASSUME NEW r \in runs, StoreFindings(r) PROVE TypeOK'
  BY <1>6 DEF StoreFindings
<1>7. ASSUME NEW r \in runs, Publish(r) PROVE TypeOK'
  BY <1>7 DEF Publish
<1>8. CASE UNCHANGED vars
  BY <1>8 DEF vars
<1> QED
  BY <1>1, <1>2, <1>3, <1>4, <1>5, <1>6, <1>7, <1>8 DEF Next, Threads

(* Every reachable state of the server is well typed: in particular no     *)
(* analysis is ever started of a document without a text.                  *)
THEOREM TypeCorrect == Spec => []TypeOK
<1>1. Init => TypeOK
  <2>1. 0 \in Text /\ 0 \in 0..MaxEdits
    BY LspAssumption DEF Text
  <2> QED
    BY <2>1 DEF Init, TypeOK
<1> QED
  BY <1>1, TypeStep, PTL DEF Spec

-----------------------------------------------------------------------------
(* The debouncer: its timer is the only one waiting and holds the text the *)
(* document has; without a delay no timer is ever started.                 *)
Debounced ==
    /\ OneWaiting /\ WaitingIsCurrent /\ ShutdownStopsTimers
    /\ immediate => waiting = {}

LEMMA DebouncedStep == TypeOK /\ Debounced /\ [Next]_vars => Debounced'
<1> SUFFICES ASSUME TypeOK, Debounced, [Next]_vars PROVE Debounced'
  OBVIOUS
<1> USE DEF Debounced, OneWaiting, WaitingIsCurrent, ShutdownStopsTimers
<1>1. ASSUME NEW u \in Uris, ~shutdown, DidChange(u) PROVE Debounced'
  <2>1. CASE immediate
    <3>1. waiting' = waiting /\ timer' = timer
      BY <1>1, <2>1 DEF DidChange, Schedule
    <3> QED
      BY <1>1, <2>1, <3>1 DEF DidChange
  <2>2. CASE ~immediate
    <3>1. waiting' = {[id |-> edits + 1, uri |-> u, text |-> edits + 1]}
      BY <1>1, <2>2 DEF DidChange, Schedule
    <3>2. /\ timer' = edits + 1 /\ docs'[u] = edits + 1 /\ shutdown' = FALSE
          /\ ~immediate'
      BY <1>1, <2>2 DEF DidChange, Schedule, TypeOK
    <3> QED
      BY <2>2, <3>1, <3>2
  <2> QED
    BY <2>1, <2>2
<1>2. ASSUME NEW u \in Uris, DidSave(u, docs[u]) PROVE Debounced'
  BY <1>2 DEF DidSave
<1>3. CASE Shutdown
  BY <1>3 DEF Shutdown
<1>4. CASE Exit
  BY <1>4 DEF Exit
<1>5. ASSUME NEW w \in waiting, Fire(w) PROVE Debounced'
  BY <1>5 DEF Fire
<1>6. ASSUME NEW r \in runs, StoreFindings(r) \/ Publish(r) PROVE Debounced'
  BY <1>6 DEF StoreFindings, Publish
<1>7. CASE UNCHANGED vars
  BY <1>7 DEF vars
<1> QED
  BY <1>1, <1>2, <1>3, <1>4, <1>5, <1>6, <1>7 DEF Next, Threads

LEMMA DebouncedAlways == Spec => []Debounced
<1>1. Init => Debounced
  BY DEF Init, Debounced, OneWaiting, WaitingIsCurrent, ShutdownStopsTimers
<1> QED
  BY <1>1, TypeCorrect, DebouncedStep, PTL DEF Spec

(* schedule() never leaves two timers waiting, so cancel() reaches all.    *)
THEOREM OneTimer == Spec => []OneWaiting
<1>1. Debounced => OneWaiting
  BY DEF Debounced
<1> QED
  BY <1>1, DebouncedAlways, PTL

(* The analysis a waiting timer will start is of the current text.         *)
THEOREM NoStaleTimer == Spec => []WaitingIsCurrent
<1>1. Debounced => WaitingIsCurrent
  BY DEF Debounced
<1> QED
  BY <1>1, DebouncedAlways, PTL

(* After "shutdown" no analysis starts, whatever was scheduled before.     *)
THEOREM NothingAfterShutdown == Spec => []ShutdownStopsTimers
<1>1. Debounced => ShutdownStopsTimers
  BY DEF Debounced
<1> QED
  BY <1>1, DebouncedAlways, PTL

-----------------------------------------------------------------------------
(* LastEditAnalysed is not inductive: this says where the text is while    *)
(* its diagnostics are still to come, and that no document has a later one. *)
Reaches(u) ==
    \/ docs[u] \in covered[u]
    \/ \E w \in waiting : w.uri = u /\ w.text = docs[u]
    \/ \E r \in runs : r.uri = u /\ r.text = docs[u]

NoEditLost ==
    /\ \A u \in Uris : docs[u] <= edits
    /\ alive /\ ~shutdown => \A u \in Uris : docs[u] = edits /\ edits # 0 => Reaches(u)

LEMMA DocsStep ==
    TypeOK /\ (\A u \in Uris : docs[u] <= edits) /\ [Next]_vars
        => (\A u \in Uris : docs[u] <= edits)'
<1> SUFFICES ASSUME TypeOK, \A u \in Uris : docs[u] <= edits, [Next]_vars, NEW d \in Uris
             PROVE  docs'[d] <= edits'
  OBVIOUS
<1>1. ASSUME NEW u \in Uris, DidChange(u) PROVE docs'[d] <= edits'
  <2>1. docs'[d] = (IF d = u THEN edits + 1 ELSE docs[d]) /\ edits' = edits + 1 /\ edits \in Nat
    BY <1>1, LspAssumption DEF DidChange, TypeOK
  <2>2. docs[d] \in Nat
    BY LspAssumption DEF TypeOK, Text
  <2> QED
    BY <2>1, <2>2
<1>2. UNCHANGED <<docs, edits>> => docs'[d] <= edits'
  OBVIOUS
<1>3. ASSUME NEW u \in Uris, DidSave(u, docs[u]) PROVE docs'[d] <= edits'
  BY <1>2, <1>3, SaveKeepsDocs DEF DidSave
<1> QED
  BY <1>1, <1>2, <1>3 DEF Next, Shutdown, Exit, Threads, Fire, StoreFindings, Publish, vars

LEMMA NoEditLostStep == TypeOK /\ NoEditLost /\ [Next]_vars => NoEditLost'
<1> SUFFICES ASSUME TypeOK, NoEditLost, [Next]_vars, alive', ~shutdown',
                    NEW d \in Uris, docs'[d] = edits', edits' # 0
             PROVE  Reaches(d)'
  BY DocsStep DEF NoEditLost
<1> USE DEF Reaches
<1>0. ASSUME docs' = docs, edits' = edits, alive, ~shutdown PROVE Reaches(d)
  BY <1>0 DEF NoEditLost
<1>1. ASSUME NEW u \in Uris, DidChange(u) PROVE Reaches(d)'
  <2>1. d = u /\ docs'[d] = edits + 1
    <3>1. edits' = edits + 1 /\ docs' = [docs EXCEPT ![u] = edits + 1] /\ edits \in Nat
      BY <1>1, LspAssumption DEF DidChange, TypeOK
    <3>2. docs[d] <= edits /\ docs[d] \in Nat
      BY LspAssumption DEF NoEditLost, TypeOK, Text
    <3> QED
      BY <3>1, <3>2 DEF TypeOK
  <2>2. CASE immediate
    <3>1. Analysis(0, u, edits + 1) \in runs'
      BY <1>1, <2>2 DEF DidChange, Schedule
    <3> QED
      BY <2>1, <3>1 DEF Analysis
  <2>3. CASE ~immediate
    <3>1. [id |-> edits + 1, uri |-> u, text |-> edits + 1] \in waiting'
      BY <1>1, <2>3 DEF DidChange, Schedule
    <3> QED
      BY <2>1, <3>1
  <2> QED
    BY <2>2, <2>3
<1>2. ASSUME NEW u \in Uris, DidSave(u, docs[u]) PROVE Reaches(d)'
  <2>1. Reaches(d)
    BY <1>0, <1>2, SaveKeepsDocs DEF DidSave
  <2> QED
    BY <1>2, <2>1, SaveKeepsDocs DEF DidSave
<1>3. CASE Shutdown \/ Exit
  BY <1>3 DEF Shutdown, Exit
<1>4. ASSUME NEW w \in waiting, Fire(w) PROVE Reaches(d)'
  <2>1. Reaches(d)
    BY <1>0, <1>4 DEF Fire
  <2>2. Analysis(w.id, w.uri, w.text) \in runs'
    BY <1>4 DEF Fire
  <2> QED
    BY <1>4, <2>1, <2>2 DEF Fire, Analysis
<1>5. ASSUME NEW r \in runs, StoreFindings(r) PROVE Reaches(d)'
  <2>1. Reaches(d)
    BY <1>0, <1>5 DEF StoreFindings
  <2>2. /\ [r EXCEPT !.step = "publish"] \in runs'
        /\ [r EXCEPT !.step = "publish"].uri = r.uri
        /\ [r EXCEPT !.step = "publish"].text = r.text
    BY <1>5 DEF StoreFindings, TypeOK, Run
  <2> QED
    BY <1>5, <2>1, <2>2 DEF StoreFindings
<1>6. ASSUME NEW r \in runs, Publish(r) PROVE Reaches(d)'
  <2>1. Reaches(d)
    BY <1>0, <1>6 DEF Publish
  <2>2. /\ d = r.uri => r.text \in covered'[d]
        /\ covered[d] \subseteq covered'[d]
    BY <1>6 DEF Publish, TypeOK, Run
  <2>3. docs' = docs /\ waiting' = waiting /\ runs' = runs \ {r}
    BY <1>6 DEF Publish
  <2> QED
    BY <2>1, <2>2, <2>3
<1>7. CASE UNCHANGED vars
  BY <1>0, <1>7 DEF vars
<1> QED
  BY <1>1, <1>2, <1>3, <1>4, <1>5, <1>6, <1>7 DEF Next, Threads

(* Of any number of documents, no interleaving of edits, saves, timers and  *)
(* failing analyses leaves the one edited last without diagnostics.        *)
THEOREM LastEditCovered == Spec => []LastEditAnalysed
<1>1. Init => NoEditLost
  BY DEF Init, NoEditLost
<1>2. NoEditLost => LastEditAnalysed
  BY DEF NoEditLost, Reaches, LastEditAnalysed, Quiet
<1> QED
  BY <1>1, <1>2, TypeCorrect, NoEditLostStep, PTL DEF Spec

(* With one document, none: the document is always the one edited last.    *)
THEOREM OneDocumentCovered ==
    ASSUME \A u, v \in Uris : u = v
    PROVE  Spec => []EveryTextAnalysed
<1> DEFINE Only == \A u \in Uris : docs[u] = edits
<1>1. Init => Only
  BY DEF Init
<1>2. TypeOK /\ Only /\ [Next]_vars => Only'
  <2>1. ASSUME TypeOK, Only, NEW u \in Uris, DidChange(u) PROVE Only'
    BY <2>1 DEF DidChange, TypeOK
  <2>2. UNCHANGED <<docs, edits>> /\ Only => Only'
    OBVIOUS
  <2> HIDE DEF Only
  <2>3. ASSUME TypeOK, Only, NEW u \in Uris, DidSave(u, docs[u]) PROVE Only'
    BY <2>2, <2>3, SaveKeepsDocs DEF DidSave
  <2> QED
    BY <2>1, <2>2, <2>3 DEF Next, Shutdown, Exit, Threads, Fire, StoreFindings, Publish, vars
<1>3. Only /\ LastEditAnalysed => EveryTextAnalysed
  BY DEF LastEditAnalysed, EveryTextAnalysed
<1> HIDE DEF Only
<1> QED
  BY <1>1, <1>2, <1>3, TypeCorrect, LastEditCovered, PTL DEF Spec

-----------------------------------------------------------------------------
(* Without a delay everything happens in the message thread: one analysis  *)
(* at a time, of the current text, and what is cached and shown is current *)
(* except for the document in hand.                                        *)
UpToDate(u) ==
    /\ shown[u] = docs[u]
    /\ found[u] = docs[u] \/ docs[u] \in Failing

Sequential ==
    /\ waiting = {}
    /\ \A r, q \in runs : r = q
    /\ \A r \in runs : r.id = 0 /\ r.text = docs[r.uri]
    /\ \A r \in runs : r.step = "publish" => found[r.uri] = r.text \/ r.text \in Failing
    /\ \A u \in Uris : (\A r \in runs : r.uri # u) => UpToDate(u)

(* The process has ended, its threads with it. *)
Ended == ~alive /\ runs = {} /\ waiting = {}

LEMMA SequentialStep ==
    TypeOK /\ immediate /\ Sequential /\ [Next]_vars => Sequential' \/ Ended'
<1> SUFFICES ASSUME TypeOK, immediate, Sequential, [Next]_vars
             PROVE  Sequential' \/ Ended'
  OBVIOUS
<1> USE DEF Sequential, UpToDate
<1>1. ASSUME NEW u \in Uris, DidChange(u) PROVE Sequential'
  <2>1. runs = {} /\ runs' = {Analysis(0, u, edits + 1)}
    BY <1>1 DEF DidChange, Reading, Schedule
  <2> QED
    BY <1>1, <2>1 DEF DidChange, Schedule, Analysis, TypeOK
<1>2. ASSUME NEW u \in Uris, DidSave(u, docs[u]) PROVE Sequential'
  <2>1. docs' = docs /\ runs = {} /\ runs' \in {{}, {Analysis(0, u, docs[u])}}
    BY <1>2 DEF DidSave, Reading, TypeOK
  <2> QED
    BY <1>2, <2>1 DEF DidSave, Analysis, TypeOK
<1>3. CASE Shutdown
  BY <1>3 DEF Shutdown
<1>4. CASE Exit
  BY <1>4 DEF Exit, Ended
<1>5. ASSUME NEW w \in waiting, Fire(w) PROVE Sequential'
  BY <1>5
<1>6. ASSUME NEW r \in runs, StoreFindings(r) PROVE Sequential'
  <2> DEFINE q == [r EXCEPT !.step = "publish"]
  <2>1. runs = {r} /\ runs' = {q}
    BY <1>6 DEF StoreFindings
  <2>2. q.id = r.id /\ q.uri = r.uri /\ q.text = r.text /\ r.uri \in Uris
    BY DEF TypeOK, Run
  <2>3. found'[r.uri] = r.text \/ r.text \in Failing
    BY <1>6, <2>2 DEF StoreFindings, TypeOK
  <2>4. ASSUME NEW u \in Uris, u # r.uri PROVE UpToDate(u)'
    <3>1. UpToDate(u)
      BY <2>1, <2>4
    <3>2. found'[u] = found[u]
      BY <1>6, <2>4 DEF StoreFindings, TypeOK
    <3> QED
      BY <1>6, <3>1, <3>2 DEF StoreFindings
  <2> HIDE DEF q
  <2> QED
    BY <1>6, <2>1, <2>2, <2>3, <2>4 DEF StoreFindings
<1>7. ASSUME NEW r \in runs, Publish(r) PROVE Sequential'
  <2>1. runs' = {}
    BY <1>7 DEF Publish
  <2>2. r \in Run
    BY DEF TypeOK
  <2> QED
    BY <1>7, <2>1, <2>2 DEF Publish, TypeOK, Run
<1>8. CASE UNCHANGED vars
  BY <1>8 DEF vars
<1> QED
  BY <1>1, <1>2, <1>3, <1>4, <1>5, <1>6, <1>7, <1>8 DEF Next, Threads

LEMMA ModeKept == [Next]_vars => immediate' = immediate
  BY DEF Next, DidChange, DidSave, Shutdown, Exit, Threads, Fire, StoreFindings, Publish, vars

LEMMA EndedStep == Ended /\ [Next]_vars => Ended'
  BY DEF Ended, Next, DidChange, DidSave, Shutdown, Exit, Threads, Fire,
         StoreFindings, Publish, Reading, vars

(* Without a delay, what is displayed and what hovers and code actions use *)
(* is current whenever the loop waits for a message, for any number of     *)
(* documents.                                                              *)
THEOREM ImmediateIsCurrent == Spec => []ShownIsCurrent
<1> DEFINE Inv == immediate => Sequential \/ Ended
<1>1. Init => Inv
  BY DEF Init, Sequential, UpToDate
<1>2. TypeOK /\ Inv /\ [Next]_vars => Inv'
  BY SequentialStep, EndedStep, ModeKept
<1>3. Inv => ShownIsCurrent
  BY DEF ShownIsCurrent, Quiet, Sequential, UpToDate, Ended
<1> HIDE DEF Inv
<1> QED
  BY <1>1, <1>2, <1>3, TypeCorrect, PTL DEF Spec

-----------------------------------------------------------------------------
(* Watch mode. *)
(* Times noted are times that were given. *)
TimesInv ==
    /\ changes \in Nat
    /\ stamp \in [Files -> 0 .. changes]
    /\ disk \in [Files -> Texts \cup {Gone}]
    /\ \A f \in DOMAIN mtimes : mtimes[f] \in 0 .. changes

(* Only what is to be analysed is read, and nothing is left to analyse between
   two rounds of the loop. *)
RoundInv ==
    /\ written \subseteq Files /\ changed \subseteq Files
    /\ printed \in [Files -> [text : Texts \cup {Gone, "never"}, givenUp : BOOLEAN]]
    /\ \A f \in Chunked : ~printed[f].givenUp
    /\ pc = "start" => written = {}
    /\ pc \in {"start", "collect"} => changed = {}
    /\ reading # Nothing =>
          /\ pc = "analyse" /\ reading.file \in changed
          /\ reading.text \in Texts \cup {Gone} /\ reading.givenUp \in BOOLEAN
          /\ reading.file \in Chunked => ~reading.givenUp

(* A text that was overtaken while it was analysed will be noticed. *)
ReadInv ==
    reading # Nothing =>
        \/ reading.text = disk[reading.file]
        \/ reading.file \in DOMAIN mtimes => mtimes[reading.file] # stamp[reading.file]

WatchInv == TimesInv /\ RoundInv /\ ReadInv /\ NothingMissed

LEMMA WatchStarts == WatchInit => WatchInv
<1> SUFFICES ASSUME WatchInit PROVE WatchInv
  OBVIOUS
<1> USE DEF WatchInit
<1>1. TimesInv
  BY DEF TimesInv
<1>2. RoundInv
  BY WatchAssumption DEF RoundInv
<1>3. ReadInv /\ NothingMissed
  BY DEF ReadInv, NothingMissed
<1> QED
  BY <1>1, <1>2, <1>3 DEF WatchInv

LEMMA LoopStep == WatchInv /\ (Loop \/ TimeOut) => WatchInv'
<1> SUFFICES ASSUME WatchInv, Loop \/ TimeOut PROVE WatchInv'
  OBVIOUS
<1> USE DEF WatchInv
<1>1. UNCHANGED diskVars
  BY DEF Loop, NoteAtStart, Sleep, Collect, Stat, Forget, Read, Show, TimeOut
<1>2. UNCHANGED <<disk, stamp, changes, written>> /\ Present' = Present
  BY <1>1 DEF diskVars, Present
<1> DEFINE After(f) == /\ DOMAIN mtimes' = DOMAIN mtimes \cup {f} /\ mtimes'[f] = stamp[f]
                       /\ \A g \in DOMAIN mtimes : g # f => mtimes'[g] = mtimes[g]
<1>0. ASSUME NEW f \in Files, mtimes' = Noted(f, stamp[f]) PROVE After(f) /\ TimesInv'
  <2>1. After(f)
    BY <1>0 DEF Noted
  <2>2. stamp[f] \in 0 .. changes
    BY DEF TimesInv
  <2>3. \A g \in DOMAIN mtimes' : mtimes'[g] \in 0 .. changes
    BY <2>1, <2>2 DEF TimesInv
  <2> QED
    BY <1>2, <2>1, <2>3 DEF TimesInv
<1>3. ASSUME NEW f \in Files, NoteAtStart(f) PROVE WatchInv'
  <2>1. written = {} /\ reading = Nothing
    BY <1>3 DEF NoteAtStart, RoundInv
  <2>2. TimesInv'
    <3>1. CASE mtimes' = Noted(f, stamp[f])
      BY <1>0, <3>1
    <3>2. CASE mtimes' = mtimes
      BY <1>2, <3>2 DEF TimesInv
    <3> QED
      BY <1>3, <3>1, <3>2 DEF NoteAtStart
  <2> QED
    BY <1>2, <1>3, <2>1, <2>2 DEF NoteAtStart, RoundInv, ReadInv, NothingMissed
<1>4. ASSUME Sleep \/ Collect PROVE WatchInv'
  <2>1. UNCHANGED <<mtimes, reading, printed>> /\ changed' = changed /\ reading = Nothing
    BY <1>4 DEF Sleep, Collect, RoundInv
  <2> QED
    BY <1>2, <1>4, <2>1 DEF Sleep, Collect, TimesInv, RoundInv, ReadInv, NothingMissed, Reported
<1>5. ASSUME NEW f \in Files, Stat(f) PROVE WatchInv'
  <2>1. UNCHANGED <<pc, reading, printed>> /\ reading = Nothing /\ pc = "stat"
    BY <1>5 DEF Stat, RoundInv
  <2>2. CASE mtimes' = mtimes /\ changed' = changed
    BY <1>2, <2>1, <2>2 DEF TimesInv, RoundInv, ReadInv, NothingMissed, Reported
  <2>3. CASE mtimes' = Noted(f, stamp[f]) /\ changed' = changed \cup {f}
    <3>1. TimesInv' /\ After(f)
      BY <1>0, <2>3
    <3>2. RoundInv' /\ ReadInv'
      BY <1>2, <2>1, <2>3 DEF RoundInv, ReadInv
    <3>3. NothingMissed'
      <4> SUFFICES ASSUME NEW g \in written \cap Present
                   PROVE  \/ Reported(g, disk[g])' \/ g \in changed'
                          \/ g \in DOMAIN mtimes' => mtimes'[g] # stamp[g]
        BY <1>2, <2>1 DEF NothingMissed, Reported
      <4>1. CASE g = f
        BY <2>3, <4>1
      <4>2. CASE g # f
        BY <1>2, <2>1, <2>3, <3>1, <4>2 DEF NothingMissed, Reported
      <4> QED
        BY <4>1, <4>2
    <3> QED
      BY <3>1, <3>2, <3>3
  <2> QED
    BY <1>5, <2>2, <2>3 DEF Stat
<1>6. ASSUME Forget PROVE WatchInv'
  <2>1. UNCHANGED <<changed, reading, printed>> /\ reading = Nothing
        /\ pc' = IF changed = {} THEN "collect" ELSE "analyse"
    BY <1>6 DEF Forget, RoundInv
  <2>2. /\ DOMAIN mtimes' \subseteq DOMAIN mtimes
        /\ \A f \in DOMAIN mtimes' : mtimes'[f] = mtimes[f]
    BY <1>6 DEF Forget, Restrict
  <2> QED
    BY <1>2, <2>1, <2>2 DEF TimesInv, RoundInv, ReadInv, NothingMissed, Reported
<1>7. ASSUME NEW f \in Files, Read(f) PROVE WatchInv'
  <2>1. /\ UNCHANGED <<pc, mtimes, changed, printed>> /\ pc = "analyse" /\ f \in changed
        /\ reading' = [file |-> f, text |-> disk[f], givenUp |-> FALSE]
    BY <1>7 DEF Read
  <2>2. reading'.file = f /\ reading'.text = disk[f] /\ ~reading'.givenUp
    BY <2>1
  <2>3. disk[f] \in Texts \cup {Gone}
    BY DEF TimesInv
  <2> QED
    BY <1>2, <2>1, <2>2, <2>3 DEF TimesInv, RoundInv, ReadInv, NothingMissed, Reported
<1>8. ASSUME TimeOut PROVE WatchInv'
  <2>1. UNCHANGED <<pc, mtimes, changed, printed>> /\ reading # Nothing
    BY <1>8 DEF TimeOut
  <2>2. /\ reading'.file = reading.file /\ reading'.text = disk[reading.file]
        /\ reading'.givenUp = (reading.file \notin Chunked)
    BY <1>8, <2>1 DEF TimeOut, RoundInv, Read
  <2>3. reading.file \in Files /\ disk[reading.file] \in Texts \cup {Gone}
    BY <2>1 DEF TimesInv, RoundInv
  <2>4. TimesInv' /\ RoundInv'
    BY <1>2, <2>1, <2>2, <2>3 DEF TimesInv, RoundInv
  <2>5. ReadInv' /\ NothingMissed'
    BY <1>2, <2>1, <2>2 DEF ReadInv, NothingMissed, Reported
  <2> QED
    BY <2>4, <2>5
<1>9. ASSUME Show PROVE WatchInv'
  <2> DEFINE r == reading.file
  <2>1. /\ printed' = [printed EXCEPT ![r] = Outcome]
        /\ changed' = changed \ {r} /\ reading' = Nothing /\ reading # Nothing
        /\ pc' = IF changed' = {} THEN "collect" ELSE pc
        /\ mtimes' = mtimes
    BY <1>9 DEF Show
  <2>2. /\ r \in Files /\ r \in changed /\ pc = "analyse" /\ reading.text \in Texts \cup {Gone}
        /\ reading.givenUp \in BOOLEAN /\ r \in Chunked => ~reading.givenUp
    BY <2>1 DEF RoundInv
  <2>3. /\ printed'[r].text = reading.text /\ printed'[r].givenUp = reading.givenUp
        /\ \A f \in Files : f # r => printed'[f] = printed[f]
        /\ printed' \in [Files -> [text : Texts \cup {Gone, "never"}, givenUp : BOOLEAN]]
    BY <2>1, <2>2 DEF RoundInv, Outcome
  <2>4. TimesInv' /\ ReadInv'
    BY <1>2, <2>1, <2>2 DEF TimesInv, ReadInv
  <2>5. RoundInv'
    BY <1>2, <2>1, <2>2, <2>3, WatchAssumption DEF RoundInv
  <2>6. NothingMissed'
    <3> SUFFICES ASSUME NEW g \in written \cap Present
                 PROVE  \/ Reported(g, disk[g])' \/ g \in changed'
                        \/ g \in DOMAIN mtimes => mtimes[g] # stamp[g]
      BY <1>2, <2>1 DEF NothingMissed, Reported
    <3>1. CASE g = r
      BY <1>2, <2>2, <2>3, <3>1, <2>1 DEF ReadInv, Reported
    <3>2. CASE g # r
      <4>1. g \in Files
        BY DEF Present
      <4> QED
        BY <1>2, <2>1, <2>3, <3>2, <4>1 DEF NothingMissed, Reported
    <3> QED
      BY <3>1, <3>2
  <2> QED
    BY <2>4, <2>5, <2>6
<1> QED
  BY <1>3, <1>4, <1>5, <1>6, <1>7, <1>8, <1>9 DEF Loop

LEMMA ChangeStep ==
    ASSUME WatchInv, ~Coarse, NEW f \in Files, NEW t \in Texts \cup {Gone}, Change(f, t)
    PROVE  WatchInv'
<1> USE DEF WatchInv
<1>1. /\ changes' = changes + 1 /\ disk' = [disk EXCEPT ![f] = t]
      /\ stamp' = [stamp EXCEPT ![f] = changes + 1]
      /\ written' = (IF pc = "start" THEN written ELSE written \cup {f})
      /\ UNCHANGED <<pc, current, todo, mtimes, changed, reading, printed>>
  BY DEF Change, loopVars
<1>2. f \in DOMAIN mtimes => mtimes[f] # stamp'[f]
  BY <1>1 DEF TimesInv
<1>3. \A g \in Files : g # f => stamp'[g] = stamp[g] /\ disk'[g] = disk[g]
  BY <1>1 DEF TimesInv
<1>4. TimesInv'
  BY <1>1 DEF TimesInv
<1>5. RoundInv'
  BY <1>1 DEF RoundInv
<1>6. ReadInv'
  BY <1>1, <1>2, <1>3 DEF ReadInv, RoundInv
<1>7. NothingMissed'
  <2> SUFFICES ASSUME NEW g \in written' \cap Present'
               PROVE  \/ Reported(g, disk'[g]) \/ g \in changed
                      \/ g \in DOMAIN mtimes => mtimes[g] # stamp'[g]
    BY <1>1 DEF NothingMissed, Reported
  <2>1. CASE g = f
    BY <1>2, <2>1
  <2>2. CASE g # f
    BY <1>1, <1>3, <2>2 DEF NothingMissed, Reported, Present
  <2> QED
    BY <2>1, <2>2
<1> QED
  BY <1>4, <1>5, <1>6, <1>7

(* Where every change has a time of its own, the loop misses none. *)
THEOREM ChangesStayNoticed == ASSUME ~Coarse PROVE WatchSpec => []NothingMissed
<1>1. WatchInv /\ [WatchNext]_watchVars => WatchInv'
  <2>1. WatchInv /\ UNCHANGED watchVars => WatchInv'
    BY DEF watchVars, diskVars, loopVars, WatchInv, TimesInv, RoundInv, ReadInv, NothingMissed,
           Reported, Present
  <2> QED
    BY <2>1, LoopStep, ChangeStep DEF WatchNext
<1>2. WatchInv => NothingMissed
  BY DEF WatchInv
<1> QED
  BY <1>1, <1>2, WatchStarts, PTL DEF WatchSpec
=============================================================================
