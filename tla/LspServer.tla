------------------------------ MODULE LspServer ------------------------------
(***************************************************************************)
(* guardmarly/lsp_server.py: the message loop (main thread), the debouncer *)
(* it shares between all documents, and the timer threads that analyse.    *)
(*                                                                         *)
(* A text is its version number: the n-th text the client sent for a       *)
(* document, 0 while it has none.  An analysis (a run) of a text stores    *)
(* its findings, then publishes: the two steps of _analyze_and_publish     *)
(* other threads can come between.  Messages are dispatched one at a time, *)
(* so a save, which analyses on the main thread, blocks the loop.          *)
(*                                                                         *)
(* The client conforms to the protocol: the text of a didSave is the one it *)
(* last synchronised, and only "exit" follows "shutdown".  Initialize, code     *)
(* actions and hovers read the state and change nothing.                   *)
(***************************************************************************)
EXTENDS Naturals, FiniteSets

CONSTANTS
    Uris,        \* documents
    MaxEdits,    \* bound on the didOpen/didChange notifications of a run
    Blank,       \* texts that are the empty string
    Failing      \* texts the analyser raises on

ASSUME LspAssumption ==
    /\ MaxEdits \in Nat
    /\ Blank \subseteq Nat \ {0}
    /\ Failing \subseteq Nat \ {0}

VARIABLES
    docs,      \* _docs
    found,     \* _findings_cache: the text whose findings are cached, or 0
    waiting,   \* debounce timers that have neither fired nor been cancelled
    timer,     \* id of the timer _debouncer._timer refers to, 0 for None
    runs,      \* analyses in progress; the main thread's has id 0
    edits,     \* didOpen/didChange notifications dispatched so far
    shutdown,  \* _shutdown
    alive,     \* the process has not ended
    shown,     \* what the client displays: the text published last, or 0
    covered,   \* history: every text published
    immediate  \* _delay = 0.0: schedule() calls the function itself

vars == <<docs, found, waiting, timer, runs, edits, shutdown, alive, shown, covered, immediate>>

Text == 0..MaxEdits
Sent == 1..MaxEdits
Job == [id : Sent, uri : Uris, text : Sent]
Run == [id : Text, uri : Uris, text : Sent, step : {"analyse", "publish"}]

Analysis(id, u, t) == [id |-> id, uri |-> u, text |-> t, step |-> "analyse"]

(* The main thread is back in read_message. *)
Reading == alive /\ \A r \in runs : r.id # 0

Init ==
    /\ docs = [u \in Uris |-> 0]
    /\ found = [u \in Uris |-> 0]
    /\ waiting = {}
    /\ timer = 0
    /\ runs = {}
    /\ edits = 0
    /\ shutdown = FALSE
    /\ alive = TRUE
    /\ shown = [u \in Uris |-> 0]
    /\ covered = [u \in Uris |-> {}]
    /\ immediate \in BOOLEAN

-------------------------------------------------------------------------------
(* Mutant: leading edge, a timer already waiting is kept. *)
ScheduleKeepPending(u, t) ==
    IF waiting # {} THEN UNCHANGED <<waiting, timer, runs>>
    ELSE /\ waiting' = {[id |-> edits + 1, uri |-> u, text |-> t]}
         /\ timer' = edits + 1
         /\ UNCHANGED runs

(* _Debouncer.schedule: cancel() stops the timer only while it is waiting. *)
Schedule(u, t) ==
    IF immediate
    THEN /\ runs' = runs \cup {Analysis(0, u, t)}
         /\ UNCHANGED <<waiting, timer>>
    ELSE /\ waiting' = {w \in waiting : w.id # timer}
                         \cup {[id |-> edits + 1, uri |-> u, text |-> t]}
         /\ timer' = edits + 1
         /\ UNCHANGED runs

(* Mutant: the document is analysed as it was before the change. *)
DidChangeOldText(u) ==
    /\ Reading /\ edits < MaxEdits
    /\ docs' = [docs EXCEPT ![u] = edits + 1]
    /\ Schedule(u, docs[u])
    /\ edits' = edits + 1
    /\ UNCHANGED <<found, shutdown, alive, shown, covered, immediate>>

(* _handle_did_open and _handle_did_change do the same with the new text. *)
DidChange(u) ==
    /\ Reading /\ edits < MaxEdits
    /\ docs' = [docs EXCEPT ![u] = edits + 1]
    /\ Schedule(u, edits + 1)
    /\ edits' = edits + 1
    /\ UNCHANGED <<found, shutdown, alive, shown, covered, immediate>>

(* _handle_did_save: t is the text the message carries, or the one already in
   docs when it carries none; it is analysed at once unless it is empty. *)
DidSave(u, t) ==
    /\ Reading
    /\ docs' = [docs EXCEPT ![u] = t]
    /\ runs' = IF t \in Blank \cup {0} THEN runs ELSE runs \cup {Analysis(0, u, t)}
    /\ UNCHANGED <<found, waiting, timer, edits, shutdown, alive, shown, covered, immediate>>

(* Mutant: shutdown leaves the debouncer alone. *)
ShutdownNoCancel ==
    /\ Reading
    /\ shutdown' = TRUE
    /\ UNCHANGED <<docs, found, waiting, timer, runs, edits, alive, shown, covered, immediate>>

Shutdown ==
    /\ Reading
    /\ shutdown' = TRUE
    /\ waiting' = {w \in waiting : w.id # timer}
    /\ timer' = 0
    /\ UNCHANGED <<docs, found, runs, edits, alive, shown, covered, immediate>>

(* "exit", or end of input: timer threads are daemons and die with it. *)
Exit ==
    /\ Reading
    /\ alive' = FALSE
    /\ waiting' = {}
    /\ runs' = {}
    /\ UNCHANGED <<docs, found, timer, edits, shutdown, shown, covered, immediate>>

-------------------------------------------------------------------------------
(* The delay is over: the timer's thread starts the analysis. *)
Fire(w) ==
    /\ waiting' = waiting \ {w}
    /\ runs' = runs \cup {Analysis(w.id, w.uri, w.text)}
    /\ UNCHANGED <<docs, found, timer, edits, shutdown, alive, shown, covered, immediate>>

(* The analyser answers and its findings are cached, or it raises. *)
StoreFindings(r) ==
    /\ r.step = "analyse"
    /\ found' = IF r.text \in Failing THEN found ELSE [found EXCEPT ![r.uri] = r.text]
    /\ runs' = (runs \ {r}) \cup {[r EXCEPT !.step = "publish"]}
    /\ UNCHANGED <<docs, waiting, timer, edits, shutdown, alive, shown, covered, immediate>>

(* Mutant: an analysis that raised publishes nothing. *)
PublishIfOk(r) ==
    /\ r.step = "publish"
    /\ runs' = runs \ {r}
    /\ IF r.text \in Failing THEN UNCHANGED <<shown, covered, immediate>>
       ELSE /\ shown' = [shown EXCEPT ![r.uri] = r.text]
            /\ covered' = [covered EXCEPT ![r.uri] = @ \cup {r.text}]
    /\ UNCHANGED <<docs, found, waiting, timer, edits, shutdown, alive, immediate>>

(* The finally clause: diagnostics go out, empty ones after an error. *)
Publish(r) ==
    /\ r.step = "publish"
    /\ runs' = runs \ {r}
    /\ shown' = [shown EXCEPT ![r.uri] = r.text]
    /\ covered' = [covered EXCEPT ![r.uri] = @ \cup {r.text}]
    /\ UNCHANGED <<docs, found, waiting, timer, edits, shutdown, alive, immediate>>

Threads ==
    \/ \E w \in waiting : Fire(w)
    \/ \E r \in runs : StoreFindings(r)
    \/ \E r \in runs : Publish(r)

(* The server checks no message against _shutdown; the client is held to   *)
(* the protocol, which lets it send only "exit" after "shutdown".          *)
Next ==
    \/ ~shutdown /\ \E u \in Uris : DidChange(u)
    \/ ~shutdown /\ \E u \in Uris : DidSave(u, docs[u])
    \/ ~shutdown /\ Shutdown
    \/ Exit
    \/ Threads

(* Timers fire and analyses end, each in a thread of its own (0 is the main one);
   what the client does is up to it. *)
ThreadStep(id) ==
    \/ \E w \in waiting : w.id = id /\ Fire(w)
    \/ \E r \in runs : r.id = id /\ (StoreFindings(r) \/ Publish(r))
Fairness == \A id \in Text : WF_vars(ThreadStep(id))

Spec == Init /\ [][Next]_vars /\ Fairness

-------------------------------------------------------------------------------
TypeOK ==
    /\ docs \in [Uris -> Text]
    /\ found \in [Uris -> Text]
    /\ waiting \subseteq Job
    /\ timer \in 0..MaxEdits
    /\ runs \subseteq Run
    /\ edits \in 0..MaxEdits
    /\ shutdown \in BOOLEAN
    /\ alive \in BOOLEAN
    /\ shown \in [Uris -> Text]
    /\ covered \in [Uris -> SUBSET Text]
    /\ immediate \in BOOLEAN

(* _Debouncer: "Each new call to schedule() cancels the previous pending   *)
(* call": at most one timer waits, the one _timer refers to, so that       *)
(* cancel() can always reach it.                                           *)
OneWaiting == \A w \in waiting : w.id = timer /\ \A v \in waiting : v = w

(* A debounced analysis that has not started is of the current text: a     *)
(* save or an edit never leaves an older text to be analysed later.        *)
WaitingIsCurrent == \A w \in waiting : w.text = docs[w.uri]

(* Nothing starts to be analysed once the client asked to shut down.       *)
ShutdownStopsTimers == shutdown => waiting = {}

Quiet == alive /\ ~shutdown /\ waiting = {} /\ runs = {}

(* When nothing is pending or running, the text of every document has been *)
(* analysed and published at some time.  Holds of one document; with two,  *)
(* _schedule_analysis' "cancel any pending analysis for this URI first"    *)
(* cancels another's.                                                      *)
EveryTextAnalysed == Quiet => \A u \in Uris : docs[u] # 0 => docs[u] \in covered[u]

(* Of any number of documents the one edited last has been.                *)
LastEditAnalysed ==
    Quiet => \A u \in Uris : docs[u] = edits /\ edits # 0 => docs[u] \in covered[u]

(* Without a delay the server is sequential: what the client displays when *)
(* the loop is back is the current text of each document, and the findings *)
(* that code actions and hovers use are of the text displayed unless its   *)
(* analysis raised.                                                        *)
ShownIsCurrent ==
    Quiet /\ immediate =>
        \A u \in Uris : /\ shown[u] = docs[u]
                        /\ found[u] = docs[u] \/ docs[u] \in Failing

(* The client is always told: an edit is analysed and its diagnostics are  *)
(* published, errors included, unless another edit or the end overtakes it. *)
EditsAreAnswered ==
    \A u \in Uris : \A t \in 1..MaxEdits :
        docs[u] = t ~> (t \in covered[u] \/ edits # t \/ shutdown \/ ~alive)
===============================================================================
