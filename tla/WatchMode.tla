------------------------------ MODULE WatchMode ------------------------------
(***************************************************************************)
(* guardmarly --watch: _run_watch_mode (cli.py).  A loop that lists the     *)
(* files, compares their modification times with those noted before, and   *)
(* analyses those that differ, while others write, delete and create files. *)
(***************************************************************************)
EXTENDS Naturals, Functions

CONSTANTS
    Files,
    Texts,
    Chunked,        \* the Python and JavaScript files
    MaxChanges,     \* bound on how often others change a file
    Coarse          \* whether a change may leave the modification time as it was

Gone == "gone"      \* no such file, and what is printed of one

ASSUME WatchAssumption ==
    /\ Gone \notin Files \cup Texts /\ Chunked \subseteq Files
    /\ MaxChanges \in Nat /\ Coarse \in BOOLEAN

VARIABLES
    disk,           \* the texts of the files
    stamp,          \* their modification times
    changes,        \* how often they were changed
    written,        \* the files changed since the loop began
    pc,             \* where the loop is
    current,        \* current_files
    todo,           \* those of them whose time is yet to be read
    mtimes,         \* mtimes: the times noted, by file
    changed,        \* changed: the files to analyse
    reading,        \* the file under analysis, its text as read, whether given up
    printed         \* the text each file was last reported for, and whether given up

loopVars == <<pc, current, todo, mtimes, changed, reading, printed>>
diskVars == <<disk, stamp, changes, written>>
watchVars == <<diskVars, loopVars>>

Nothing == [file |-> Gone, text |-> Gone, givenUp |-> FALSE]
Outcome == [text |-> reading.text, givenUp |-> reading.givenUp]
Present == {f \in Files : disk[f] # Gone}
Noted(f, time) == [g \in DOMAIN mtimes \cup {f} |-> IF g = f THEN time ELSE mtimes[g]]

WatchInit ==
    /\ disk \in [Files -> Texts \cup {Gone}] /\ stamp = [f \in Files |-> 0]
    /\ changes = 0 /\ written = {}
    /\ pc = "start" /\ current = Present /\ todo = current
    /\ mtimes = [f \in {} |-> 0]
    /\ changed = {} /\ reading = Nothing
    /\ printed = [f \in Files |-> [text |-> "never", givenUp |-> FALSE]]

-------------------------------------------------------------------------------
(* Before the loop: the times of all files are noted, none is analysed.  A file
   gone since it was listed is passed over. *)
NoteAtStart(f) ==
    /\ pc = "start" /\ f \in todo
    /\ todo' = todo \ {f}
    /\ mtimes' = IF f \in Present THEN Noted(f, stamp[f]) ELSE mtimes
    /\ UNCHANGED <<diskVars, pc, current, changed, reading, printed>>

Sleep ==
    /\ pc = "start" /\ todo = {}
    /\ pc' = "collect"
    /\ UNCHANGED <<diskVars, current, todo, mtimes, changed, reading, printed>>

Collect ==
    /\ pc = "collect"
    /\ current' = Present /\ todo' = Present /\ changed' = {}
    /\ pc' = "stat"
    /\ UNCHANGED <<diskVars, mtimes, reading, printed>>

(* The time is noted here, before the file is read. *)
Stat(f) ==
    /\ pc = "stat" /\ f \in todo
    /\ todo' = todo \ {f}
    /\ IF f \in Present /\ (f \in DOMAIN mtimes => mtimes[f] # stamp[f])
       THEN mtimes' = Noted(f, stamp[f]) /\ changed' = changed \cup {f}
       ELSE UNCHANGED <<mtimes, changed>>
    /\ UNCHANGED <<diskVars, pc, current, reading, printed>>

(* Times of files no longer listed are forgotten. *)
Forget ==
    /\ pc = "stat" /\ todo = {}
    /\ mtimes' = Restrict(mtimes, DOMAIN mtimes \cap current)
    /\ pc' = IF changed = {} THEN "collect" ELSE "analyse"
    /\ UNCHANGED <<diskVars, current, todo, changed, reading, printed>>

(* The analysis reads the file, or finds none. *)
Read(f) ==
    /\ pc = "analyse" /\ reading = Nothing /\ f \in changed
    /\ reading' = [file |-> f, text |-> disk[f], givenUp |-> FALSE]
    /\ UNCHANGED <<diskVars, pc, current, todo, mtimes, changed, printed>>

(* The analysis is abandoned.  The fallback reads the file once more and analyses
   it in chunks; of a file in another language it reports the time-out alone, which
   the loop prints as "No issues found". *)
TimeOut ==
    /\ reading # Nothing
    /\ reading' = [reading EXCEPT !.text = disk[reading.file],
                                 !.givenUp = reading.file \notin Chunked]
    /\ UNCHANGED <<diskVars, pc, current, todo, mtimes, changed, printed>>

(* Mutant: the time is noted when the result is printed. *)
ShowAndNote ==
    /\ reading # Nothing
    /\ printed' = [printed EXCEPT ![reading.file] = Outcome]
    /\ mtimes' = Noted(reading.file, stamp[reading.file])
    /\ changed' = changed \ {reading.file}
    /\ reading' = Nothing
    /\ pc' = IF changed' = {} THEN "collect" ELSE pc
    /\ UNCHANGED <<diskVars, current, todo>>

Show ==
    /\ reading # Nothing
    /\ printed' = [printed EXCEPT ![reading.file] = Outcome]
    /\ changed' = changed \ {reading.file}
    /\ reading' = Nothing
    /\ pc' = IF changed' = {} THEN "collect" ELSE pc
    /\ UNCHANGED <<diskVars, current, todo, mtimes>>

Loop ==
    \/ \E f \in Files : NoteAtStart(f) \/ Stat(f) \/ Read(f)
    \/ Sleep \/ Collect \/ Forget \/ Show

(* Somebody writes, creates or deletes a file. *)
Change(f, t) ==
    /\ changes < MaxChanges /\ t # disk[f]
    /\ changes' = changes + 1
    /\ disk' = [disk EXCEPT ![f] = t]
    /\ written' = IF pc = "start" THEN written ELSE written \cup {f}
    /\ \/ stamp' = [stamp EXCEPT ![f] = changes + 1]
       \/ Coarse /\ UNCHANGED stamp
    /\ UNCHANGED loopVars

WatchNext == Loop \/ TimeOut \/ \E f \in Files : \E t \in Texts \cup {Gone} : Change(f, t)

(* The loop goes on; a file need not change and an analysis need not time out.  That
   Show comes assumes that the chunks of the fallback end: nothing limits them. *)
WatchSpec == WatchInit /\ [][WatchNext]_watchVars /\ WF_watchVars(Loop)

-------------------------------------------------------------------------------
(* What the loop says of a file is of this text; it is nothing at all of it where
   the analysis was given up, which happens in other languages only. *)
Reported(f, t) == printed[f].text = t /\ (printed[f].givenUp => f \notin Chunked)

(* A text that was written since the loop began and is not the one reported will
   still be noticed: its file is to be analysed, or its time is not the one noted.
   No order of writes, polls and analyses loses it. *)
NothingMissed ==
    \A f \in written \cap Present :
        \/ Reported(f, disk[f])
        \/ f \in changed
        \/ f \in DOMAIN mtimes => mtimes[f] # stamp[f]

(* "Watch scanned paths for file changes and re-scan modified files": what is
   written last to a file since the loop began is in the end what is reported, even
   if an older text of the file was under analysis then, or the file was deleted and
   created again; a Python or JavaScript file is then analysed, whole or in chunks. *)
ChangesAreShown ==
    \A f \in Files : \A t \in Texts :
        <>[](f \in written /\ disk[f] = t) => <>[]Reported(f, t)
===============================================================================
