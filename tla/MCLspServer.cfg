\* Two documents, debounced or not: saves and edits race the timer threads.
SPECIFICATION Spec
CONSTANTS
    Uris = {"a.py", "b.js"}
    MaxEdits = 3
    Blank <- MCBlank
    Failing <- MCFailing
INVARIANTS WaitingIsCurrent ShutdownStopsTimers LastEditAnalysed ShownIsCurrent
PROPERTIES EditsAreAnswered
CHECK_DEADLOCK FALSE
