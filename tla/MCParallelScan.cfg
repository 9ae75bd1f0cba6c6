\* Two workers, three targets, chunks of at most three lines.
SPECIFICATION Spec
CONSTANTS
    Targets <- MCTargets
    Blank <- MCBlank
    Chunked <- MCChunked
    Workers = 2
    MaxLines = 3
    Slack = 1
    None = None
INVARIANTS OwnResults NothingDropped OnlyCompleteStored WholeFileCovered NeverStuck
PROPERTIES WorkShrinks
CHECK_DEADLOCK FALSE
