\* The limit of a file's analysis, where its chunks may hang as well.
SPECIFICATION Spec
CONSTANTS
    Targets <- MCTargets
    Blank <- MCBlank
    Chunked <- MCChunked
    Workers = 2
    MaxLines = 3
    Slack = 1
    None = None
PROPERTIES TimeoutIsHard
CHECK_DEADLOCK FALSE
