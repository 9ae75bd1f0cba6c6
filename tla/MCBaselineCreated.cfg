\* The baseline is written once and the command always given the same directory.
SPECIFICATION Spec
CONSTANTS
    Issues = {"eval", "exec"}
    Rule <- MCRule
    Class <- MCClass
    Unnamed <- MCUnnamed
    Files <- MCFiles
    Lines = {1, 2}
    Args <- RelativeRoot
    Cwd <- MCCwd
    Refresh = FALSE
INVARIANTS NewIsReported
PROPERTIES AcceptedStayQuiet
