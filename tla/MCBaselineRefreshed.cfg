\* The baseline is refreshed with --baseline-update.
SPECIFICATION Spec
CONSTANTS
    Issues = {"eval"}
    Rule <- MCRule
    Class <- MCClass
    Unnamed <- MCUnnamed
    Files <- MCFiles
    Lines = {1, 2}
    Args <- RelativeRoot
    Cwd <- MCCwd
    Refresh = TRUE
PROPERTIES AcceptedStayQuiet
