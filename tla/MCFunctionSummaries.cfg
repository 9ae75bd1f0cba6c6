CONSTANTS
    N = 5
    Vars <- MCVars
    Programs <- MCAll
SPECIFICATION Spec
CHECK_DEADLOCK FALSE
INVARIANTS ParamsFound NearSourcesFound SourcesAreReal
