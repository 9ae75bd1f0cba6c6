\* Three files, one of them spelled two ways.
SPECIFICATION GraphSpec
CONSTANTS
    Paths = {"a", "A", "b", "c"}
    Names = {"f"}
    Norm <- Spelling
    Base <- FileName
    Calls <- MCCalls
    Bare <- MCBare
    Bridges <- MCBridges
    bare = bare
    Contended = FALSE
INVARIANTS MissingIsMissing
PROPERTIES InvalidationReachesCallers
