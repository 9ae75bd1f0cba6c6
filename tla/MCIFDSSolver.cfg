\* Tabulation over every sub-program of a recursive two-function program.
SPECIFICATION MCSpec
CONSTANTS
    Nodes <- MCNodes
    CallNodes <- MCCallNodes
    ExitNodes <- MCExitNodes
    Functions <- MCFunctions
    FunctionOf <- MCFunctionOf
    Facts <- MCFacts
    Zero = "zero"
    MaxDepth = 2
    EntryChoices <- MCEntryChoices
    CallChoices <- MCCallChoices
    EdgeChoices <- MCEdgeChoices
    SeedChoices <- MCSeedChoices
INVARIANTS FixedPoint Grounded ContextsCut
PROPERTIES ReachSpecHolds SolveAdvances SolveTerminates
