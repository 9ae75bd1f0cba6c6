SPECIFICATION Spec
CONSTANTS
    Vars = {"x", "y"}
    SourceCalls = {"input", "getenv"}
    SinkCalls = {"system"}
    SanitizerCalls = {"int"}
    Programs <- MCPrograms
INVARIANTS
    ReportsExact
    ValuesReachSinks
PROPERTIES
    StepsAreEdges
CHECK_DEADLOCK FALSE
