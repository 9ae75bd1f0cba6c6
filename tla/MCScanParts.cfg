\* Scans of any part of the tree, with analyses that fail and crashes.
SPECIFICATION Spec
CONSTANTS
    Files <- MCAllFiles
    Versions <- MCVersions
    ImportsOf <- MCAllImportsOf
    None = None
    Failed = Failed
    Python <- MCFiles
    Targets <- MCParts
    Entropy = {"env"}
    MayFail = {"lib"}
    EditsDuringScan = FALSE
INVARIANTS TypeOK OwnTextCached  OnlyStaleScanned
PROPERTIES  ScanEnds
CHECK_DEADLOCK FALSE
