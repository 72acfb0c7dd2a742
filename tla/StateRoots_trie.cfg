SPECIFICATION Spec
CONSTANTS
    LastChild = 2
    Keys <- MCKeys
    Values = {1, 2}
    Modes = {"all", "latest", "gc"}
    BatchesAt <- MCBatchesAt
    MaxHeight = 4
    RestoreHeight = 0
    CollapseDepth = 1
    MaxTraceableBlocks = 1
    GarbageCollectionPeriod = 1
INVARIANTS RootCanonical CountsExact QueriesRight
CHECK_DEADLOCK FALSE
