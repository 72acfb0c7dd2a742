SPECIFICATION Spec
CONSTANTS
    Peers = {p1}
    MaxHeight = 4
    HeaderBatchCount = 2
    MaxTraceableBlocks = 2
    MaxStops = 2
    MaxFailures = 1
INVARIANTS HeaderChain HeadersRecoverable BlocksKept SplitAtMostOne
PROPERTIES PersistedStays
CHECK_DEADLOCK FALSE
