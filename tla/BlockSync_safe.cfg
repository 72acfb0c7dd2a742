SPECIFICATION Spec
CONSTANTS
    Peers = {p1}
    StartHeight = 0
    PeerHeight = 3
    BlockCacheSize = 2
    MaxHashesCount = 1
    Consensus = TRUE
    MaxFailures = 1
    MayShutdown = TRUE
INVARIANTS NextSlotFree NoLostWakeup
CHECK_DEADLOCK FALSE
