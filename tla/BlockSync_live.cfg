SPECIFICATION FairSpec
CONSTANTS
    Peers = {p1}
    StartHeight = 0
    PeerHeight = 3
    BlockCacheSize = 3
    MaxHashesCount = 1
    Consensus = FALSE
    MaxFailures = 1
    MayShutdown = FALSE
PROPERTIES FetchedUnlessGap
CHECK_DEADLOCK FALSE
