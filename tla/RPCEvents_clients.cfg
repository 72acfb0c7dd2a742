SPECIFICATION Spec
CONSTANTS
    c1 = c1
    c2 = c2
    Clients = {c1, c2}
    Kinds = {"execution", "block"}
    MaxBlocks = 1
    MaxTxs = 2
    MaxRequests <- MCRequests
    MaxFeeds = 2
    BufSize = 1
INVARIANTS FeedsCounted MissedMarked
PROPERTIES BlocksGetThrough StopsUnlessWedged
CHECK_DEADLOCK FALSE
