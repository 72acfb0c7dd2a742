SPECIFICATION Spec
CONSTANTS
    MaxBlock = 3
    ConsensusCap = 1
    RelayCap = 1
    IsConsensus = TRUE
INVARIANTS NothingLost NotBehind
PROPERTIES AddReturns Stops
CHECK_DEADLOCK FALSE
