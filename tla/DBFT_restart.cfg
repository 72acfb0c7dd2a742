SPECIFICATION Spec
CONSTANTS
    N = 2
    Alive = {0, 1}
    Restarting = {0, 1}
    Rejecting = {1}
    LackTx = {}
    MaxHeight = 1
    MaxView = 1
    MaxRestarts = 1
    MaxRecovery = 1
    None = None
INVARIANTS CommitsSigned AcceptedBacked
PROPERTIES CommitLock
CHECK_DEADLOCK FALSE
