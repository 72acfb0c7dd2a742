SPECIFICATION Spec
CONSTANTS
    N = 4
    Alive = {0, 1, 2}
    Restarting = {}
    Rejecting = {}
    LackTx = {0}
    MaxHeight = 1
    MaxView = 1
    MaxRestarts = 0
    MaxRecovery = 0
    None = None
INVARIANTS OneCommitPerHeight CommitBacked Agreement
CHECK_DEADLOCK FALSE
