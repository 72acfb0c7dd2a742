SPECIFICATION Spec
CONSTANTS
    seed = seed
    me = me
    Nodes = {seed, me}
    Seeds = {seed}
    Self = me
    Callers = {seed}
    Scopes <- MCScopes
    Ephemeral = ephemeral
    Slots = {1, 2}
    MinPeers = 1
    MaxPeers = 1
    AttemptConnPeers = 1
    ConnRetries = 2
    MaxAsks = 2
    PoolSize = 2
PROPERTIES ConnectedHasPeer  KeepsDialling
