SPECIFICATION Spec
CONSTANTS
    None = None
    Nodes = {1, 2, 3}
    ValidatorsCount = 2
    MaxNodeCount = 2
    DefaultPrice = 1
    WriteFee = 2
    TxGas = 6
    NetFee = 1
    Values = {0, 1}
    SlotValues = {0, 1}
    NodeSets = {{}, {1}, {2, 3}, {1, 2, 3}}
    Prices = {2}
    Contracts <- MCContracts
    UserBalance = 6
    ContractBalance = 2
    MaxDepth = 2
    MaxHeight = 3
    MaxTxs = 2
    MaxUserTxs = 1
    GasReserve = 4
    Cost <- MCCost
INVARIANTS SupplyIsSum SelfListed CommitteeAgrees
PROPERTIES FramesAtomic StaticWritesNothing
CHECK_DEADLOCK FALSE
