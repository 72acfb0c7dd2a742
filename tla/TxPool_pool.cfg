SPECIFICATION Spec
CONSTANTS
    a = a
    b = b
    Txs <- MCTxs
    Accounts = {a, b}
    InitialBalance = 5
    Capacity = 3
    GasPrice = 1
    MaxFeePerByte = 2
    MaxBlockTxs = 2
    MaxHeight = 2
    MaxDebt = 3
    None = None
INVARIANTS FeesExact 
PROPERTIES NeverEarly
CHECK_DEADLOCK FALSE
