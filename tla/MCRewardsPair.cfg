SPECIFICATION PairSpec
CHECK_DEADLOCK FALSE
CONSTANTS
    out1 = out1 back1 = back1 act1 = act1
    NoTx = NoTx NoAddr = NoAddr NoEntry = NoEntry NoResult = NoResult
    Earlier = Earlier
    Addr = {1, 2}
    Txs = {out1, back1, act1}
    Activations = {act1}
    Steps <- Transfers
    Blocks <- AnyTx
    Owned <- TwoEach
    Active = {{2}, {1, 2}}
    MinBalance = 1
    BlocksPerRound = 1
    FirstEnd = 3
    StartDelay = 1
    BlockPayees = 1
    BlockInterval = 1
    CoinbaseValue = 2
    NodeInterval = 2
    MaxHeight = 5
    Faults = {}
    MaxFaults = 0
    MaxWrites = 1
INVARIANT SamePayouts
