SPECIFICATION Spec
CHECK_DEADLOCK FALSE
CONSTANTS
    out1 = out1 back1 = back1 act1 = act1
    NoTx = NoTx NoAddr = NoAddr NoEntry = NoEntry NoResult = NoResult
    Earlier = Earlier
    Addr = {1, 2, 3}
    Txs = {out1, act1}
    Activations = {act1}
    Steps <- OutAndActivate
    Blocks <- TxOrPayee
    Owned <- TwoEach
    Active = {{2, 3}, {1, 2, 3}}
    MinBalance = 1
    BlocksPerRound = 3
    FirstEnd = 1
    StartDelay = 1
    BlockPayees = 2
    BlockInterval = 1
    CoinbaseValue = 2
    NodeInterval = 3
    MaxHeight = 4
    Faults = {"reorg", "crossing", "reject", "crash"}
    MaxFaults = 2
    MaxWrites = 1
INVARIANTS TypeOK PaymentsAvailable BalanceCovered RoundInStep EveryPayeeDue
    NobodyDueTwice
