SPECIFICATION Spec
CONSTANTS
    t1 = t1 t2 = t2 o1 = o1 o2 = o2 m1 = m1 m2 = m2 m3 = m3
    NoTx = NoTx
    Txs = {t1, t2}
    Outpoints = {o1}
    Inputs <- InputsSame
    Smartnodes = {m2}
    Self = NoTx
    LockRequests = {t1, t2}
    PeerVotes <- VotesOfPeers
    Quorums <- Fixed1
    SIGNATURES_REQUIRED = 1
    SIGNATURES_TOTAL = 1
    LOCK_TIMEOUT = 0
    FAILED_TIMEOUT = 1
    KeepLock = 1
    StartHeight = 2
    MaxHeight = 2
    MaxTime = 0
    MaxReorg = 1
    MaxRestarts = 1
    SporksMove = TRUE
INVARIANT MempoolRespectsLocks
