SPECIFICATION Spec
CONSTANTS
    t1 = t1 t2 = t2 o1 = o1 o2 = o2 m1 = m1 m2 = m2 m3 = m3
    NoTx = NoTx
    Txs = {t1, t2}
    Outpoints = {o1}
    Inputs <- InputsSame
    Smartnodes = {m1, m2}
    Self = m1
    LockRequests = {t1, t2}
    PeerVotes <- VotesOfPeers
    Quorums <- Fixed2
    SIGNATURES_REQUIRED = 2
    SIGNATURES_TOTAL = 2
    LOCK_TIMEOUT = 0
    FAILED_TIMEOUT = 1
    KeepLock = 1
    StartHeight = 2
    MaxHeight = 5
    MaxTime = 0
    MaxReorg = 1
    MaxRestarts = 0
    SporksMove = FALSE
INVARIANT ChainRespectsLocks
