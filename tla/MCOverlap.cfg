SPECIFICATION Spec
CONSTANTS
    t1 = t1 t2 = t2 o1 = o1 o2 = o2 m1 = m1 m2 = m2 m3 = m3
    NoTx = NoTx
    Txs = {t1, t2}
    Outpoints = {o1, o2}
    Inputs <- InputsOverlap
    Smartnodes = {m1, m2}
    Self = NoTx
    LockRequests = {t1, t2}
    PeerVotes <- OneVoterEach
    Quorums <- Moving1
    SIGNATURES_REQUIRED = 1
    SIGNATURES_TOTAL = 1
    LOCK_TIMEOUT = 0
    FAILED_TIMEOUT = 1
    KeepLock = 0
    StartHeight = 2
    MaxHeight = 4
    MaxTime = 0
    MaxReorg = 0
    MaxRestarts = 0
    SporksMove = FALSE
INVARIANTS InputsLockedTogether LocksHaveCandidates AcceptedHaveCandidates
PROPERTY LocksReleasedForCause
