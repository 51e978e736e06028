CONSTANTS
    Peers = {p1, p2}
    OldPeers = {p2}
    SYNC_TIMEOUT = 1
    LIST_TIMEOUT = 2
    COOLDOWN = 1
    EXPIRE = 8
    DSEG_UPDATE = 12
    Operator = TRUE
    MaxNoise = 2
SPECIFICATION Spec
INVARIANTS TypeOK ListedBeforeWinners
PROPERTY SyncCompletes
