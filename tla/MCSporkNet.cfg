SPECIFICATION Spec
CHECK_DEADLOCK FALSE
CONSTANTS
    s1 = s1 n1 = n1 n2 = n2
    None = None
    Nodes = {s1, n1}
    Signers = {s1}
    Pairs <- Pair
    SporkIDs = {1}
    Values = {1, 11}
    Offset <- NoOffset
    OutsideTimes = {1, 11}
    MaxTime = 2
    MaxUpdates = 2
    MaxNoise = 1
INVARIANTS TypeOK SignedIfAsLong
PROPERTY NewestVerifiedWins
