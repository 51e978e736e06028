SPECIFICATION Spec
CHECK_DEADLOCK FALSE
CONSTANTS
    s1 = s1 n1 = n1 n2 = n2
    None = None
    Nodes = {s1, n1, n2}
    Signers = {s1}
    Pairs <- Apart
    SporkIDs = {1}
    Values = {1}
    Offset <- NoOffset
    OutsideTimes = {1, 2}
    MaxTime = 1
    MaxUpdates = 1
    MaxNoise = 2
INVARIANT AnnouncedIsServed
PROPERTY SporksReachPeers
