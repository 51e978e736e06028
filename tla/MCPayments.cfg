SPECIFICATION Spec
CHECK_DEADLOCK FALSE
CONSTANTS
    m1 = m1 m3 = m3 x = x y = y z = z
    NoVote = NoVote NoHeight = NoHeight
    Smartnodes = {m1, m3}
    Self = m3
    Payees = {x, y, z}
    PayeeOf <- OwnPayee
    Heights = {2, 3}
    Rank <- Ranks
    PeerVotes <- SomeVotes
    PayoutInterval = 1
    PayoutsPerBlock = 2
    FutureVotes = 1
    SignaturesRequired = 2
    SignaturesTotal = 2
    MinBlocksToStore = 1
    StartHeight = 0
    MaxHeight = 5
    MaxReorg = 1
    MaxEvents = 2
INVARIANTS TypeOK CountedOnce CountedIffStored MinersAgree
PROPERTY VotesKept
