SPECIFICATION ClusterFairSpec
CONSTANTS
    Url = {1, 2}
    Gene = {g1}
    BUFFER_SIZE = 1
    TickEvery = 3
    MaxPasses = 2
    MaxFlight = 1
    Slow = FALSE
    Keeps = FALSE
    Spreader = {1}
    SpreadBatch = 2
PROPERTIES
    TheLivingAreKnown
    TheDeadAreLeftAlone
    GenesReachFellows
