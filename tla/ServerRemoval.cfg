SPECIFICATION Spec
CONSTANTS
    Url = {1, 2}
    Gene = {g1}
    BUFFER_SIZE = 1
    TickEvery = 3
    MaxPasses = 2
    MaxFlight = 1
    Slow = FALSE
    Keeps = FALSE
PROPERTY
    OnlyTheDeadAreRemoved
