SPECIFICATION FairSpec
CONSTANTS
    N = 2
    MaxBroken = 1
    MAX_ITTERATION = 6
    SlowNear = 3
    SlowFar = 4
    Far = 1
    Back = 1
    TRACK_LENGTH = 3
    MaxMove = 2
    MaxCars = 2
    MaxLate = 2
INVARIANTS
    NothingBreaksTwice
    CarHoldsTogether
    TorqueIsCurrent
    StopIsHeard
PROPERTIES
    EvaluationEnds
CHECK_DEADLOCK FALSE
