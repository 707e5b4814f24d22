SPECIFICATION FairSpec
CONSTANTS
    Workers = {w1}
    MaxSize = 1
    SemMax = 2
    MaxScore = 1
    GroupSize = 1
    MutateConst = 1
    CombineConst = 1
    MaxIter = 1
    InjectPeriod = 5
    SpreadPeriod = 2
    SpreadBatch = 1
    Troubles = {"ragged"}
PROPERTIES
    SchedulerGoesOn
    GenesAreSpread
CHECK_DEADLOCK FALSE
