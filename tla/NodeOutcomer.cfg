SPECIFICATION Spec
CONSTANTS
    Workers = {w1}
    MaxSize = 2
    SemMax = 2
    MaxScore = 1
    GroupSize = 1
    MutateConst = 1
    CombineConst = 1
    MaxIter = 1
    InjectPeriod = 3
    SpreadPeriod = 2
    SpreadBatch = 1
    Troubles = {"ragged", "alien"}
INVARIANT
    OutcomersStayOut
CHECK_DEADLOCK FALSE
