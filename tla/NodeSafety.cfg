SPECIFICATION Spec
CONSTANTS
    Workers = {w1, w2}
    MaxSize = 1
    SemMax = 2
    MaxScore = 1
    GroupSize = 1
    MutateConst = 1
    CombineConst = 1
    MaxIter = 2
    InjectPeriod = 3
    SpreadPeriod = 2
    SpreadBatch = 1
    Troubles = {"ragged", "alien"}
INVARIANTS
    WorkNeverRunsOut
    CrashHasACause
CHECK_DEADLOCK FALSE
