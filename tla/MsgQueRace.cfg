SPECIFICATION Spec
CONSTANTS
    t1 = t1
    t2 = t2
    t3 = t3
    Task <- MCTask
    Score <- MCScore
    NoTask = NoTask
    NoThread = NoThread
    Increments <- MCIncrements
    MaxSize = 2
    TotMod = 2
    SemMax = 2
    Producers = {p1}
    Consumers = {c1}
    Readers = {r1}
INVARIANT
    RaceFree
