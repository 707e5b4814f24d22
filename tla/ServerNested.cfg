SPECIFICATION Spec
CONSTANTS
    Url = {1, 2}
    Gene = {g1}
    BUFFER_SIZE = 2
    TickEvery = 3
    MaxPasses = 2
    MaxFlight = 1
    Slow = TRUE
    Keeps = TRUE
INVARIANTS
    EveryWorkerIsProbed
    IteratorIsValid
    FewWorkersAreSafe
CHECK_DEADLOCK FALSE
