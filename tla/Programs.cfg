SPECIFICATION Spec
CONSTANTS
    Client = {c1, c2}
    Instance = {i1, i2}
    NoInstance = NoInstance
    serviceFlags = {"CanBeSuspended"}
    Commands = {"terminate", "pause"}
    MaxKills = 1
    winFlags = {"CanBeSuspended", "NeedsStopOnShutdown"}
    MaxStarts = 1
    CHROME_LEN = 3
    Base = 2
    Width = 2
    Slots = {1, 2}
    Rows = 3
    Columns = 1
    Few = 2
    Answers = {0, 1, 5}
INVARIANTS
    StatusIsTrue
    GenesReadBack
    OneRequest
    NoEntryIsGivenTwice
PROPERTIES
    PendingEnds
    ControllersComeBack
    WindowsMoveOn
CHECK_DEADLOCK FALSE
