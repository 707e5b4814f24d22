SPECIFICATION Spec
CONSTANTS
    h1 = h1
    h2 = h2
    r1 = r1
    r2 = r2
    w1 = w1
    w2 = w2
    d1 = d1
    d2 = d2
    Streams <- MCStreams
    Names = {"file", "text", "x"}
    maxSize = 14
    maxMultiPartSize = 18
    Block = 2
    Forms <- MCForms
    SetCookies <- MCSetCookies
    Handler = {h1, h2}
    Data = {d1, d2}
    NoData = NoData
    timer = timer
    Expiration = 0
    MaxSessionTime = 1
    MaxLost = 1
    Reader = {r1, r2}
    File = {"f"}
    Locale = {"de", "any"}
    Searches <- MCSearches
    Language <- MCLanguage
    Default = "any"
    Size = {1, 2}
    cacheSize = 1
    cacheTimeout = 1
    maxCachedFileSize = 1
    MaxCacheTime = 1
    MaxChanges = 1
    NoEntry = NoEntry
    Deleted = Deleted
    Trees <- MCTrees
    Values = {"x"}
    MaxRepetitions = 2
    MaxCalls = 5
    Writer = {w1, w2}
    main = main
    Name = {"a", "b"}
    Level = {0, 1, 2, 3}
    minLevel = 1
    bufferSize = 1
    maxFileSize = 1
    maxBackups = 2
    MayFail = TRUE
    MaxMessages = 3
    MaxCrashes = 2
    MaxRenames = 1
    Nobody = Nobody
SYMMETRY Symmetry
INVARIANTS
    
    
    ResponseEndIsKnown
    ParametersArrive
    CookiesComeBack
    NoHandleDangles
    ServedIsRecent
    TextIsTree
    LogIsInOrder
    CriticalAreKept
CHECK_DEADLOCK FALSE
