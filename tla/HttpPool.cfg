SPECIFICATION FairSpec
CONSTANTS
    Handler = {h1, h2, h3, h4}
    minThreads = 1
    maxThreads = 3
    Nobody = Nobody
INVARIANTS
    OneConnection
    NoneIsDeletedInUse
    SilenceIsTimed
PROPERTIES
    MainComesBack
    PoolShrinks
