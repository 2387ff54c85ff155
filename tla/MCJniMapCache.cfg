CONSTANTS
    JniThreads = {t1, t2}
    Keys = {k1, k2, k3, bad}
    Malformed = {bad}
    SIZE = 2
    MaxCalls = 3
SPECIFICATION FairCacheSpec
INVARIANTS
    ReturnsItsOwnKey
    HoldsTheMostRecent
PROPERTIES
    CachedValuesAreShared
    EveryGetReturns
CHECK_DEADLOCK FALSE
