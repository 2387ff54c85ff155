CONSTANTS
    Threads = {t1, t2}
    hintsBridge = hintsBridge
    ethBridge = ethBridge
    wrapsBridge = wrapsBridge
    hints = hints
    wraps = wraps
    Bridges <- MCBridges
    Libraries <- MCLibraries
    LibraryOf <- MCLibraryOf
    MaxFailures = 2
SPECIFICATION FairSpec
INVARIANTS
    CacheIsWhatIsLinked
    LoadedLibrariesAreCleanedUp
PROPERTIES
    ImplementsLoadOnce
    EveryCallReturns
CHECK_DEADLOCK FALSE
