SPECIFICATION Spec
CONSTANTS
    None = None
    Writer = {w1, w2, w3}
    LOCK_TIMEOUT = 1
    STALE_LOCK = 2
    Mortal = {w1, w2}
    SlowHolders = TRUE
    FilesFail = TRUE
    RemovalsFail = TRUE
    StartsFresh = {}
INVARIANTS ReadersSeeWholeGraphs SafeUntilFirstBreak
PROPERTIES ImplementsSharedGraph CrashDoesNotWedge EveryAcquireReturns
