SPECIFICATION Spec
CONSTANTS
    None = None
    Writer = {w1, w2}
    LOCK_TIMEOUT = 1
    STALE_LOCK = 2
    Mortal = {w1}
    SlowHolders = FALSE
    FilesFail = FALSE
    RemovalsFail = TRUE
    StartsFresh = {}
PROPERTY WaitingEnds
