SPECIFICATION LockSpec
CONSTANTS
    t1 = t1
    t2 = t2
    NoThread = NoThread
    Thread = {t1, t2}
    BufferLen = {0, 2, 20}
    HEADROOM = 1
    MAX_TOTAL = 7
    USIZE_MAX = 20
    StartMinimum = 3
    StartMaximum = 6
    MaxCalls = 4
INVARIANTS
    LockTypeOK
    NoLostGrowth
    GrowthWithinCeiling
    ToldIsLocked

    
CHECK_DEADLOCK FALSE
