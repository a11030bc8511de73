SPECIFICATION FairSpec
CONSTANTS
    Clients = {c1, c2}
    None = None
    Advances = {18, 60}
    MaxOverlaps = 1
    Expiries = {}
    CanFail = TRUE
    MaxWall = 2
    MaxTime = 80
    MaxExternal = 1
    Validity = 60
    Freeze = 18
    Threshold = 2
    ExtIdModulus = 1000
    AllocCanFail = TRUE
CHECK_DEADLOCK FALSE
INVARIANTS
    PoolTypeOK
    BufferHoldsKeys
    OnePollThread
    ReadyWhenCalled
PROPERTIES
    OnlyEmptyListGoesWrong
    StatusNeverBack
    ExpiredIsRetired
    StopReturns
