SPECIFICATION Spec
CONSTANTS
    Clients = {c1}
    None = None
    Advances = {70}
    MaxOverlaps = 1
    Expiries = {}
    CanFail = FALSE
    MaxWall = 1
    MaxTime = 150
    MaxExternal = 1
    Validity = 60
    Freeze = 18
    Threshold = 3
    ExtIdModulus = 1000
    AllocCanFail = FALSE
CHECK_DEADLOCK FALSE
INVARIANTS
    KeysInLiveBuffer
