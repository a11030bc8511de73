SPECIFICATION Spec
CONSTANTS
    Clients = {c1}
    None = None
    Advances = {18, 60}
    MaxOverlaps = 1
    Expiries = {1}
    CanFail = FALSE
    MaxWall = 1
    MaxTime = 140
    MaxExternal = 1
    Validity = 60
    Freeze = 18
    Threshold = 3
    ExtIdModulus = 1000
    AllocCanFail = FALSE
CHECK_DEADLOCK FALSE
PROPERTIES
    OnlyOldKeysRemoved
    PollRestoresThreshold
