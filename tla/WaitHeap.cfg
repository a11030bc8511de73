SPECIFICATION Spec
CONSTANTS
    Offered <- Seven
    FirstCap = 2
    AllocCanFail = TRUE
CHECK_DEADLOCK FALSE
INVARIANTS
    HeapTypeOK
    HeapOrder
PROPERTIES
    ImplementsWaitSet
