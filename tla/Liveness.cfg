SPECIFICATION FairSpec
CONSTANTS
    Workload <- RoleA
    MaxEvents = 2
    TimedRun = FALSE
    BootBeforeTimer = TRUE
    SpawnCanFail = FALSE
CHECK_DEADLOCK FALSE
PROPERTIES
    SlotFreed
    IntakeDrained
    HeapServedUnlessFifoWait
