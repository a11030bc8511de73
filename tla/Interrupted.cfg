SPECIFICATION FairSpec
CONSTANTS
    Workload <- RoleB
    MaxEvents = 2
    TimedRun = FALSE
    BootBeforeTimer = TRUE
    SpawnCanFail = FALSE
CHECK_DEADLOCK FALSE
PROPERTIES
    ExecNotInterrupted
