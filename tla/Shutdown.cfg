SPECIFICATION UndisturbedFairSpec
CONSTANTS
    Workload <- OneEach
    MaxEvents = 2
    TimedRun = TRUE
    BootBeforeTimer = TRUE
    SpawnCanFail = FALSE
CHECK_DEADLOCK FALSE
PROPERTIES
    ShutdownCompletes
