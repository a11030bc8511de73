SPECIFICATION UndisturbedSpec
CONSTANTS
    Workload <- BothRoles
    MaxEvents = 3
    TimedRun = FALSE
    BootBeforeTimer = TRUE
    SpawnCanFail = TRUE
CHECK_DEADLOCK FALSE
INVARIANTS
    TypeOK
    ExecMatchesSlot
    AtMostOnce
    HardBlockOwned
    DecidesOnSomething
PROPERTIES
    ExecNotInterrupted
    MasterNeverDropped
    ImplementsLife
