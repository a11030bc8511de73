SPECIFICATION Spec
CONSTANTS
    Workload <- Preempting
    MaxEvents = 3
    TimedRun = FALSE
    BootBeforeTimer = TRUE
    SpawnCanFail = FALSE
CHECK_DEADLOCK FALSE
INVARIANTS
    OneWorker
    SlaveNeverWaits
    SamePriorityFifo
    HeapNeverBeatsInit
    PreemptOnlyByHigher
    InitHasThread
