SPECIFICATION FairSpec
CONSTANTS
    Signallers = {s1, s2, s3}
    MaxPuts = 6
    None = None
CHECK_DEADLOCK FALSE
INVARIANTS
    CondTypeOK
    WakeupPending
PROPERTIES
    ImplementsMailbox
