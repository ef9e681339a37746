SPECIFICATION FairSpec
CONSTANTS
    r1 = r1
    r2 = r2
    NoCoroutine = NoCoroutine
    NoCheckpoint = NoCheckpoint
    Coroutines <- OneSlot
    Mode = "worker"
    Controls <- LoopControls
    AlwaysApprove = FALSE
    MaxRetries = 2
    MaxFaults = 2
PROPERTIES RunsSettle
INVARIANT MergedOnlyVerified
CHECK_DEADLOCK FALSE
