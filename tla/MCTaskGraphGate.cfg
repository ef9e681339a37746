SPECIFICATION Spec
CONSTANTS
    r1 = r1
    r2 = r2
    NoCoroutine = NoCoroutine
    NoCheckpoint = NoCheckpoint
    Coroutines <- OneSlot
    Mode = "worker"
    Controls <- NoControls
    AlwaysApprove = FALSE
    MaxRetries = 2
    MaxFaults = 1
PROPERTY ApprovalGate
CHECK_DEADLOCK FALSE
