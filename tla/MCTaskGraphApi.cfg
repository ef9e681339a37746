SPECIFICATION Spec
CONSTANTS
    r1 = r1
    r2 = r2
    NoCoroutine = NoCoroutine
    NoCheckpoint = NoCheckpoint
    Coroutines <- TwoSlots
    Mode = "async"
    Controls <- AllControls
    AlwaysApprove = FALSE
    MaxRetries = 1
    MaxFaults = 0
INVARIANT OnePipeline
PROPERTIES ApprovalGate CancelledNotMerged RollbackStands
SYMMETRY Slots
CHECK_DEADLOCK FALSE
