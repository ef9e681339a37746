SPECIFICATION Spec
CONSTANTS
  Workers = {w1, w2}
  Runs = {r1}
  MaxAttempts = 2
  ClaimCount = 10
  Faults = {"crash", "call"}
  MaxFaults = 2
  Free = Free
  Orphan = Orphan
SYMMETRY WorkerSymmetry
INVARIANTS NoLostRun LeaseExcludes
PROPERTY DeliverySafe
