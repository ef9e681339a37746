SPECIFICATION MCFairSpec
CONSTANTS
  Workers = {w1, w2}
  Runs = {r1}
  MaxAttempts = 2
  ClaimCount = 10
  Faults = {"crash", "heartbeat", "stall"}
  MaxFaults = 1
  Free = Free
  Orphan = Orphan
PROPERTIES AtLeastOnce LeaseOnlyDroppedByHolder
INVARIANT RetryChain
