SPECIFICATION Spec
CONSTANTS
    Thresholds <- OneThreshold
    Lines <- SmallDiff
    MaxFaults = 0
INVARIANT MergedWasFixed
CHECK_DEADLOCK FALSE
