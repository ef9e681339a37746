SPECIFICATION Spec
CONSTANTS
    a1 = a1  a2 = a2  w1 = w1  w2 = w2
    q1 = q1  q2 = q2  q3 = q3
    r1 = r1  r2 = r2  r3 = r3
    k = k  c1 = c1
    NoKey = NoKey  NoRun = NoRun  NoProc = NoProc  NoContext = NoContext
    Apis <- OneApi
    Workers <- TwoWorkers
    Requests <- TwoRequests
    KeyOf <- Unkeyed
    Runs <- TwoRuns
    Contexts <- OneContext
    Steps = 1
    MaxRetries = 0
    RunsPerMonth = 1
    BurstGrace = 0
    Durable = TRUE
    MaxCrashes = 0
    MaxFaults = 0
PROPERTY QuotaEnforced
CHECK_DEADLOCK FALSE
