SPECIFICATION ApiSpec
CONSTANTS
    a1 = a1  q1 = q1  q2 = q2  q3 = q3  q4 = q4  r1 = r1  r2 = r2  k = k  c1 = c1
    NoKey = NoKey  NoRun = NoRun  NoProc = NoProc  NoContext = NoContext
    Apis = {a1}
    Workers = {}
    Requests = {q1, q2, q3, q4}
    KeyOf <- RetriedRequest
    Runs = {r1, r2}
    Contexts = {c1}
    Steps = 1
    MaxRetries = 1
    RunsPerMonth = 1
    BurstGrace = 0
    Durable = FALSE
    MaxCrashes = 1
    MaxFaults = 0

    EventModes = {"async", "sync", "queued"}
    Streams = {"s"}
    MaxEvents = 3  Keep = 2  MaxEventFaults = 2

    Places = {"queued", "replicas", "wrapped"}
    Actions = {"pause", "resume", "step", "cancel", "rollback"}
    MaxCommands = 2

    Subs = {"a", "b"}
    Retries = {0, 1, 3}
    MaxFailures = 3  MaxWriteFaults = 1  MaxReplays = 1
INVARIANT ApiFaithful
PROPERTIES QuotaEnforced RetryGetsExisting ExistingRunStarts EndsAreHeard DeliveriesSettle
CHECK_DEADLOCK FALSE
