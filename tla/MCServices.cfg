SPECIFICATION ControlPlaneSpec
CONSTANTS
    a1 = a1  w1 = w1  w2 = w2  q1 = q1  q2 = q2  r1 = r1  r2 = r2  c1 = c1
    NoKey = NoKey  NoRun = NoRun  NoProc = NoProc  NoContext = NoContext
    Apis = {a1}
    Workers = {w1, w2}
    Requests <- TwoRequests
    KeyOf <- Unkeyed
    Runs = {r1, r2}
    Contexts = {c1}
    Steps = 2  MaxRetries = 0
    RunsPerMonth = 2  BurstGrace = 50
    Durable = TRUE
    MaxCrashes = 1  MaxFaults = 1

    p1 = p1  p2 = p2  u1 = u1  u2 = u2  t1 = t1  t2 = t2
    NoUser = NoUser
    Servers = {p1, p2}
    Users = {u1, u2}
    Groups = {"g"}
    Tokens = {t1, t2}
    Owner <- OwnerOf
    MaxCalls = 5  MaxTokenFaults = 1

    BilledRuns = {"a", "b"}
    BilledSteps = {"s"}
    Included <- SmallPlans
    TokensPerCredit = 4  SecondsPerCredit = 2  RetriesPerStep = 2
    CapMultiplier = 5  DefaultMultiplier = 4  MultiplierParts = 2
    Usage <- BelowAndAbove
    MaxEntries = 3  MaxEvents = 2  MaxDay = 1

    Orgs = {"a"}
    Jobs = {"j", "k"}
    MaxRepeats = 3

    Replicas = {"a", "b"}
    Limit = 2  Window = 3  MaxSkew = 1  MaxTime = 4  MaxRequests = 4

    Clients = {"a", "b"}
    Ids = {"x"}
    FreshIds = {"u", "v"}
    MaxAdds = 4

    MaxAttempts = 2  MaxNodeRetries = 1  MaxLostWrites = 1

    Openers = {"a", "b"}
    MaxDeaths = 2

    Stores = {"a", "b"}
    Scripts = {"c"}
    Shells = {"d"}
    Edited = {"b"}
    LastFile = 5
    MaxTransactions = 3  MaxAborts = 1

    FixRuns = {"a", "b", "c"}
    BranchOf <- TwoIssues
    Bots = {"bot"}
    MaxOpenPrs = 1  MaxPrCalls = 3  MaxPrFaults = 1
SYMMETRY Symmetric
INVARIANTS OneRowPerKey RevokedStaysRevoked CrossingsReported RateLimitKept RecordsComplete SchemaComplete PrsAccounted
PROPERTIES DeprovisionedIsOut InvoiceGrows AppendOnlyKept
CHECK_DEADLOCK FALSE
