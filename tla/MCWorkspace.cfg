SPECIFICATION RunEffectsSpec
CONSTANTS
    p1 = p1  p2 = p2
    a = a  b = b  c = c
    f1 = f1  f2 = f2  f3 = f3
    NoFile = NoFile
    Torn = Torn
    Exporters <- TwoExporters
    Runs <- TwoRuns
    Inodes <- Files
    MaxExports = 3  MaxCrashes = 1

    SoloExporter = p1
    SoloRuns = {a, b, c}
    SoloExports = 5  SoloCrashes = 3

    TreeRuns = {"a", "b"}
    NoTreeRun = "none"
    Retained = 2  MaxSnapshots = 3

    Writers = {"a", "b"}
    MaxSaves = 3  MaxDeaths = 2

    MaxRetries = 2  MaxResumes = 2

    Thresholds = {85, 95}
    Lines = {10, 40}
    MaxToolFaults = 1
    SomeWorld <- PlainWorld

    Vms = {"u", "v"}
    Sweeps = {"s"}
    MaxVmFaults = 1  MaxVmCrashes = 2

    Models = {"dear", "cheap", "new"}
    Price <- Prices
    Eligible <- TwoLists
    Defaults = {"auto", "dear"}
    EventsWindow = 2  ErrorWindow = 0  MaxTime = 1  MaxChanges = 3

    Windows = {40, 100, 200}
    SystemSize = 8
    Instructions = {4, 30}
    SymbolSizes <- ThreeSymbols
    SnippetSizes = {3, 12}
    BodyCap = 7  Wrapping = 1  NoteSize = 1  HeaderSize = 2  MaxItems = 3

    Texts = {"x", "dashes", "pluses"}
    Heads <- ThreeHeads
    MaxLines = 3  MaxReports = 2
    SomePatch <- PlainPatch
INVARIANTS ChainVerifies OneEntryPerRun SoloEvidenceSealed
    CheckpointReadable ResumeSound FlipSources MachinesFound
    RoutedToUsable BudgetFlagged RevertUndoes
PROPERTIES AppliedIsOwn RollbackClears
CHECK_DEADLOCK FALSE
