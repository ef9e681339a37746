SPECIFICATION PatcherSpec
CONSTANTS
    Models <- Names
    Price <- Prices
    Eligible <- Lists
    Defaults = {"auto", "dear"}
    Diffs <- RiskyDiffs
    SharedRouter = FALSE
    Intents = {"x", "y"}
    Similar <- Same
    EventsWindow = 2
    ErrorWindow = 0
    MaxTime = 1
    MaxChanges = 1
INVARIANT RiskyAgreed
CHECK_DEADLOCK FALSE
