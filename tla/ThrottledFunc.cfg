CONSTANTS
    Callers = {c1, c2}
    Flavours <- AllFlavours
    MaxCalls = 4
    MayClose = TRUE
SPECIFICATION FairSpec
INVARIANTS OneCycle RateLimited FlushRuns
PROPERTIES LatestRuns
CHECK_DEADLOCK FALSE
