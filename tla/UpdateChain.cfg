SPECIFICATION Spec
CONSTANTS
    None = None
    Sources <- ChainSources
    Trigger <- ChainTrigger
    DependsOn <- ChainDepends
    Host <- ChainHost
    Rank <- ChainRank
    Selections <- ChainSelections
    NoSecret = {}
    Drops = {}
    Content <- GoodContent
    Rows <- GoodRows
    WellFormed <- AllGood
    MinRows = 1
    Tolerance = 40
    EmptyPolicy = "preserve_previous"
    MaxRetries = 0
    Workers = 1
    ContinueOnError = TRUE
    NoDependents = FALSE
    Faults = {"error", "partial", "lose_state"}

PROPERTY RunCatchesUp
