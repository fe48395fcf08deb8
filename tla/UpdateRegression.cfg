SPECIFICATION Spec
CONSTANTS
    None = None
    Sources <- ChainSources
    Trigger <- ChainTrigger
    DependsOn <- ChainDepends
    Host <- ChainHost
    Rank <- ChainRank
    Selections <- ChainSelections
    NoSecret = {}
    Drops = {}
    Content <- ShrinkingContent
    Rows <- ShrinkingRows
    WellFormed <- BothParse
    MinRows = 1
    Tolerance = 40
    EmptyPolicy = "preserve_previous"
    MaxRetries = 0
    Workers = 2
    ContinueOnError = FALSE
    NoDependents = FALSE
    Faults = {}
PROPERTY RegressionsAreCaught

