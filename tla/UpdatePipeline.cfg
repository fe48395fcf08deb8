SPECIFICATION Spec
CONSTANTS
    None = None
    Sources <- PipelineSources
    Trigger <- PipelineTrigger
    DependsOn <- PipelineDepends
    Host <- PipelineHost
    Rank <- PipelineRank
    Selections <- PipelineSelections
    NoSecret = {"keyed"}
    Drops = {"f1", "f2"}
    Content <- PassingContent
    Rows <- PassingRows
    WellFormed <- AllParse
    MinRows = 1
    Tolerance = 40
    EmptyPolicy = "preserve_previous"
    MaxRetries = 1
    Workers = 2
    ContinueOnError = FALSE
    NoDependents = FALSE
    Faults = {"retryable", "error", "preflight", "late_drop"}
INVARIANT TypeOK
INVARIANT DependencySafe
PROPERTY ConsumedWasRead
PROPERTY RecordsInWaves
PROPERTY FailureSurfaces
