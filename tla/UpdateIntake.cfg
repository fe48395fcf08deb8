SPECIFICATION FairSpec
CONSTANTS
    None = None
    Sources <- IntakeSources
    Trigger <- IntakeTrigger
    DependsOn <- IntakeDepends
    Host <- IntakeHost
    Rank <- IntakeRank
    Selections <- IntakeSelections
    NoSecret = {}
    Drops = {"f1", "f2"}
    Content <- TornContent
    Rows <- TornRows
    WellFormed <- TornWellFormed
    MinRows = 1
    Tolerance = 40
    EmptyPolicy = "preserve_previous"
    MaxRetries = 0
    Workers = 2
    ContinueOnError = FALSE
    NoDependents = FALSE
    Faults = {"error", "partial", "late_drop", "crash", "lose_state"}
INVARIANT LaneExclusive
PROPERTY NoLostMark
PROPERTY RunsEnd
