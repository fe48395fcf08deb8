SPECIFICATION Spec
CONSTANTS
    Vendors = 4
    ClusterOf <- Aliases
    Local = {3}
    Uei = {"u"}
    Masters <- TwoMasters
    Extracts <- TwoExtracts
    Tops = {4}
    MaxApi = 2
    Breaker = 2
    BatchSize = 2
    Faults = {"crash", "transport", "quota"}
    Part = Part
    None = None
INVARIANT SamTypeOK
INVARIANT ScanIsComplete
INVARIANT OpenIsRetried
INVARIANT MissesWereAnswered
PROPERTY LookupsSurvive
