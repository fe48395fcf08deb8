SPECIFICATION FairSpec
CONSTANTS
    None = None
    Torn = Torn
    Record <- Records
    Blank = {"blank"}
    Registries <- ThreeRegistries
    PageLength = 2
    Limits = {1, None}
    MaxWork = 3
    Faults = {"crash", "unavailable", "no_total", "short_page"}
INVARIANT TypeOK
PROPERTY CompleteOutput
PROPERTY KeepsPromise
PROPERTY RunsEnd
