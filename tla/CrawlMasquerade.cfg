SPECIFICATION Spec
CONSTANTS
    None = None
    Torn = Torn
    Record <- Records
    Blank = {"blank"}
    Registries <- Steady
    PageLength = 2
    Limits = {None}
    MaxWork = 4
    Faults = {"crash", "empty_page"}
PROPERTY CompleteOutput
