SPECIFICATION Spec
CONSTANTS
    None = None
    Torn = Torn
    Row <- Rows
    Listings <- ThreeRows
    Order <- InOrder
    PageLength = 2
    Limits = {1, None}
    MaxChanges = 3
    MaxWork = 4
    Faults = {"crash", "unavailable", "no_count", "no_rows", "repeated", "corrected", "withdrawn"}
INVARIANT PurchaseTypeOK
PROPERTY PromotedIsWhole
PROPERTY PromotedWasShown
PROPERTY PurchasesKeepPromise
