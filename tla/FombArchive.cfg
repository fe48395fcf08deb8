SPECIFICATION Spec
CONSTANTS
    Collection = {"fiscal_plans", "contract_review"}
    Contracts = "contract_review"
    Document = {"plan", "revised"}
    Last <- LastOf
    Links <- Linked
    ReviewPages = 2
    All = All
    Skip = Skip
    Limits = {1, All, Skip}
    Faults = {"crash", "page", "document", "reviews", "cut", "bare_document", "lost_file"}
INVARIANT FombTypeOK
INVARIANT ListedIsRecorded
INVARIANT CurrentOrPending
