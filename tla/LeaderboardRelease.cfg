SPECIFICATION Spec
CONSTANTS
    Source = {1, 2, 3}
    Pairs <- AdjacentPairs
    Heads = 2
    Scopes = 2
    Stamps = 3
    Crashes = 2
    None = None
    Torn = Torn
INVARIANT LeaderboardTypeOK
INVARIANT ReleaseEvidenced
INVARIANT PromotionStands
INVARIANT DeliveredWasReplayed
PROPERTY PromotesAtOnce
