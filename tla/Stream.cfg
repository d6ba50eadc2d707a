SPECIFICATION FairSpec
CONSTANTS
    Modes = {"stream"}
    MaxChain = 3
    MaxAttempts = 3
    MaxRetries = 1
    MaxDeltas = 2
    MinPartial = 2
    Failures = {"unavailable", "content_filtered", "empty_response"}
    Private = {}
    QuotaOn = FALSE
INVARIANTS
    StreamIsConsistent
PROPERTIES
    KeepsTheContract
    SalvageCoversTheScreen
    TurnEnds
