SPECIFICATION RoutingSpec
CONSTANTS
    Requests = {r1, r2}
    FailureThreshold = 2
    CooldownInitial = 1
    CooldownMax = 1
    BreakerTtl = 2
    Hints = {0, 5}
    MaxFaults = 1
    Modes = {"complete", "stream"}
    MaxChain = 3
    MaxAttempts = 3
    MaxRetries = 1
    MaxDeltas = 1
    Failures = {"rate_limited", "unavailable", "auth_failed", "bad_request",
                "context_too_long", "content_filtered", "empty_response"}
    Private = {1}
    QuotaOn = TRUE
INVARIANTS
    StateIsSound
    TripIsPending
    FailoverIsNotStarved
    RetriesAreEarned
    BooksAgree
PROPERTIES
    ComesBack
