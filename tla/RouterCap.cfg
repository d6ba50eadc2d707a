SPECIFICATION RoutingSpec
CONSTANTS
    Requests = {r1}
    FailureThreshold = 1
    CooldownInitial = 1
    CooldownMax = 1
    BreakerTtl = 2
    Hints = {0}
    MaxFaults = 0
    Modes = {"complete", "stream"}
    MaxChain = 3
    MaxAttempts = 3
    MaxRetries = 1
    MaxDeltas = 1
    Failures = {"rate_limited", "unavailable", "auth_failed", "bad_request",
                "context_too_long", "content_filtered", "empty_response"}
    Private = {1}
    QuotaOn = TRUE
INVARIANT
    AttemptsAreCapped
