SPECIFICATION Spec
CONSTANTS
    Requests = {r1, r2}
    Kids = {k1, k2}
    Forged = forged
    KeysTtl = 3
    MinRefresh = 2
    Methods = {"session", "api_key"}
    Checks <- MCChecks
    Width <- MCWidth
    Limit <- MCLimit
    MaxFaults = 1
    Unlucky = {r1}
INVARIANTS
    BucketsAreExact
    RetryFits
PROPERTIES
    GrantsSlide
    KeySetIsCurrent
    GateOpens
