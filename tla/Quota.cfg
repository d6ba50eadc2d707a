SPECIFICATION Spec
CONSTANTS
    Slots = {s1, s2}
    Published <- SomeLimits
    HeadroomPct = 10
    ReservedPct = 50
    Cap = 1
    MaxTokens = 2
    HintsArrive = TRUE
SYMMETRY Symmetry
INVARIANTS
    CountersAreSound
    CountsWhatIsSpent
    GrantsWithinLimit
    LanesShareTheDay
