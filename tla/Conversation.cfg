SPECIFICATION FairSpec
CONSTANTS
    Turns = {t1, t2}
    Bodies <- SomeBodies
    PageSize = 2
    MaxRows = 4
INVARIANTS
    HistoryIsValid
    ReadersSeeTheStored
PROPERTIES
    TurnsEnd
CHECK_DEADLOCK FALSE
