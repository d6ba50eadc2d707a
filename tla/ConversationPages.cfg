SPECIFICATION Spec
CONSTANTS
    Turns = {t1, t2}
    Bodies <- SomeBodies
    PageSize = 2
    MaxRows = 4
INVARIANTS
    TranscriptIsWhole
CHECK_DEADLOCK FALSE
