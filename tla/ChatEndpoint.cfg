SPECIFICATION Spec
CONSTANTS
    Requests = {r1, r2, r3}
    qa = qa
    qb = qb
    Questions = {qa, qb}
    Bodies <- AskedBodies
    Cacheable = {qa}
    MaxFaults = 1
SYMMETRY Symmetry
INVARIANTS
    OneTurnPerKey
    OnlyDroppedTicketsLock
    ServesTheRightAnswer
    ReplayableIsStored
