SPECIFICATION Spec
CONSTANTS
    Ops = {o1, o2}
    Keys = {"key1", "key2"}
    MaxRows = 2
    MaxFaults = 1
INVARIANTS
    TableIsSound
PROPERTIES
    KeysChangeWhole
    VerdictsArrive
