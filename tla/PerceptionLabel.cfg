SPECIFICATION Spec
CONSTANTS
    Users = {u1, u2}
    Docs <- MCDocs
    Bodies <- MCBodies
    FileMaxBytes = 3
    OcrMaxPages = 1
    Caps <- MCCaps
    NativeCaps = {3}
    Replies <- MCReplies
    MaxPolls = 1
    MaxTurns = 1
    MaxRenders = 2
    MaxFaults = 1
INVARIANT
    LabelIsTheReader
