SPECIFICATION ProviderSpec
CONSTANTS
    Kilo = 10
    SEpochFloor = 20
    MsEpochFloor = 200
    Epoch = 25
    Calls = {"complete", "stream", "validate"}
    Frames <- MCFrames
    Bodies <- MCBodies
    Errors <- MCErrors
    Announces = {"groq", "openrouter"}
    MaxFrames = 3
    IdleTimeout = 2
    FirstToken = 1
    Estimate = 3
    Documents <- SomeDocuments
    EnvelopeChars = 60
    PlaceholderChars = 30
    Specs <- SomeSpecs
    Uploads <- SomeUploads
    Lengths = {40, 300}
    Limits = {80, 700}
    MaxMessages = 5
INVARIANTS
    ReadsTheReply
    WholeOrError
    SilenceIsBounded
    FitsOrIsHopeless
    OmissionIsHonest
PROPERTIES
    CallsEnd
    CuttingEnds
