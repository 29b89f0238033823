CONSTANTS
    MaxActive = 2
    MaxBytes = 3
    Sizes <- OneOrTwo
    MaxOpens = 3
    Ids = {a, b}
    FrameKinds = {"request", "notification", "malformed", "unfit", "garbage"}
    Lengths = {2, 3}
    MessageSizes = {1, 3}
    MaxFrames = 2
    MaxRequests = 1
    MaxPayload = 2
    ResponseBytes = 4
    ReserveBytes = 2
    ErrorBytes = 2
SPECIFICATION ServicesSpec
INVARIANTS
    RowsAreOwned
    ShutdownEndsAll
    RegistryIsFaithful
    AnswersAreWithinLimits
PROPERTIES
    LatchRefusesWork
    RowsAreRemoved
    RequestsAreAnswered
