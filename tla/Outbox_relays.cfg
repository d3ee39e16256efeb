CONSTANTS
    m1 = m1  m2 = m2  m3 = m3  r1 = r1  r2 = r2
    NoDocument = NoDocument
    NoMessage = NoMessage
    Messages <- TwoMessages
    Poison <- PoisonMessages
    Relays <- TwoRelays
    BatchSize = 2
    MaxAttempts = 2
    MaxRetries <- TwoRetriesEach
    EnvelopeInTry = TRUE
    MaxDisturbances = 2
SYMMETRY RelaySymmetry
SPECIFICATION Spec
CHECK_DEADLOCK FALSE
INVARIANTS
    SentWasPublished
    FailedWasTried
