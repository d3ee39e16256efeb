CONSTANTS
    m1 = m1  m2 = m2  m3 = m3  r1 = r1  r2 = r2
    NoDocument = NoDocument
    NoMessage = NoMessage
    Messages <- TwoMessages
    Poison <- PoisonMessages
    Relays <- OneRelay
    BatchSize = 2
    MaxAttempts = 1
    MaxRetries <- TwoRetriesEach
    EnvelopeInTry = FALSE
    MaxDisturbances = 0
SPECIFICATION FairSpec
CHECK_DEADLOCK FALSE
PROPERTIES
    NothingBlocksTheQueue
