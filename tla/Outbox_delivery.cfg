CONSTANTS
    m1 = m1  m2 = m2  m3 = m3  r1 = r1  r2 = r2
    NoDocument = NoDocument
    NoMessage = NoMessage
    Messages <- ThreeMessages
    Poison <- PoisonMessages
    Relays <- OneRelay
    BatchSize = 2
    MaxAttempts = 2
    MaxRetries <- ThreeRetriesOrNone
    EnvelopeInTry = TRUE
    MaxDisturbances = 2
SPECIFICATION FairSpec
CHECK_DEADLOCK FALSE
INVARIANTS
    TypeOK
    DuplicatesAreEarned
PROPERTIES
    DeliversAtLeastOnce
