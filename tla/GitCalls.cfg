CONSTANTS
    c1 = c1  c2 = c2  c3 = c3
    NoCall = NoCall
    Calls <- MCCalls
    TierLimit = 1
    WindowMs = 3
    RetryAfters <- MCRetryAfters
    MaxProvider429Retries = 1
    MaxAttempts = 2
    BaseDelayMs = 1
    Backoff <- MCBackoff
    FailureThreshold = 2
    CircuitOpenMs = 2
SPECIFICATION FairSpec
INVARIANTS
    TypeOK
    InTurn
    QuotaKept
    RequestsAreBounded
    CircuitAgrees
PROPERTIES
    EarlyCloseIsEarned
    EveryCallReturns
