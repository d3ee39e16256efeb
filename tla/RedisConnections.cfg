CONSTANTS
    d1 = d1  d2 = d2  h1 = h1
    PoolSize = 2
    MaxReconnectAttempts = 2
    Disconnects <- MCDisconnects
    HealthChecks <- MCHealthChecks
    MaxConnections = 6
SPECIFICATION FairSpec
INVARIANTS
    TypeOK
    LeaksAreEarned
    PoolIsOpen
    ConnectedIsFull
PROPERTIES
    CallsReturn
