CONSTANTS
    a = a  b = b  c = c  x = x
    v1 = v1  v2 = v2  v3 = v3
    NoStage = NoStage
    NoState = NoState
    NoCheckpoint = NoCheckpoint
    NoVersion = NoVersion
    StageIds <- MCStageIds
    Registered <- MCRegistered
    Versions <- MCVersions
    Definition <- MCDefinition
    ManualStages = {a, b}
    MaxDisturbances = 3
SPECIFICATION Spec
INVARIANTS
    TypeOK
    ResumesWhereItStopped
    TraceIsTrue
    CompletionIsEarned
    AttemptsAreNew
    CompletedEventsAreDurable
    FailureIsAnnounced
PROPERTIES
    VersionStaysPinned
