SPECIFICATION FairSpec
CONSTANTS
    critical = critical
    minor = minor
    design = design
    Suggestions <- MCSuggestions
    Severity <- MCSeverity
    Categories <- MCCategories
    DiscardBudget = 1
    BlockingSettings <- MCBlockingSettings
    MaxCheckUpdateAttempts = 3
    MaxDisturbances = 4
INVARIANTS TypeOK ApprovalIsEarned SuccessIsEarned RepeatsAreEarned
PROPERTY ReviewConcludes
CHECK_DEADLOCK FALSE
