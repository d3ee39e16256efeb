SPECIFICATION Spec
CONSTANTS
    Calls = {c1, c2, c3, c4}
    MaxReviews = 2
    WindowSeconds = 2
    Threshold = 2
    SuggestionCounts = {1, 2}
    MaxTime = 4
    MaxDisturbances = 1
SYMMETRY CallSymmetry
INVARIANTS TypeOK LimitInTurn RefusalsAreEarned SuggestionsAreCounted
CHECK_DEADLOCK FALSE
