SPECIFICATION Spec
CONSTANTS
    Callers = 3
    Margin = 2
    FetchTimeout = 1
    JobTimeout = 2
    Lifetimes = {1, 4}
    MaxOvertaken = 1
    MaxTime = 7
INVARIANTS
    CachedTokenGood
    FetchesSpread
    WaitBounded
CHECK_DEADLOCK FALSE
