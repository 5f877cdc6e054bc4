SPECIFICATION Spec
CONSTANTS
    NoValue = NoValue
    Nothing = NoValue
    MaxUrls = 2
    MaxItems <- MCMaxItems
    Filters <- MCFilters
    States <- MCStates
INVARIANT NothingLost
INVARIANT SuccessIsTrue
INVARIANT QueryFits
INVARIANT UrlAlive
CHECK_DEADLOCK FALSE
