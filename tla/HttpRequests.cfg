SPECIFICATION FairSpec
CONSTANTS
    NoValue = NoValue
    Nothing = NoValue
    MaxLength = 2
    MaxHeaders = 1
    CallbackBuffer = 2
    Answers <- MCAnswers
    Upper <- MCUpper
INVARIANT NothingLost
PROPERTY RefinesCall
PROPERTY CallReturns
CHECK_DEADLOCK FALSE
