SPECIFICATION FairSpec
CONSTANTS
    NoValue = NoValue
    Nothing = NoValue
    MaxLength = 2
    Headers = 1
    Certificates <- MCCertificates
    MaxCertificates = 2
    Answers <- MCAnswers
INVARIANT OwnRequest
PROPERTY RefinesCall
PROPERTY CallReturns
CHECK_DEADLOCK FALSE
