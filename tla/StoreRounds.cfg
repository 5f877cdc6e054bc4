\* Three items of sizes around the limit, one of them a file; a call runs on.
SPECIFICATION FairSpec
CONSTANTS
    Items = {1, 2, 3}
    Files = {1}
    Sizes = {1, 2, 4}
    Overhead = 1
    MaxSize = 4
INVARIANTS
    BodyFits
    OncePerExchange
PROPERTIES
    RefusedAreTooLarge
    RefinesOutbox
    ExchangeReturns
