SPECIFICATION Spec
CONSTANTS
    NoValue = NoValue
    Nothing = NoValue
    Catalogue <- MCCatalogue
    MaxPayload = 1000
    MaxEntriesOfStore = 2
    MaxSets = 2
    MaxRotations = 1
    MaxChanges = 1
    MaxEntries <- MCMaxEntries
 
INVARIANT SentComplete
INVARIANT CrashExplained
INVARIANT ParserClean
CHECK_DEADLOCK FALSE
