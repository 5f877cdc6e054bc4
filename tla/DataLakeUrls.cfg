\* Two objects, a path that begins with another, and the empty path.
SPECIFICATION Spec
CONSTANTS
    Objects = {o1, o2}
    Paths <- MCPaths
    NoPath = NoPath
    NoUrl = NoUrl
    Nothing = Nothing
    MaxObjects = 2
    MaxCalls = 2
    MaxEntries = 3
SYMMETRY ObjectSymmetry
INVARIANTS
    UrlsAreFresh
    UrlOfItsPath
PROPERTIES
    MatchedMeansUrls
    EnoughUrlsSuffice
    UploadedUnderItsPath
