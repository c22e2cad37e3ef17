SPECIFICATION S3Spec
CONSTANTS
    Reqs = {"a", "b"}
    Mixes <- GatewayMixes
    Sizes = {1, 2}
    MinPart = 2
    MaxPart = 2
    MaxObject = 4
    Parts = {1, 2}
    Recheck = 2
    MaxPerSession = 1
    MaxTokens = 2
    MaxRows = 3
    MaxCreds = 4
    MaxUploads = 1
    MaxWrites = 3
    None = None
    CR = CR
    LF = LF
    A = A
    B = B
    Absent = Absent
    Octets <- MCOctets
    MaxFrame = 3
    MaxLine = 3
    MaxPull = 4
    Places <- MCPlaces
    Readable <- MCReadable
    LIST_PAGE_SIZE = 2
    SEARCH_WINDOW = 6
    MaxChanges = 2
    NoCursor = NoCursor
    NoRow = NoRow
INVARIANT QuotaKept
INVARIANT Leashed
INVARIANT UploadsWhole
INVARIANT StoredAsSent
 
CHECK_DEADLOCK FALSE
