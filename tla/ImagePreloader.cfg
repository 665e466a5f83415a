\* The engine: overlapping requests, in every order.
SPECIFICATION FairSpec
CONSTANTS
    f1 = f1
    f2 = f2
    Files = {f1, f2}
    GTH_MODIFIED_IMAGE = mod
    Sizes = {}
    Neighbours <- OneNeighbour
    CACHE_MAX_SIZE = 1
    MaxRequests = 3
    MaxVersion = 1
    MaxEdits = 1
INVARIANTS
    TypeOK
    NeverStalled
    RefsAccounted
PROPERTIES
    OnlyNewestAnswered
    RequestsEnd
    ImplementsService
\* A behaviour ends when its bounds are reached.
CHECK_DEADLOCK FALSE
