\* The cache: sizes, versions and the edited image.
SPECIFICATION Spec
CONSTANTS
    f1 = f1
    f2 = f2
    Files = {f1, f2}
    GTH_MODIFIED_IMAGE = mod
    Sizes = {1}
    Neighbours <- OneNeighbour
    CACHE_MAX_SIZE = 1
    MaxRequests = 2
    MaxVersion = 2
    MaxEdits = 2
INVARIANTS
    FreshAnswers
    OneEntryPerImage
    ModifiedIsLatest
\* A behaviour ends when its bounds are reached.
CHECK_DEADLOCK FALSE
