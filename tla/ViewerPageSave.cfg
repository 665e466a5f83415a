SPECIFICATION PageSpec
CONSTANTS
    f1 = f1
    f2 = f2
    Files = {f1, f2}
    GTH_MODIFIED_IMAGE = mod
    Sizes = {}
    Neighbours <- OneNeighbour
    CACHE_MAX_SIZE = 2
    MaxRequests = 3
    MaxVersion = 2
    MaxEdits = 2
    MAX_UNDO_HISTORY_LEN = 3
INVARIANTS SavesOwnImage
CHECK_DEADLOCK FALSE
