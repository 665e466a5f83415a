\* A write fails once.
SPECIFICATION TasksSpec
CONSTANTS
    Jobs = {1}
    Size = 2
    MaxErrors = 1
    MaxRequests = 2
INVARIANT NoErrorMeansSaved
CHECK_DEADLOCK FALSE
