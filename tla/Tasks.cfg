\* Two tasks, the page and the user.
SPECIFICATION TasksFairSpec
CONSTANTS
    Jobs = {1, 2}
    Size = 2
    MaxErrors = 1
    MaxRequests = 2
INVARIANT TasksTypeOK
INVARIANT SavedIsWhole
PROPERTY CancelIsHonoured
PROPERTY WindowWaits
PROPERTY TasksEnd
PROPERTY WindowCloses
\* A behaviour ends when the tasks have been used.
CHECK_DEADLOCK FALSE
