\* The user cancels a task that waits for the original image.
SPECIFICATION TasksFairSpec
CONSTANTS
    Jobs = {1}
    Size = 2
    MaxErrors = 1
    MaxRequests = 1
PROPERTY CancelledTasksEnd
CHECK_DEADLOCK FALSE
