SPECIFICATION HSpec
CONSTANTS
    MAX_UNDO_HISTORY_LEN = 3
    MaxImages = 8
INVARIANTS HistoryTypeOK HistoryFits UnchangedIsSaved
PROPERTIES ImplementsTimeline
CHECK_DEADLOCK FALSE
