\* The list of files and its thumbnails.
SPECIFICATION FairSpec
CONSTANTS
    Files = {f1, f2}
    Screen = 1
    ViewAhead = 0
    MaxVersion = 2
    MaxQueue = 2
    MaxEvents = 3
INVARIANT ListTypeOK
INVARIANT OneLiveJob
INVARIANT LoadedIsShown
PROPERTY OnlyClearingStrands
PROPERTY QueueDrains
PROPERTY ThumbnailsSettle
\* A behaviour ends when its bounds are reached.
CHECK_DEADLOCK FALSE
