\* The open file: the browser and the page agree, the user is asked, and what was
\* saved is read again.
SPECIFICATION BFairSpec
CONSTANTS
    Files = {f1, f2}
    NoFile = none
    MaxEdits = 1
    MaxVersion = 2
    MaxLoads = 2
INVARIANT BrowserTypeOK
INVARIANT PageFollowsBrowser
PROPERTY AsksWhenModified
PROPERTY SavedIsReloaded
\* A behaviour ends when its bounds are reached.
CHECK_DEADLOCK FALSE
