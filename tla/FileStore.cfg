\* The file store and the view that follows its signals.
SPECIFICATION StoreSpec
CONSTANTS
    Files = {f1, f2, f3}
    Keys = {0, 1}
    NoKey = 2
    Filters = {{0, 1}, {0}}
    MaxThumbs = 1
CONSTRAINT NotStrayed
SYMMETRY FileSymmetry
INVARIANT StoreTypeOK
INVARIANT RowsAreAccepted
INVARIANT ViewMirrorsStore
PROPERTY SelectionFollowsFiles
\* The program ends when the view crashes.
CHECK_DEADLOCK FALSE
