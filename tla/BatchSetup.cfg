\* Two versions of each file; the user changes something once.
SPECIFICATION BatchSpec
CONSTANTS
    V = 2
    MaxEdits = 1
    Initial <- MCInitial
INVARIANTS
    HalfSavedIsUndone
PROPERTIES
    ReturnIsTrue
    NeverDispatchesStale
CHECK_DEADLOCK FALSE
