CONSTANTS
    MaxQueue = 2
    Keep = 1
    InsertCanFail = TRUE
    ConnectCanFail = TRUE
    MaxRows = 4
SPECIFICATION FairSpec
INVARIANTS
    RowsAccounted
    CloseDrains
PROPERTIES
    TrimsOldest
    EveryRowSettles
CHECK_DEADLOCK FALSE
