SPECIFICATION Spec
CONSTANTS
    Thread = {t1, t2}
    NoThread = NoThread
    a = a
    b = b
    Loc <- MCLoc
    HASHSIZ = 3
    Hash <- MCHash
    Slot <- MCSlot
    BUFSIZ = 8
    AddReqs <- MCAdds
    Queries <- MCQueries
    NoReq = NoReq
    Garbage = Garbage
    Faults = {"write"}
    PreferWriter = FALSE
    MaxReaders = 2
    MaxRecords = 3
    MaxLocCells = 8
INVARIANTS
    BucketsAreThere
CHECK_DEADLOCK FALSE
