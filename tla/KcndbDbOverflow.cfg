SPECIFICATION Spec
CONSTANTS
    Thread = {t1}
    NoThread = NoThread
    a = a
    b = b
    Loc <- MCLoc
    HASHSIZ = 3
    Hash <- MCHash
    Slot <- MCSlot
    BUFSIZ = 8
    AddReqs <- MCAdds
    Queries <- MCQueries
    NoReq = NoReq
    Garbage = Garbage
    Faults = {}
    PreferWriter = FALSE
    MaxReaders = 2
    MaxRecords = 3
    MaxLocCells = 8
INVARIANTS
    BufferNeverOverflows
CHECK_DEADLOCK FALSE
