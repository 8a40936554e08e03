SPECIFICATION FairLockSpec
CONSTANTS
    Thread = {t1, t2}
    NoThread = NoThread
    a = a
    b = b
    Loc <- MCLoc
    HASHSIZ = 3
    Hash <- MCHash
    Slot <- MCSlot
    BUFSIZ = 8
    AddReqs <- MCAddsFew
    Queries <- MCQueriesFew
    NoReq = NoReq
    Garbage = Garbage
    Faults = {}
    PreferWriter = TRUE
    MaxReaders = 2
    MaxRecords = 1
    MaxLocCells = 5
PROPERTIES
    QueryAnswered
CHECK_DEADLOCK FALSE
