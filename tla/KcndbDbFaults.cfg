SPECIFICATION FairSpec
CONSTANTS
    Thread = {t1}
    NoThread = NoThread
    a = a
    b = b
    Loc <- MCLoc
    HASHSIZ = 2
    Hash <- MCHash
    Slot <- MCSlotLong
    BUFSIZ = 6
    AddReqs <- MCAddsFew
    Queries <- MCQueriesFew
    NoReq = NoReq
    Garbage = Garbage
    Faults = {"kill", "open", "read", "write", "response"}
    PreferWriter = FALSE
    MaxReaders = 1
    MaxRecords = 2
    MaxLocCells = 5
INVARIANTS
    TypeOK
    SearchExact
PROPERTIES
    SectionEnds
CHECK_DEADLOCK FALSE
