SPECIFICATION Spec
CONSTANTS
    Thread = {t1, t2}
    NoThread = NoThread
    a = a
    b = b
    Loc <- MCLoc
    HASHSIZ = 2
    Hash <- MCHash
    Slot <- MCSlot
    BUFSIZ = 8
    AddReqs <- MCAdds
    Queries <- MCQueries
    NoReq = NoReq
    Garbage = Garbage
    Faults = {"kill"}
    PreferWriter = FALSE
    MaxReaders = 2
    MaxRecords = 3
    MaxLocCells = 7
CONSTRAINT Undamaged
SYMMETRY Symmetry
INVARIANTS
    TypeOK
    LockSafe
    SizesAgree
    RecordsResolve
    TimeSorted
    SearchExact
PROPERTIES
    LogGrows
    ImplementsTable
