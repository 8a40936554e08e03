SPECIFICATION Spec
CONSTANTS
    c1 = c1
    c2 = c2
    x = x
    y = y
    r1 = r1
    r2 = r2
    Client = {c1, c2}
    Server = {s1}
    Nobody = Nobody
    Loc <- MCLoc
    NoLoc = NoLoc
    Errno <- MCErrno
    Rec <- MCRec
    UINT8 = 256
    BUFSIZ = 3
    SNDBUF = 3
    BACKLOG = 1
    Faults = {"refuse", "timeout", "exit", "search", "add"}
    Job <- MCMixed
    Matches <- MCMatches
INVARIANTS
    TypeOK
    EventsAreLive
    OutputHasEvent
    ReadHasRoom
    AnswerFaithful
    AddsInOrder
PROPERTIES
    ImplementsLookup
CHECK_DEADLOCK FALSE
