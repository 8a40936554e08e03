SPECIFICATION Spec
CONSTANTS
    c1 = c1
    c2 = c2
    x = x
    y = y
    r1 = r1
    r2 = r2
    Client = {c1}
    Server = {s1}
    Nobody = Nobody
    Loc <- MCLoc
    NoLoc = NoLoc
    Errno <- MCErrno
    Rec <- MCRec
    UINT8 = 256
    BUFSIZ = 4
    SNDBUF = 3
    BACKLOG = 1
    Faults = {}
    Job <- MCMany
    Matches <- MCMatches
INVARIANTS
    CountHonoured
CHECK_DEADLOCK FALSE
