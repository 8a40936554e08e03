SPECIFICATION FairSpec
CONSTANTS
    c1 = c1
    c2 = c2
    x = x
    y = y
    r1 = r1
    r2 = r2
    Client = {c1, c2}
    Server = {s1}
    Nobody = Nobody
    Loc <- MCLoc
    NoLoc = NoLoc
    Errno <- MCErrno
    Rec <- MCRec
    UINT8 = 256
    BUFSIZ = 4
    SNDBUF = 1
    BACKLOG = 1
    Faults = {"refuse", "timeout", "early", "exit", "search", "add", "nameless"}
    Job <- MCFew
    Matches <- MCMatches
INVARIANTS
    AnswerFaithful
PROPERTIES
    ClientFinishes
    ThreadFreed
CHECK_DEADLOCK FALSE
