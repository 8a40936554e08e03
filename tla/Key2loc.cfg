SPECIFICATION Spec
CONSTANTS
    NULL = NULL
    a = a
    b = b
    c = c
    d = d
    e = e
    x = x
    y = y
    Char <- MCChar
    Hex <- MCHex
    Loc <- MCLoc
    StatWord <- MCStatWord
    TypeWord <- MCTypeWord
    OpWord <- MCOpWord
    ValWord <- MCValWord
    Interval <- MCInterval
    UINT8 = 4
    RCOUNTMAX = 3
    NLOCMAX = 5
    Jobs <- MCJobs
    Worlds <- MCWorlds
    Matches <- MCMatches
    NetErrno <- MCNetErrno
    Faults = {"page", "net"}
INVARIANTS
    TypeOK
    LocatorsExact
    RequestsExact
    OnlyBadUseAborts
    KeywordsExact
PROPERTIES
    EndsNearer
