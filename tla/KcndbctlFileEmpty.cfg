SPECIFICATION Spec
CONSTANTS
    sp = sp
    x = x
    plus = plus
    minus = minus
    odd = odd
    Space = sp
    Nul = Nul
    Letter = {x, plus, minus}
    Plus = plus
    Minus = minus
    Odd = {odd}
    Files <- MCFiles
    Grown <- MCGrown
    MAXBUFSIZ = 12
    KCN_MSG_MAXSIZ = 7
    KCN_MSG_MAXLOCSIZ = 2
    LLONG_MAX = 30
    SIZE = 64
    Faults = {}
INVARIANTS
    ReadHasRoom
CHECK_DEADLOCK FALSE
