CONSTANTS
    Servers = {s1, s2}
    Branches = {home, b1}
    Home = home
    Requests = {r1, r2, r3}
    MaxCursors = 2
    MayFail = TRUE
    MayPanic = TRUE
    Nil = Nil
SPECIFICATION BrowserFairSpec
INVARIANTS ListsItsBranch LockedAtWork
PROPERTIES EveryRequestIsAnswered
CHECK_DEADLOCK FALSE
