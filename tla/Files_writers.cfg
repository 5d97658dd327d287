SPECIFICATION Spec
CONSTANTS
    Processes = {p1, p2, p3}
    NoOne = NoOne
    Leaving = Leaving
    Stale = 1
    GiveUp = 2
    MaxKills = 1
INVARIANTS
    WholeFiles
    NothingLost
PROPERTY
    WritersEnd
CHECK_DEADLOCK FALSE
