CONSTANTS
    Ids = {1, 2}
    Threads = {t1, t2}
    Overlaps = {1, 2}

SPECIFICATION PagesFairSpec
INVARIANTS
    ShownIsOfMachine
    RowsAreOwn
PROPERTIES
    WaitingShows
CHECK_DEADLOCK FALSE
