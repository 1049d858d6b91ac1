CONSTANTS
    Machines = {m1, m2}
    MaxTotal = 1
    MaxBatch = 2

SPECIFICATION FairSpec
INVARIANTS
    VerdictIsOfChosen
PROPERTIES
    SavedIsFetched
    SaveEnds
