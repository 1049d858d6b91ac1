CONSTANTS
    Last = 2
    Rows = {r1, r2}
    Retention = 0
    MaxBackoff = 60

SPECIFICATION FairSpec
INVARIANTS
    EachRowOnce
PROPERTIES
    ImplementsRowArchive
    OldRowsLeave
    LatestCatchesUp
