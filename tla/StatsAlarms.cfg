CONSTANTS
    Items = {i1, i2}
    Retention = 0
    MaxClock = 2

SPECIFICATION FairSpec
INVARIANTS
    SyncIsExact
PROPERTIES
    ImplementsAlarmLog
    OpenTransactionEnds
