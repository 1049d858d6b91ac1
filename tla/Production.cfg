CONSTANTS
    Machines = {1, 2}
    Comments = {none, q}
    NoComment = none
    Lags = {1, 3}
    GapMax = 2
    Bucket = 2
    GuiBucket = 3
    MaxWebRows = 5
    MaxProducts = 2
    DayLength = 6
    DayOpen = 2
    DayClose = 5
    SundayClose = 4
    MaxDays = 1
    Begin = {41}
    MaxRounds = 3
    MaxEvents = 3

SPECIFICATION Spec
INVARIANTS
    NeverOvercounts
    ViewsAddUp
    TimesNest
    ShiftsCountOnce
CHECK_DEADLOCK FALSE
