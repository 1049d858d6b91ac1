CONSTANTS
    Alarms <- MCAlarms
    TypeOf <- MCTypeOf
    AxisOf <- MCAxisOf
    Axes = {1}
    Programs = {0, 4, 7, 28}
    Directory = {1, 2, 4, 5, 9, 28}
    PageSize = 2
    LastTop = 9
    MaxShort = 11
    Wrap = 8
    RetryMs = 2
    MaxPass = 2

SPECIFICATION FairSpec
INVARIANTS
    StandingAlarmsAreShown
    CommentIsOfProgram
PROPERTIES
    EndedAlarmsClear
    CommentIsLearned
CHECK_DEADLOCK FALSE
