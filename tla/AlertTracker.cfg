CONSTANTS
    Machines = {m1, m2}
    EverySec = 2
    LossySends = TRUE

SPECIFICATION AlertFairSpec
INVARIANT AlertTypeOK
PROPERTIES
    TrackerFollowsStates
    OperatorLearnsOfTrouble
