CONSTANTS
    Programs = {"O1000", "O2000"}
    LastLine <- MCLastLine
    Still <- MCStill
    NProducts <- MCNProducts
    SwitchParts = 2
    MaxParts = 4

SPECIFICATION SimFairSpec
INVARIANTS
    EstopIsNeverMachining
    ProductFollowsCount
    TakeoverEndsProduction
PROPERTIES
    EveryPartIsMade
    AutoProduces
