CONSTANTS
    Consoles = {"c1"}
    Pipeline <- MCPipeline
    Optional = {"stats"}
    Outside = {"agent"}
    Pids = {1, 2}

SPECIFICATION FairSpec
INVARIANTS
    TypeOK
    OnlyOverlapsDouble
    StoppedServiceLeavesNone
PROPERTIES
    StopLeavesNone
    StopEnds
