SPECIFICATION FairSpec
CONSTANTS
    Bounds <- TwoSpaces
    FloorStep = 2
    MaxTotal = 4
    MaxDynamic = 2
    Threshold = 3
    Durable = TRUE
    Faults <- SaveFaults
    MaxRuns = 3
    MaxCrashes = 2
INVARIANTS
    NoRepay
    AtMostOneAtRisk
    BudgetHolds
    NeverReprobed
PROPERTIES
    ProgressIsKept
    RunEnds
