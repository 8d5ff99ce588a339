SPECIFICATION Spec
CONSTANTS
    Bounds <- OneSpace
    FloorStep = 2
    MaxTotal = 4
    MaxDynamic = 0
    Threshold = 3
    Durable = TRUE
    Faults <- NoFaults
    MaxRuns = 2
    MaxCrashes = 1
PROPERTY PruneIsKept
