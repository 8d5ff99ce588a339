SPECIFICATION MCFairSpec
CONSTANTS
    Memories <- MCMemories
    Timeouts <- MCTimeouts
    MaxTimeouts <- MCMaxTimeouts
    Models <- MCModels
    Rests <- MCRests
    Sentinel = "None"
    NoModel = "unset"
    Nothing = Nothing
    OperatorModels <- MCOperatorModels
    MaxConflictRetries = 1
    MaxSessions = 2
    MaxChanges = 1
    MaxCrashes = 1
    Faults <- MCBothFaults
INVARIANTS
    RestoredExactly
    BaselineIsOriginal
    CacheCoherent
    RestoreConfirmed
PROPERTIES
    RestoreTerminates
    CollisionKeepsEnvironment
    SessionSpec
