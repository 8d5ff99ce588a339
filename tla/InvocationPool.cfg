SPECIFICATION FairSpec
CONSTANTS
    N = 3
    Threads = 2
    MaxAttempts = 2
    MaxResends = 1
    MaxInterrupts = 2
INVARIANTS
    NoCallOutlivesThePool
    RetriesAreSafe
PROPERTIES
    MeasurementSpec
    Terminates
