SPECIFICATION FairSpec
CONSTANTS
    t1 = t1
    t2 = t2
    Threads <- MCThreads
    Main = t1
    Nobody = Nobody
    Jsonl = "jsonl"
    Emf = "emf"
    Memory = "memory"
    Broken = "broken"
    Registered <- MCRegistered
    MaxEvents = 2
    MaxChanges = 1
    MaxFaults = 2
INVARIANTS
    Delivered
PROPERTIES
    TrailSpec
    EmitReturns
CHECK_DEADLOCK FALSE
