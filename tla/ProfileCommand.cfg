SPECIFICATION Spec
CONSTANTS
    Models = {m1, m2}
    None = None
    MaxSignals = 3
    MaxFaults = 2
INVARIANTS
    RestoredOnEveryExit
    ZeroMeansDone
    InterruptIsReported
    NoWorkerOutlivesTheSession
PROPERTIES
    SessionSpec
