SPECIFICATION Spec
CONSTANTS
    r1 = r1
    r2 = r2
    r3 = r3
    m1 = m1
    m2 = m2
    w1 = w1
    w2 = w2
    Nothing = Nothing
    RTs <- ThreeRTs
    Mems <- TwoMems
    Weights <- TwoWeights
    MaxEntries = 2
    Readers <- AllReaders
    Interrupts = TRUE
    MaxReweighs = 1
    MaxVersions = 2
SYMMETRY Names
INVARIANTS
    KeepsTheRecent
PROPERTIES
    EvaluationSpec
