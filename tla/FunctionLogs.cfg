SPECIFICATION MCSpec
CONSTANTS
    a = a
    b = b
    none = none
    s1 = s1
    s2 = s2
    Streams <- TwoStreams
    Models <- TwoModels
    Supported <- OneModel
    NoModel = none
    EnvModels <- TwoModels
    PayloadModels <- NoPayloadModel
    Objects = 2
    NumImages = 2
    Strict = FALSE
    MaxInvocations = 2
    MaxChanges = 1
    MaxFaults = 2
    Attempts = 1
    MaxFetches = 1
    MaxInterrupts = 1
    MaxApiFaults = 2
    DockerDeploy = TRUE
    RowLimit = 3
SYMMETRY Streams2
INVARIANTS
    CutOffForGood
    SameWork
    NoQueryLeftRunning
    RowsAreOfTheirModel
