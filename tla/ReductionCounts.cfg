SPECIFICATION Spec
CONSTANTS
    One <- MCOne
    Start <- MCStart
    End <- MCEnd
    Numbered = TRUE
    Workflows <- ParallelThenBranch
INVARIANT EveryCountIsExpected
