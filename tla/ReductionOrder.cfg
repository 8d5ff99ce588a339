SPECIFICATION Spec
CONSTANTS
    One <- MCOne
    Start <- MCStart
    End <- MCEnd
    Numbered = FALSE
    Workflows <- LoopInLoop
INVARIANT AnswerIsExpected
