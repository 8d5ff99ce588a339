SPECIFICATION FairSpec
CONSTANTS
    One <- MCOne
    Start <- MCStart
    End <- MCEnd
    Numbered = TRUE
    Workflows <- MCWorkflows
INVARIANTS
    TypeOK
    AnswerIsExpected
    CountsAreExpected
    
PROPERTY Ends
