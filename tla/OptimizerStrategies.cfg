SPECIFICATION FairSpec
CONSTANTS
    Nodes <- MCNodes
    Mems <- MCMems
    Models <- MCModels
    Apps <- MCApps
    Answers <- MCAnswers
    Workflows <- MCWorkflows
    Limits <- MCLimits
    Accuracies <- MCAccuracies
    Compats <- AllPresets
    Weight = 100
INVARIANTS
    BooksBalance
PROPERTIES
    SearchSpec
    Terminates
