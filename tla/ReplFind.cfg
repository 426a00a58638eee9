SPECIFICATION LiveSpec
CONSTANTS
    MaxNodes = 3
    MaxTokens = 3
    Page <- MCPage
    Title <- MCTitle
    Piece = {"a", "b", "special"}
    MaxLabel = 1
    Logit <- MCLogit
    PageSize = 2
INVARIANT TypeOK
INVARIANT FindsFirst
INVARIANT PredictsBest
INVARIANT KeysAreEntities
INVARIANT AsksRecognisedWords
PROPERTY EveryCommandEnds
PROPERTY CommandAdvances
CHECK_DEADLOCK FALSE
