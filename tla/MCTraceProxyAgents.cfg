SPECIFICATION FairSpec
CONSTANTS
    Agents = {"main", "sub"}
    Prompt <- MCMainAndSub
    NoTime = NoTime
    Capture = TRUE
    Horizon = 2
    MaxRequests = 3
    MaxTroubles = 1
    MaxGiveUps = 1
    Kinds = {"turn", "title", "opaque"}
INVARIANTS
    RowsAreAnswers
    IslNewDecodes
    PausesTile
PROPERTY WaitEnds
