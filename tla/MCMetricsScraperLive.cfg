SPECIFICATION FairSpec
CONSTANTS
    NoSnapshot = NoSnapshot
    Tokens = {1}
    Hits = {0}
    FinishedReasons <- MCOneReason
    KvLevels = {1}
    MaxRequests = 3
    MaxErrors = 2
    BadBodies = FALSE
    MayDie = TRUE
    SlowScrapes = TRUE
INVARIANTS
    LossOnlyByError
    SeenIsAccounted
    OneLateRow
PROPERTIES
    StopEndsThread
    CompletionGetsRow
    ImplementsCompletionLog
