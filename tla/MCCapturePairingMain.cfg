SPECIFICATION PairSpec
CONSTANTS
    Agents = {"main"}
    Prompt <- MCPrompt
    NoTime = NoTime
    Capture = TRUE
    Horizon = 0
    MaxRequests = 5
    MaxTroubles = 1
    MaxGiveUps = 0
    Kinds = {"turn", "title", "opaque"}
INVARIANTS
    PairedUntilMerge
    OnlyFreshMessagesNew
