SPECIFICATION Spec
CONSTANTS
    Agents = {"main"}
    Prompt <- MCMain
    NoTime = NoTime
    Capture = TRUE
    Horizon = 2
    MaxRequests = 2
    MaxTroubles = 0
    MaxGiveUps = 0
    Kinds = {"turn"}
INVARIANT ToolExecIsSinceResponse
