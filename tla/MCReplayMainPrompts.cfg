SPECIFICATION Spec
CONSTANTS
    System = 3
    Shared = 1
    ConfigKeys = {"MODEL_NAME"}
    Values = {"a"}
    Unset = Unset
    None = None
    Defaults <- MCDefaults
    Agents = {"one"}
    Conversations <- MCOne
    Ttfts = {1}
    DecodeTimes = {50}
    Elapsed = {2}
    Powers = {None}
    MaxInvocations = 1
    MaxTroubles = 0
INVARIANT PromptsMatchCapture
CHECK_DEADLOCK FALSE
