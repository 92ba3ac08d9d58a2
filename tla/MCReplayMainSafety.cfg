SPECIFICATION Spec
CONSTANTS
    System = 3
    Shared = 1
    ConfigKeys = {"MODEL_NAME"}
    Values = {"a", "b"}
    Unset = Unset
    None = None
    Defaults <- MCDefaults
    Agents = {"one", "two"}
    Conversations <- MCPair
    Ttfts = {1, 4}
    DecodeTimes = {0, 50}
    Elapsed = {0, 2}
    Powers = {None}
    MaxInvocations = 2
    MaxTroubles = 1
INVARIANTS
    ReplayServesAsCaptured
    LengthsFollowCapture
    OnlyLastMessagesPrefilled
    PercentilesSound
    TokensRecovered
CHECK_DEADLOCK FALSE
