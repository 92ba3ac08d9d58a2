SPECIFICATION FairSpec
CONSTANTS
    NoExec = NoExec
    Concurrency = 2
    NumSessions = 2
    Turns <- MCTwoSessions
    Deadline = 1
    Horizon = 2
    MaxPicks = 2
    MayRaise = TRUE
INVARIANTS
    LiveMatchesEvents
    EventKeysUnique
    FollowsSchedule
    PacingRespected
    OneLateRequest
    SessionsCountedOnce
PROPERTY Terminates
