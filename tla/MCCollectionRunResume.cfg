SPECIFICATION FairSpec
CONSTANTS
    NumTasks = 2
    NumSamples = 2
    Captures <- MCAlways
    MaxInvocations = 2
    MaxFaults = 2
    MaxKills = 1
INVARIANTS
    FilesOfOneAttempt
    FreshThenGone
    EveryTaskTried
PROPERTIES
    SolvedStaysSolved
    InvocationEnds
