SPECIFICATION FairSpec
CONSTANTS
    None = None
    MaxAttempts = 2
    MaxLines = 2
    MaxEvents = 3
    PipeSize = 1
INVARIANTS
    TranscriptOfSession
    ZeroMeansSolved
PROPERTY AttemptEnds
