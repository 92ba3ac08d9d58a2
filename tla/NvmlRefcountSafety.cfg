SPECIFICATION Spec
CONSTANTS
    Watts = {100, 300}
    None = None
    MaxSamples = 3
    SlowQueries = TRUE
INVARIANTS
    UpWhileUsed
    ReleasedAtEnd
    WattsOfAllSamples
