SPECIFICATION Spec
CONSTANTS
    NoSnapshot = NoSnapshot
    Tokens = {1, 2}
    Hits = {1}
    FinishedReasons <- MCReasons
    KvLevels = {1, 2}
    MaxRequests = 3
    MaxErrors = 0
    BadBodies = TRUE
    MayDie = FALSE
    SlowScrapes = TRUE
INVARIANTS
    WindowsOrdered
    RowsDescribeTheirWindow
