SPECIFICATION FairSpec
CONSTANTS
    MaxStarts <- MCStarts
    MaxForks <- MCForks
    MaxCrashes = 1
    Strangers = TRUE
    Stubborn = TRUE
INVARIANTS
    OneServer
    OnlyLateBornEscape
PROPERTY EnterEnds
